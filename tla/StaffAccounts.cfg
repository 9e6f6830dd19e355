\* The admin and an account to be made, with two e-mail addresses; codes of one value,
\* so that it is always drawn again; two requests at a time.
SPECIFICATION Spec
CONSTANTS
    Users = {u1, u2}
    Emails = {e1, e2}
    Roles = {admin, staff}
    AdminRole = admin
    Passwords = {p1, p2}
    Codes = {c1, c2}
    Otps = {o1}
    Reqs = {r1, r2}
    None = None
    Admin = u1
    MaxRequests = 4
CONSTRAINT AccountBound
SYMMETRY AccountSymmetry
INVARIANTS TypeOK AnsweredOnce ToldPasswordWorks
PROPERTIES AdminsChangedByAdmins
CHECK_DEADLOCK FALSE
