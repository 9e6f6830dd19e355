---------------------------- MODULE StaffAccounts ----------------------------
(***************************************************************************)
(* Accounts of the staff and their passwords: AccountService (create,      *)
(* update, delete, changePassword) and, of AuthService, the one-time codes *)
(* by which a forgotten password is replaced (sendOTP, forgotPassword).    *)
(*                                                                         *)
(* forgotPassword writes the password and removes the code side by side    *)
(* (Promise.all).  Who acts is known by an access token, which keeps the   *)
(* role its owner had when it was signed.  The roles are those of          *)
(* RoleAccess: AdminRole stands for the id getAdminRoleId gives, which     *)
(* BaseRolesSurvive says is right.                                         *)
(* Left out is the status of an account: login turns an INACTIVE one away. *)
(***************************************************************************)
EXTENDS Naturals

CONSTANTS
    Users,       \* ids of User rows
    Emails,      \* e-mail addresses; no index keeps two accounts from sharing one
    Roles,       \* role ids
    AdminRole,   \* the admin's
    Passwords,   \* passwords people choose or are sent
    Codes,       \* ids of VerificationCode rows
    Otps,        \* values generateOTP draws from
    Reqs,        \* request slots
    None,        \* no user, code, password
    Admin,       \* the account initialScript makes for the admin
    MaxRequests  \* bound: requests

ASSUME AccountAssumption ==
    /\ Admin \in Users /\ AdminRole \in Roles /\ MaxRequests \in Nat
    /\ None \notin Users \cup Codes \cup Passwords
    /\ Emails # {} /\ Passwords # {} /\ Otps # {}

VARIABLES
    users,    \* users[u]: the User row
    tokens,   \* tokens[u]: the roles in the access tokens signed for u
    codes,    \* codes[c]: the VerificationCode row
    req,      \* req[r]: where the request in slot r stands
    started,  \* requests so far
    told,     \* history: the password the owner of u was last told is in force
    resets,   \* history: the resets that were answered OK, and the rows they removed
    clean     \* history: no request has been overlapped or has stopped half-way

vars == <<users, tokens, codes, req, started, told, resets, clean>>

-----------------------------------------------------------------------------
\* What the password column holds: a hash, or what was put there as it came.
Stored == [hashed: BOOLEAN, of: Passwords]
User   == [state: {"ABSENT", "LIVE", "DELETED"}, email: Emails, role: Roles, password: Stored]
Code   == [state: {"ABSENT", "LIVE", "GONE"}, email: Emails, otp: Otps,
           type: {"REGISTER", "FORGOT_PASSWORD"}, expired: BOOLEAN]

NoUser == [state |-> "ABSENT", email |-> CHOOSE e \in Emails : TRUE, role |-> AdminRole,
           password |-> [hashed |-> TRUE, of |-> CHOOSE p \in Passwords : TRUE]]
NoCode == [state |-> "ABSENT", email |-> CHOOSE e \in Emails : TRUE,
           otp |-> CHOOSE o \in Otps : TRUE, type |-> "REGISTER", expired |-> FALSE]

Hash(p) == [hashed |-> TRUE, of |-> p]
\* hashingService.compare: nothing matches a value that is no hash.
Compare(p, stored) == stored = Hash(p)

\* user: the row acted on.  email, otp, type, role, password: of the body.  byAdmin: the
\* agent's token names the admin role.  todo: calls not made yet.  took: the code row removed.
Request == [op: {"idle", "create", "update", "delete", "change", "otp", "find", "reset"},
            id: 0..MaxRequests, user: Users \cup {None}, email: Emails \cup {None},
            otp: Otps \cup {None}, type: {"REGISTER", "FORGOT_PASSWORD"},
            role: Roles \cup {None}, password: Passwords \cup {None}, byAdmin: BOOLEAN,
            todo: SUBSET {"write", "consume"}, ok: BOOLEAN, took: Codes \cup {None}]
Idle    == [op |-> "idle", id |-> 0, user |-> None, email |-> None, otp |-> None,
            type |-> "FORGOT_PASSWORD", role |-> None, password |-> None, byAdmin |-> FALSE,
            todo |-> {}, ok |-> TRUE, took |-> None]

Live == {u \in Users : users[u].state = "LIVE"}

TypeOK ==
    /\ users \in [Users -> User] /\ codes \in [Codes -> Code]
    /\ tokens \in [Users -> SUBSET Roles]
    /\ req \in [Reqs -> Request] /\ started \in 0..MaxRequests
    /\ told \in [Users -> Passwords \cup {None}]
    /\ resets \subseteq [id: 1..MaxRequests, row: Codes]
    /\ clean \in BOOLEAN

\* initialScript has made the admin's account. The staff accounts it makes as well are
\* as if InsertUser had made them.
Init ==
    /\ users = [u \in Users |-> IF u = Admin THEN [NoUser EXCEPT !.state = "LIVE"] ELSE NoUser]
    /\ tokens = [u \in Users |-> {}]
    /\ codes = [c \in Codes |-> NoCode]
    /\ req = [r \in Reqs |-> Idle]
    /\ started = 0 /\ resets = {} /\ clean = TRUE
    /\ told = [u \in Users |-> IF u = Admin THEN NoUser.password.of ELSE None]

-----------------------------------------------------------------------------
\* A request comes in and stands, after its first call, at s.
Begin(r, s) ==
    /\ req[r].op = "idle" /\ started < MaxRequests
    /\ started' = started + 1
    /\ clean' = (clean /\ \A q \in Reqs : req[q].op = "idle")
    /\ req' = [req EXCEPT ![r] = [s EXCEPT !.id = started + 1]]

End(r) == req' = [req EXCEPT ![r] = Idle]

\* findUnique by e-mail: the first live row, in no particular order.
FindUser(email) == {u \in Live : users[u].email = email}

\* verifyRole: only an admin acts on the admin role.
VerifyRole(byAdmin, role) == byAdmin \/ role # AdminRole

\* What the tokens of these users say of their role: the guard believes them until they
\* expire, also when the user has been given another role or deleted since.
AgentRoles(agents) == UNION {tokens[a] : a \in agents}

\* login: a live row with the e-mail address, whichever is found first, and its password.
Login(e, p) ==
    /\ \E u \in FindUser(e) :
          /\ Compare(p, users[u].password)
          /\ tokens' = [tokens EXCEPT ![u] = @ \cup {users[u].role}]
    /\ UNCHANGED <<users, codes, req, started, told, resets, clean>>

\* refreshToken: the role the row has now, also if it is deleted.
Refresh(u) ==
    /\ tokens[u] # {}
    /\ tokens' = [tokens EXCEPT ![u] = @ \cup {users[u].role}]
    /\ UNCHANGED <<users, codes, req, started, told, resets, clean>>

-----------------------------------------------------------------------------
(* AccountService                                                          *)

\* create: the role of the new account is checked, the password drawn and mailed ...
MailPassword(r, email, role, p) ==
    /\ \E mine \in AgentRoles(Users) :
          /\ VerifyRole(mine = AdminRole, role)
          /\ Begin(r, [Idle EXCEPT !.op = "create", !.email = email, !.role = role,
                                   !.password = p, !.byAdmin = (mine = AdminRole)])
    /\ UNCHANGED <<users, codes, told, resets, tokens>>

\* ... and the row inserted, with the password's hash.
InsertUser(r) ==
    /\ req[r].op = "create"
    /\ \E u \in Users :
          /\ users[u].state = "ABSENT"
          /\ users' = [users EXCEPT ![u] = [state |-> "LIVE", email |-> req[r].email,
                           role |-> req[r].role, password |-> Hash(req[r].password)]]
          /\ told' = [told EXCEPT ![u] = req[r].password]
    /\ End(r)
    /\ UNCHANGED <<codes, started, resets, clean, tokens>>

\* Mutant of ReadTarget: the role that is verified is the one in the body.
ReadTargetTrusting(r, u, op, email, role, p) ==
    /\ u \in Live
    /\ \E mine \in AgentRoles(Users \ {u}) :
          /\ VerifyRole(mine = AdminRole, role)
          /\ Begin(r, [Idle EXCEPT !.op = op, !.user = u, !.email = email, !.role = role,
                                   !.password = p, !.byAdmin = (mine = AdminRole)])
    /\ UNCHANGED <<users, codes, told, resets, tokens>>

\* update and delete, of accounts other than one's own, read the role the account has now
\* and verify that ...
ReadTarget(r, u, op, email, role, p) ==
    /\ u \in Live
    /\ \E mine \in AgentRoles(Users \ {u}) :
          /\ VerifyRole(mine = AdminRole, users[u].role)
          /\ Begin(r, [Idle EXCEPT !.op = op, !.user = u, !.email = email, !.role = role,
                                   !.password = p, !.byAdmin = (mine = AdminRole)])
    /\ UNCHANGED <<users, codes, told, resets, tokens>>

\* ... before they write.  update stores the body as it is, the password and the role in it
\* too, and tells nobody.
UpdateUser(r) ==
    /\ req[r].op = "update"
    /\ LET u == req[r].user
       IN  IF u \in Live
           THEN /\ users' = [users EXCEPT ![u] = [state |-> "LIVE", email |-> req[r].email,
                                role |-> req[r].role,
                                password |-> [hashed |-> FALSE, of |-> req[r].password]]]
                /\ told' = [told EXCEPT ![u] = None]
           ELSE UNCHANGED <<users, told>>
    /\ End(r)
    /\ UNCHANGED <<codes, started, resets, clean, tokens>>

DeleteUser(r) ==
    /\ req[r].op = "delete"
    /\ users' = IF req[r].user \in Live
                THEN [users EXCEPT ![req[r].user].state = "DELETED"] ELSE users
    /\ End(r)
    /\ UNCHANGED <<codes, started, told, resets, clean, tokens>>

\* changePassword, of the token's user, compares the old password with what is stored ...
CompareOld(r, u, old, p) ==
    /\ u \in Live /\ tokens[u] # {} /\ Compare(old, users[u].password)
    /\ Begin(r, [Idle EXCEPT !.op = "change", !.user = u, !.password = p])
    /\ UNCHANGED <<users, codes, told, resets, tokens>>

\* Mutant of WriteChanged: the new password is not hashed.
WriteChangedPlain(r) ==
    /\ req[r].op = "change"
    /\ LET u == req[r].user
       IN  IF u \in Live
           THEN /\ users' = [users EXCEPT ![u].password =
                                [hashed |-> FALSE, of |-> req[r].password]]
                /\ told' = [told EXCEPT ![u] = req[r].password]
           ELSE UNCHANGED <<users, told>>
    /\ End(r)
    /\ UNCHANGED <<codes, started, resets, clean, tokens>>

\* ... and writes the new one's hash.
WriteChanged(r) ==
    /\ req[r].op = "change"
    /\ LET u == req[r].user
       IN  IF u \in Live
           THEN /\ users' = [users EXCEPT ![u].password = Hash(req[r].password)]
                /\ told' = [told EXCEPT ![u] = req[r].password]
           ELSE UNCHANGED <<users, told>>
    /\ End(r)
    /\ UNCHANGED <<codes, started, resets, clean, tokens>>

-----------------------------------------------------------------------------
(* One-time codes                                                          *)

\* sendOTP: who registers has no account, who forgot the password has one ...
CheckEmail(r, email, type) ==
    /\ IF type = "REGISTER" THEN FindUser(email) = {} ELSE FindUser(email) # {}
    /\ Begin(r, [Idle EXCEPT !.op = "otp", !.email = email, !.type = type])
    /\ UNCHANGED <<users, codes, told, resets, tokens>>

\* The row of a code: e-mail, value and type are its key.
CodeRow(email, otp, type) ==
    {c \in Codes : /\ codes[c].state = "LIVE" /\ codes[c].email = email
                   /\ codes[c].otp = otp /\ codes[c].type = type}

\* ... and a code is drawn and stored: a value drawn again gives its row more time.
UpsertCode(r) ==
    /\ req[r].op = "otp"
    /\ \E otp \in Otps :
         LET row == CodeRow(req[r].email, otp, req[r].type)
         IN  \E c \in IF row # {} THEN row ELSE {c \in Codes : codes[c].state = "ABSENT"} :
               codes' = [codes EXCEPT ![c] = [state |-> "LIVE", email |-> req[r].email,
                             otp |-> otp, type |-> req[r].type, expired |-> FALSE]]
    /\ End(r)
    /\ UNCHANGED <<users, started, told, resets, clean, tokens>>

ExpireCode(c) ==
    /\ codes[c].state = "LIVE" /\ ~codes[c].expired
    /\ codes' = [codes EXCEPT ![c].expired = TRUE]
    /\ UNCHANGED <<users, req, started, told, resets, clean, tokens>>

-----------------------------------------------------------------------------
(* forgotPassword                                                          *)

FindForgetful(r, email, otp, p) ==
    /\ \E u \in FindUser(email) :
          Begin(r, [Idle EXCEPT !.op = "find", !.user = u, !.email = email, !.otp = otp,
                                !.password = p])
    /\ UNCHANGED <<users, codes, told, resets, tokens>>

\* validateVerificationCode: a code that is missing or expired ends the request.
ValidateCode(r) ==
    /\ req[r].op = "find"
    /\ req' = [req EXCEPT ![r] =
                 IF \E c \in CodeRow(@.email, @.otp, "FORGOT_PASSWORD") : ~codes[c].expired
                 THEN [@ EXCEPT !.op = "reset", !.todo = {"write", "consume"}] ELSE Idle]
    /\ UNCHANGED <<users, codes, started, told, resets, clean, tokens>>

\* The two calls of Promise.all, in any order.  The user may be deleted by now ...
WriteReset(r) ==
    /\ "write" \in req[r].todo
    /\ users' = IF req[r].user \in Live
                THEN [users EXCEPT ![req[r].user].password = Hash(req[r].password)] ELSE users
    /\ req' = [req EXCEPT ![r].todo = @ \ {"write"}, ![r].ok = @ /\ req[r].user \in Live]
    /\ UNCHANGED <<codes, started, told, resets, clean, tokens>>

\* Mutant of ConsumeCode: deleteMany, which does not fail when there is no row.
ConsumeQuietly(r) ==
    /\ "consume" \in req[r].todo
    /\ LET row == CodeRow(req[r].email, req[r].otp, "FORGOT_PASSWORD")
       IN  /\ codes' = [c \in Codes |-> IF c \in row THEN [codes[c] EXCEPT !.state = "GONE"]
                                        ELSE codes[c]]
           /\ req' = [req EXCEPT ![r].todo = @ \ {"consume"},
                                 ![r].took = CHOOSE c \in Codes : codes[c].state # "ABSENT"]
    /\ UNCHANGED <<users, started, told, resets, clean, tokens>>

\* ... and the code removed by another request, which makes the deletion fail.
ConsumeCode(r) ==
    /\ "consume" \in req[r].todo
    /\ LET row == CodeRow(req[r].email, req[r].otp, "FORGOT_PASSWORD")
       IN  /\ codes' = [c \in Codes |-> IF c \in row THEN [codes[c] EXCEPT !.state = "GONE"]
                                        ELSE codes[c]]
           /\ req' = [req EXCEPT ![r].todo = @ \ {"consume"}, ![r].ok = @ /\ row # {},
                                 ![r].took = IF row = {} THEN None ELSE CHOOSE c \in row : TRUE]
    /\ UNCHANGED <<users, started, told, resets, clean, tokens>>

\* Mutant of AnswerReset: a request is answered OK when the password is written.
AnswerWhenWritten(r) ==
    /\ req[r].op = "reset" /\ "write" \notin req[r].todo
    /\ resets' = IF req[r].ok THEN resets \cup {[id |-> req[r].id, row |-> req[r].took]} ELSE resets
    /\ told' = IF req[r].ok THEN [told EXCEPT ![req[r].user] = req[r].password] ELSE told
    /\ End(r)
    /\ UNCHANGED <<users, codes, started, clean, tokens>>

AnswerReset(r) ==
    /\ req[r].op = "reset" /\ req[r].todo = {}
    /\ resets' = IF req[r].ok THEN resets \cup {[id |-> req[r].id, row |-> req[r].took]} ELSE resets
    /\ told' = IF req[r].ok THEN [told EXCEPT ![req[r].user] = req[r].password] ELSE told
    /\ End(r)
    /\ UNCHANGED <<users, codes, started, clean, tokens>>

\* A call fails (the mail, too) or the server goes down.
Stop(r) ==
    /\ req[r].op # "idle"
    /\ clean' = FALSE
    /\ End(r)
    /\ UNCHANGED <<users, codes, started, told, resets, tokens>>

-----------------------------------------------------------------------------
AccountStep(r) ==
    \/ \E e \in Emails, role \in Roles, p \in Passwords :
          \/ MailPassword(r, e, role, p)
          \/ \E u \in Users : ReadTarget(r, u, "update", e, role, p)
    \/ \E u \in Users : \/ ReadTarget(r, u, "delete", None, None, None)
                        \/ \E old, p \in Passwords : CompareOld(r, u, old, p)
    \/ InsertUser(r) \/ UpdateUser(r) \/ DeleteUser(r) \/ WriteChanged(r)

CodeStep(r) ==
    \/ \E e \in Emails : \/ \E type \in {"REGISTER", "FORGOT_PASSWORD"} : CheckEmail(r, e, type)
                         \/ \E o \in Otps, p \in Passwords : FindForgetful(r, e, o, p)
    \/ UpsertCode(r) \/ ValidateCode(r) \/ WriteReset(r) \/ ConsumeCode(r) \/ AnswerReset(r)

Next == \/ \E r \in Reqs : AccountStep(r) \/ CodeStep(r) \/ Stop(r)
        \/ \E c \in Codes : ExpireCode(c)
        \/ \E u \in Users : Refresh(u)
        \/ \E e \in Emails, p \in Passwords : Login(e, p)

Spec == Init /\ [][Next]_vars

-----------------------------------------------------------------------------
(* Properties                                                              *)

Quiet == \A r \in Reqs : req[r].op = "idle"

\* However many forgotPassword requests use a code at once, one of them is told that it
\* succeeded (auth.service.ts:255): each success has removed a code row of its own, also
\* when a value is drawn again while it is being used.
AnsweredOnce == \A a, b \in resets : a.row = b.row => a = b

\* The owner of an account gets in with the e-mail address of the account and the password
\* last told them - by mail, by changing or by resetting it -, as long as requests neither
\* overlap nor stop half-way and nobody else edits the account.  Only who shares the
\* address with no other account is meant: login and forgotPassword take the first row
\* they find (auth.service.ts:102, :241), and no index makes User.email unique, although
\* create and update mean to say that an account exists (account.service.ts:92, :141).  (An
\* account that is INACTIVE is turned away, auth.service.ts:117, whatever the password.)
ToldPasswordWorks ==
    clean /\ Quiet => \A u \in Live :
       told[u] # None /\ FindUser(users[u].email) \subseteq {u} =>
          \E v \in FindUser(users[u].email) : v = u /\ Compare(told[u], users[v].password)

\* A token that does not name the admin role neither changes nor deletes an account that
\* has it: the role that is verified is the account's own, read in the same request
\* (account.service.ts:119, :189), and requests that do not overlap leave it as it was read.
\* Nothing is said of who becomes an admin: verifyRole's comment keeps that to admins too
\* (:248), but update verifies the old role only and stores the new one as it came (:125).
AdminsChangedByAdmins ==
    [][\A r \in Reqs :
         clean /\ req[r].op \in {"update", "delete"} /\ ~req[r].byAdmin /\ req'[r].op = "idle" =>
            \A u \in Users : users[u].role = AdminRole => users'[u] = users[u]]_vars

-----------------------------------------------------------------------------
(* What the proofs of these properties maintain                            *)

\* A request that is under way has what its next call needs; the code row it has removed
\* is recorded once it is gone, and a reset that goes on without one has failed.
SlotMatches(q) ==
    /\ q.op # "idle" => q.id \in 1..MaxRequests
    /\ q.op \in {"create", "update"} => q.role \in Roles
    /\ q.op \in {"create", "update", "otp", "find", "reset"} => q.email \in Emails
    /\ q.op \in {"create", "update", "change", "find", "reset"} => q.password \in Passwords
    /\ q.op \in {"update", "delete", "change", "find", "reset"} => q.user \in Users
    /\ q.op # "reset" => q.todo = {} /\ q.took = None /\ q.ok
    /\ "consume" \in q.todo => q.took = None
    /\ q.op = "reset" /\ q.ok /\ "consume" \notin q.todo => q.took # None
SlotsMatch == \A r \in Reqs : SlotMatches(req[r])

\* The rows removed by resets, answered or not, are gone for good and all different.
TakenOnce ==
    /\ \A x \in resets : codes[x.row].state = "GONE"
    /\ \A r \in Reqs : req[r].took # None =>
          /\ codes[req[r].took].state = "GONE"
          /\ \A x \in resets : x.row # req[r].took
          /\ \A q \in Reqs : req[q].took = req[r].took => q = r

\* While requests neither overlap nor stop, what a request has read stays as it was: the
\* role it has verified, the user who forgot the password, the code that was valid.
Written(r) == req[r].op = "reset" /\ "write" \notin req[r].todo
ReadsHold ==
    clean => \A r \in Reqs : req[r].op # "idle" =>
       /\ \A q \in Reqs : req[q].op # "idle" => q = r
       /\ req[r].op \in {"update", "delete"} => VerifyRole(req[r].byAdmin, users[req[r].user].role)
       /\ req[r].op \in {"find", "reset"} => req[r].user \in Live
       /\ req[r].op = "reset" => req[r].ok
       /\ "consume" \in req[r].todo =>
             CodeRow(req[r].email, req[r].otp, "FORGOT_PASSWORD") # {}
       /\ Written(r) => Compare(req[r].password, users[req[r].user].password)

\* ... and only a reset that is not answered yet makes a told password wrong.
ToldMatches ==
    clean => \A u \in Live : \/ told[u] = None
                             \/ Compare(told[u], users[u].password)
                             \/ \E r \in Reqs : Written(r) /\ req[r].user = u

AccountInv == SlotsMatch /\ TakenOnce /\ AnsweredOnce /\ ReadsHold /\ ToldMatches
=============================================================================
