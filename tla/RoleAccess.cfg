\* Three role rows, two of them base roles, three permissions; two served paths and one
\* that is served no more; two requests at a time and the script.
SPECIFICATION Spec
CONSTANTS
    admin = admin
    staff = staff
    extra = extra
    RoleIds <- MCRoleIds
    PermIds = {p1, p2, p3}
    Names = {"ADMIN", "STAFF", "CASHIER"}
    Paths = {"GET /bills", "GET /orders", "GET /old"}
    Routes = {"GET /bills", "GET /orders"}
    SeedName <- MCSeedName
    AdminId = admin
    Reqs = {r1, r2}
    None = None
    MaxRequests = 4
    KeepsBaseNames = TRUE
SYMMETRY AccessSymmetry
INVARIANTS TypeOK BaseRolesSurvive
PROPERTIES SetsLivePermissions ScriptCoversRoutes
CHECK_DEADLOCK FALSE
