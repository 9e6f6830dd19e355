----------------------------- MODULE RoleAccess -----------------------------
(***************************************************************************)
(* Roles, permissions and who reads them: RoleService, PermissionService,  *)
(* the id of the admin role that a process keeps (SharedRoleRepository),   *)
(* the check of AccessTokenGuard, and the create-permissions script, which *)
(* matches the permissions with the routes the application serves.         *)
(*                                                                         *)
(* Rows are deleted by setting deletedAt; a role keeps the permissions it  *)
(* was given when they are deleted.  Names and paths have no unique index. *)
(***************************************************************************)
EXTENDS Naturals

CONSTANTS
    RoleIds,        \* ids of Role rows
    PermIds,        \* ids of Permission rows
    Names,          \* names a role can have
    Paths,          \* method and path of a permission
    Routes,         \* the paths the application serves
    SeedName,       \* the roles of initialScript: SeedName[i] is the name of row i
    AdminId,        \* the one of them named ADMIN
    Reqs,           \* request slots
    None,           \* no role
    MaxRequests,    \* bound: requests and script runs
    KeepsBaseNames  \* people neither rename a base role nor give its name away

Seeds     == DOMAIN SeedName
BaseNames == {SeedName[i] : i \in Seeds}

ASSUME SeedAssumption ==
    /\ Seeds \subseteq RoleIds /\ BaseNames \subseteq Names
    /\ AdminId \in Seeds /\ \A i \in Seeds : SeedName[i] = "ADMIN" <=> i = AdminId
ASSUME ConstantsAssumption ==
    /\ None \notin RoleIds /\ Routes \subseteq Paths /\ Paths # {}
    /\ MaxRequests \in Nat /\ KeepsBaseNames \in BOOLEAN

VARIABLES
    roles,        \* roles[i]: the Role row and the permissions joined to it
    perms,        \* perms[p]: the Permission row
    adminRoleId,  \* SharedRoleRepository.adminRoleId
    req,          \* req[r]: where the request in slot r stands
    script,       \* where the create-permissions script stands
    started,      \* requests and script runs so far
    lone          \* history: what is under way has not been overlapped

vars == <<roles, perms, adminRoleId, req, script, started, lone>>

-----------------------------------------------------------------------------
\* LIVE has deletedAt null; GONE is a row the script removed.
Role       == [state: {"ABSENT", "LIVE", "DELETED"}, name: Names, active: BOOLEAN,
               perms: SUBSET PermIds]
Permission == [state: {"ABSENT", "LIVE", "DELETED", "GONE"}, path: Paths]

RoleBody == [name: Names, active: BOOLEAN, perms: SUBSET PermIds]
Request  == [op: {"idle", "update", "delete", "cache"}, role: RoleIds \cup {None},
             body: RoleBody \cup {None}]
Idle     == [op |-> "idle", role |-> None, body |-> None]

\* known: the rows of the first read, as [id, path].  ids: those of the second.
Script   == [step: {"idle", "read", "pruned", "added", "reread", "found", "done"},
             known: SUBSET [id: PermIds, path: Paths], ids: SUBSET PermIds,
             role: RoleIds \cup {None}]
NoScript == [step |-> "idle", known |-> {}, ids |-> {}, role |-> None]

LiveRoles == {i \in RoleIds : roles[i].state = "LIVE"}
LivePerms == {p \in PermIds : perms[p].state = "LIVE"}

TypeOK ==
    /\ roles \in [RoleIds -> Role] /\ perms \in [PermIds -> Permission]
    /\ adminRoleId \in RoleIds \cup {None}
    /\ req \in [Reqs -> Request] /\ script \in Script
    /\ started \in 0..MaxRequests /\ lone \in BOOLEAN

\* After initialScript: the base roles, without permissions.
Init ==
    /\ roles = [i \in RoleIds |->
                  IF i \in Seeds
                  THEN [state |-> "LIVE", name |-> SeedName[i], active |-> TRUE, perms |-> {}]
                  ELSE [state |-> "ABSENT", name |-> "ADMIN", active |-> TRUE, perms |-> {}]]
    /\ perms = [p \in PermIds |-> [state |-> "ABSENT", path |-> CHOOSE a \in Paths : TRUE]]
    /\ adminRoleId = None
    /\ req = [r \in Reqs |-> Idle] /\ script = NoScript
    /\ started = 0 /\ lone = TRUE

-----------------------------------------------------------------------------
Running == script.step \notin {"idle", "done"}
Quiet   == ~Running /\ \A r \in Reqs : req[r] = Idle

\* A request, or the script, comes in.
Begin == /\ started < MaxRequests
         /\ started' = started + 1
         /\ lone' = Quiet
\* What is under way goes on: only the first of several is known not to be overlapped.
Continue == UNCHANGED <<started, lone>>

-----------------------------------------------------------------------------
(* Roles                                                                   *)

CreateRole(i, name, active) ==
    /\ Begin
    /\ roles[i].state = "ABSENT"
    /\ KeepsBaseNames => name \notin BaseNames
    /\ roles' = [roles EXCEPT ![i] = [state |-> "LIVE", name |-> name, active |-> active,
                                      perms |-> {}]]
    /\ UNCHANGED <<perms, adminRoleId, req, script>>

\* What people ask an update for.
Body(i, body) ==
    KeepsBaseNames => IF i \in Seeds THEN body.name = SeedName[i] ELSE body.name \notin BaseNames

\* role.update on a live row; the set of permissions is replaced.
WriteRole(i, body) ==
    roles' = [roles EXCEPT ![i].name = body.name, ![i].active = body.active,
                           ![i].perms = body.perms]

\* An update without permissions is a single call.
UpdateRoleOnly(i, body) ==
    /\ Begin
    /\ Body(i, body) /\ body.perms = {}
    /\ roles[i].state = "LIVE"
    /\ WriteRole(i, body)
    /\ UNCHANGED <<perms, adminRoleId, req, script>>

\* Mutant of CheckPermissions: the result of findMany is not looked at.
CheckNothing(r, i, body) ==
    /\ Begin
    /\ req[r] = Idle
    /\ Body(i, body) /\ body.perms # {}
    /\ req' = [req EXCEPT ![r] = [op |-> "update", role |-> i, body |-> body]]
    /\ UNCHANGED <<roles, perms, adminRoleId, script>>

\* RoleRepo.update reads the permissions first and refuses deleted ones.
CheckPermissions(r, i, body) ==
    /\ Begin
    /\ req[r] = Idle
    /\ Body(i, body) /\ body.perms # {}
    /\ \A p \in body.perms : perms[p].state # "DELETED"
    /\ req' = [req EXCEPT ![r] = [op |-> "update", role |-> i, body |-> body]]
    /\ UNCHANGED <<roles, perms, adminRoleId, script>>

\* The update: a role that is deleted, or a permission that has no row, makes it fail.
SetRole(r) ==
    /\ req[r].op = "update"
    /\ req' = [req EXCEPT ![r] = Idle]
    /\ IF /\ roles[req[r].role].state = "LIVE"
          /\ \A p \in req[r].body.perms : perms[p].state \in {"LIVE", "DELETED"}
       THEN WriteRole(req[r].role, req[r].body)
       ELSE UNCHANGED roles
    /\ Continue
    /\ UNCHANGED <<perms, adminRoleId, script>>

\* Mutant of VerifyRole: only the admin's role is a base role.
VerifyAdminRole(r, i) ==
    /\ Begin
    /\ req[r] = Idle
    /\ roles[i].state = "LIVE" /\ roles[i].name # "ADMIN"
    /\ req' = [req EXCEPT ![r] = [op |-> "delete", role |-> i, body |-> None]]
    /\ UNCHANGED <<roles, perms, adminRoleId, script>>

\* delete reads the role: base roles are told by their names ...
VerifyRole(r, i) ==
    /\ Begin
    /\ req[r] = Idle
    /\ roles[i].state = "LIVE" /\ roles[i].name \notin BaseNames
    /\ req' = [req EXCEPT ![r] = [op |-> "delete", role |-> i, body |-> None]]
    /\ UNCHANGED <<roles, perms, adminRoleId, script>>

\* ... and deletes the row, whatever it is called by now.
DeleteRole(r) ==
    /\ req[r].op = "delete"
    /\ req' = [req EXCEPT ![r] = Idle]
    /\ roles' = IF roles[req[r].role].state = "LIVE"
                THEN [roles EXCEPT ![req[r].role].state = "DELETED"] ELSE roles
    /\ Continue
    /\ UNCHANGED <<perms, adminRoleId, script>>

-----------------------------------------------------------------------------
(* Permissions: single calls.  Deleting leaves the roles' sets as they are. *)

CreatePermission(p, path) ==
    /\ Begin
    /\ perms[p].state = "ABSENT"
    /\ perms' = [perms EXCEPT ![p] = [state |-> "LIVE", path |-> path]]
    /\ UNCHANGED <<roles, adminRoleId, req, script>>

UpdatePermission(p, path) ==
    /\ Begin
    /\ perms[p].state = "LIVE"
    /\ perms' = [perms EXCEPT ![p].path = path]
    /\ UNCHANGED <<roles, adminRoleId, req, script>>

DeletePermission(p) ==
    /\ Begin
    /\ perms[p].state = "LIVE"
    /\ perms' = [perms EXCEPT ![p].state = "DELETED"]
    /\ UNCHANGED <<roles, adminRoleId, req, script>>

-----------------------------------------------------------------------------
(* The admin role's id, kept for the life of the process                   *)

\* getRole: the first live row of that name, in no particular order.
FindRole(name) == {i \in LiveRoles : roles[i].name = name}

\* getAdminRoleId, the first time: read ...
ReadAdminRole(r) ==
    /\ Begin
    /\ req[r] = Idle /\ adminRoleId = None
    /\ \E i \in FindRole("ADMIN") :
          req' = [req EXCEPT ![r] = [op |-> "cache", role |-> i, body |-> None]]
    /\ UNCHANGED <<roles, perms, adminRoleId, script>>

\* Mutant of KeepAdminRole: the name is kept in place of the id.
KeepAdminName(r) ==
    /\ req[r].op = "cache"
    /\ adminRoleId' = roles[req[r].role].name
    /\ req' = [req EXCEPT ![r] = Idle]
    /\ Continue
    /\ UNCHANGED <<roles, perms, script>>

\* ... and keep.
KeepAdminRole(r) ==
    /\ req[r].op = "cache"
    /\ adminRoleId' = req[r].role
    /\ req' = [req EXCEPT ![r] = Idle]
    /\ Continue
    /\ UNCHANGED <<roles, perms, script>>

\* The server goes down: requests and the kept id are lost, the script is not its own.
Restart ==
    /\ Begin
    /\ adminRoleId' = None
    /\ req' = [r \in Reqs |-> Idle]
    /\ UNCHANGED <<roles, perms, script>>

-----------------------------------------------------------------------------
(* The create-permissions script                                           *)

\* Mutant of ReadPermissions: deleted rows are taken for permissions, too.
ReadAllPermissions ==
    /\ Begin
    /\ ~Running
    /\ script' = [NoScript EXCEPT !.step = "read",
                    !.known = {[id |-> p, path |-> perms[p].path] :
                                  p \in {q \in PermIds : perms[q].state \in {"LIVE", "DELETED"}}}]
    /\ UNCHANGED <<roles, perms, adminRoleId, req>>

ReadPermissions ==
    /\ Begin
    /\ ~Running
    /\ script' = [NoScript EXCEPT !.step = "read",
                    !.known = {[id |-> p, path |-> perms[p].path] : p \in LivePerms}]
    /\ UNCHANGED <<roles, perms, adminRoleId, req>>

\* The rows read whose path is not served are removed, and the roles' joins with them.
DeleteUnserved ==
    /\ script.step = "read"
    /\ LET old == {k.id : k \in {k \in script.known : k.path \notin Routes}}
       IN  /\ perms' = [p \in PermIds |->
                          IF p \in old THEN [perms[p] EXCEPT !.state = "GONE"] ELSE perms[p]]
           /\ roles' = [i \in RoleIds |-> [roles[i] EXCEPT !.perms = @ \ old]]
    /\ script' = [script EXCEPT !.step = "pruned"]
    /\ Continue
    /\ UNCHANGED <<adminRoleId, req>>

\* A row for every served path the first read did not find: new is where each goes.
AddMissing ==
    /\ script.step = "pruned"
    /\ LET missing == Routes \ {k.path : k \in script.known}
           absent  == {p \in PermIds : perms[p].state = "ABSENT"}
       IN  \E new \in [missing -> absent] :
             /\ \A a, b \in missing : new[a] = new[b] => a = b
             /\ perms' = [p \in PermIds |->
                            IF \E a \in missing : new[a] = p
                            THEN [state |-> "LIVE", path |-> CHOOSE a \in missing : new[a] = p]
                            ELSE perms[p]]
    /\ script' = [script EXCEPT !.step = "added"]
    /\ Continue
    /\ UNCHANGED <<roles, adminRoleId, req>>

RereadPermissions ==
    /\ script.step = "added"
    /\ script' = [script EXCEPT !.step = "reread", !.ids = LivePerms]
    /\ Continue
    /\ UNCHANGED <<roles, perms, adminRoleId, req>>

FindAdmin ==
    /\ script.step = "reread"
    /\ \E i \in FindRole("ADMIN") : script' = [script EXCEPT !.step = "found", !.role = i]
    /\ Continue
    /\ UNCHANGED <<roles, perms, adminRoleId, req>>

\* The admin role is given everything that was read.
SetAdmin ==
    /\ script.step = "found"
    /\ roles' = [roles EXCEPT ![script.role].perms = script.ids]
    /\ script' = [NoScript EXCEPT !.step = "done"]
    /\ Continue
    /\ UNCHANGED <<perms, adminRoleId, req>>

\* It is stopped, or has no admin role to write to.
StopScript ==
    /\ Running
    /\ script' = NoScript
    /\ Continue
    /\ UNCHANGED <<roles, perms, adminRoleId, req>>

-----------------------------------------------------------------------------
RoleStep(r) ==
    \/ \E i \in RoleIds : VerifyRole(r, i) \/ \E b \in RoleBody : CheckPermissions(r, i, b)
    \/ SetRole(r) \/ DeleteRole(r)
    \/ ReadAdminRole(r) \/ KeepAdminRole(r)

RowStep ==
    \/ \E i \in RoleIds : \/ \E n \in Names, a \in BOOLEAN : CreateRole(i, n, a)
                          \/ \E b \in RoleBody : UpdateRoleOnly(i, b)
    \/ \E p \in PermIds : \/ DeletePermission(p)
                          \/ \E a \in Paths : CreatePermission(p, a) \/ UpdatePermission(p, a)

ScriptStep == \/ ReadPermissions \/ DeleteUnserved \/ AddMissing
              \/ RereadPermissions \/ FindAdmin \/ SetAdmin \/ StopScript

Next == (\E r \in Reqs : RoleStep(r)) \/ RowStep \/ ScriptStep \/ Restart

Spec == Init /\ [][Next]_vars

-----------------------------------------------------------------------------
(* Properties                                                              *)

\* AccessTokenGuard.validateUserPermission: the one read a request is let in by.
CanAccess(i, path) ==
    /\ roles[i].state = "LIVE" /\ roles[i].active
    /\ \E p \in roles[i].perms : perms[p].state = "LIVE" /\ perms[p].path = path

\* The base roles are there for good, and the id kept for the admin role is its id, in
\* whatever order rows are read, written and deleted, by whatever process.  delete and
\* getAdminRoleId decide on names that were read before (role.service.ts:66,
\* shared-role.repo.ts:56): names are enough as long as people leave base names alone.
BaseRolesSurvive ==
    KeepsBaseNames => /\ \A i \in Seeds : roles[i].state = "LIVE" /\ roles[i].name = SeedName[i]
                      /\ adminRoleId \in {None, AdminId}

\* An update does not give a role a permission that is deleted, unless it is deleted
\* while the update runs (role.repo.ts:84).
SetsLivePermissions ==
    [][\A i \in RoleIds : lone => roles'[i].perms \ roles[i].perms \subseteq LivePerms]_vars

\* Whatever has become of the permission rows - deleted, pointing elsewhere, doubled -
\* a run of the script that nothing overlaps makes the admin's role, as the guard sees it,
\* good for the paths the application serves and for no other.
ScriptCoversRoutes ==
    [][ script.step = "found" /\ script'.step = "done" /\ lone =>
          \A i \in RoleIds : i = script.role /\ roles[i].active =>
             \A path \in Paths : CanAccess(i, path)' <=> path \in Routes ]_vars

-----------------------------------------------------------------------------
(* What the proofs of the last two maintain of what nothing overlaps:      *)

\* there is one request, or the script;
OneUnderWay ==
    lone => /\ Running => \A r \in Reqs : req[r] = Idle
            /\ \A r, q \in Reqs : req[r] # Idle /\ req[q] # Idle => r = q

\* and what it has read and done still is so.
ServedPaths == {perms[p].path : p \in LivePerms}

WorkHolds ==
    lone =>
      /\ \A r \in Reqs : req[r].op = "update" =>
            \A p \in req[r].body.perms : perms[p].state # "DELETED"
      /\ script.step = "read" =>
            script.known = {[id |-> p, path |-> perms[p].path] : p \in LivePerms}
      /\ script.step = "pruned" => ServedPaths = Routes \cap {k.path : k \in script.known}
      /\ script.step \in {"added", "reread", "found"} => ServedPaths = Routes
      /\ script.step \in {"reread", "found"} => script.ids = LivePerms
      /\ script.step = "found" => roles[script.role].state = "LIVE"

LoneInv == OneUnderWay /\ WorkHolds
=============================================================================
