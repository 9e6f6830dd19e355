------------------------- MODULE RoleAccess_proofs -------------------------
(***************************************************************************)
(* Proofs about RoleAccess, for any roles, permissions, routes, requests   *)
(* and bounds.                                                             *)
(***************************************************************************)
EXTENDS RoleAccess, TLAPS

\* A slot in use names a role, and an update has a body; so does the script at its end.
SlotsMatch ==
    /\ \A r \in Reqs : /\ req[r].op # "idle" => req[r].role \in RoleIds
                       /\ req[r].op = "update" => req[r].body \in RoleBody
    /\ script.step = "found" => script.role \in RoleIds

Typed == TypeOK /\ SlotsMatch

LEMMA AdminIsAName == "ADMIN" \in Names /\ "ADMIN" \in BaseNames
  BY SeedAssumption DEF Seeds, BaseNames

LEMMA TypedInitially == Init => Typed
<1> SUFFICES ASSUME Init PROVE Typed
  OBVIOUS
<1>1. \A i \in Seeds : SeedName[i] \in Names
  BY SeedAssumption DEF BaseNames
<1>2. roles \in [RoleIds -> Role]
  BY <1>1, AdminIsAName DEF Init, Role
<1>3. perms \in [PermIds -> Permission]
  <2>1. (CHOOSE a \in Paths : TRUE) \in Paths
    BY ConstantsAssumption
  <2> QED
    BY <2>1 DEF Init, Permission
<1>4. req \in [Reqs -> Request] /\ script \in Script
  BY DEF Init, Request, Idle, Script, NoScript
<1>5. adminRoleId \in RoleIds \cup {None} /\ started \in 0..MaxRequests /\ lone \in BOOLEAN
  BY ConstantsAssumption DEF Init
<1>6. SlotsMatch
  BY DEF Init, Idle, NoScript, SlotsMatch
<1> QED
  BY <1>2, <1>3, <1>4, <1>5, <1>6 DEF Typed, TypeOK

\* What Begin and Continue do to the counters.
LEMMA CountersTyped ==
  ASSUME Typed, Begin \/ Continue PROVE started' \in 0..MaxRequests /\ lone' \in BOOLEAN
<1>1. CASE Begin
  <2>1. started \in 0..MaxRequests /\ MaxRequests \in Nat
    BY ConstantsAssumption DEF Typed, TypeOK
  <2>2. started' \in 0..MaxRequests
    BY <1>1, <2>1 DEF Begin
  <2>3. Quiet \in BOOLEAN
    BY DEF Quiet, Running
  <2> QED
    BY <1>1, <2>2, <2>3, Zenon DEF Begin
<1>2. CASE Continue
  BY <1>2 DEF Continue, Typed, TypeOK
<1> QED
  BY <1>1, <1>2

LEMMA RolesTyped ==
  ASSUME Typed, NEW i \in RoleIds, NEW body \in RoleBody, WriteRole(i, body)
  PROVE  roles' \in [RoleIds -> Role]
<1>1. /\ roles \in [RoleIds -> Role] /\ roles[i] \in Role
      /\ body.name \in Names /\ body.active \in BOOLEAN /\ body.perms \in SUBSET PermIds
  BY DEF Typed, TypeOK, RoleBody
<1>2. [[[roles[i] EXCEPT !.name = body.name] EXCEPT !.active = body.active]
         EXCEPT !.perms = body.perms] \in Role
  BY <1>1 DEF Role
<1>3. roles' = [roles EXCEPT ![i] = [[[roles[i] EXCEPT !.name = body.name]
                  EXCEPT !.active = body.active] EXCEPT !.perms = body.perms]]
  BY <1>1 DEF WriteRole
<1> QED
  BY <1>1, <1>2, <1>3

LEMMA TypedPreserved == Typed /\ [Next]_vars => Typed'
<1> SUFFICES ASSUME Typed, [Next]_vars PROVE Typed'
  OBVIOUS
<1> USE DEF Typed
<1>1. ASSUME NEW i \in RoleIds, NEW n \in Names, NEW a \in BOOLEAN, CreateRole(i, n, a) PROVE Typed'
  BY <1>1, CountersTyped DEF CreateRole, TypeOK, SlotsMatch, Role
<1>2. ASSUME NEW i \in RoleIds, NEW b \in RoleBody, UpdateRoleOnly(i, b) PROVE Typed'
  BY <1>2, CountersTyped, RolesTyped DEF UpdateRoleOnly, TypeOK, SlotsMatch
<1>3. ASSUME NEW r \in Reqs, NEW i \in RoleIds, NEW b \in RoleBody,
             CheckPermissions(r, i, b) PROVE Typed'
  BY <1>3, CountersTyped DEF CheckPermissions, TypeOK, SlotsMatch, Request
<1>4. ASSUME NEW r \in Reqs, SetRole(r) PROVE Typed'
  BY <1>4, CountersTyped, RolesTyped DEF SetRole, TypeOK, SlotsMatch, Request, Idle
<1>5. ASSUME NEW r \in Reqs, NEW i \in RoleIds, VerifyRole(r, i) PROVE Typed'
  BY <1>5, CountersTyped DEF VerifyRole, TypeOK, SlotsMatch, Request, Idle
<1>6. ASSUME NEW r \in Reqs, DeleteRole(r) PROVE Typed'
  <2>1. roles' \in [RoleIds -> Role]
    BY <1>6 DEF DeleteRole, TypeOK, SlotsMatch, Role
  <2>2. req' \in [Reqs -> Request] /\ SlotsMatch'
    BY <1>6 DEF DeleteRole, TypeOK, SlotsMatch, Request, Idle
  <2> QED
    BY <1>6, <2>1, <2>2, CountersTyped DEF DeleteRole, TypeOK
<1>7. ASSUME NEW q \in PermIds, NEW a \in Paths, CreatePermission(q, a) PROVE Typed'
  BY <1>7, CountersTyped DEF CreatePermission, TypeOK, SlotsMatch, Permission
<1>8. ASSUME NEW q \in PermIds, NEW a \in Paths, UpdatePermission(q, a) PROVE Typed'
  BY <1>8, CountersTyped DEF UpdatePermission, TypeOK, SlotsMatch, Permission
<1>9. ASSUME NEW q \in PermIds, DeletePermission(q) PROVE Typed'
  BY <1>9, CountersTyped DEF DeletePermission, TypeOK, SlotsMatch, Permission
<1>10. ASSUME NEW r \in Reqs, ReadAdminRole(r) PROVE Typed'
  <2>1. PICK i \in RoleIds : req' = [req EXCEPT ![r] = [op |-> "cache", role |-> i, body |-> None]]
    BY <1>10 DEF ReadAdminRole, FindRole, LiveRoles
  <2>3. req' \in [Reqs -> Request]
    BY <2>1 DEF TypeOK, Request
  <2>4. SlotsMatch'
    BY <1>10, <2>1 DEF ReadAdminRole, TypeOK, SlotsMatch
  <2> QED
    BY <1>10, <2>3, <2>4, CountersTyped DEF ReadAdminRole, TypeOK
<1>11. ASSUME NEW r \in Reqs, KeepAdminRole(r) PROVE Typed'
  BY <1>11, CountersTyped DEF KeepAdminRole, TypeOK, SlotsMatch, Request, Idle
<1>12. CASE Restart
  BY <1>12, CountersTyped DEF Restart, TypeOK, SlotsMatch, Request, Idle
<1>13. CASE ReadPermissions
  <2>1. {[id |-> p, path |-> perms[p].path] : p \in LivePerms} \in SUBSET [id: PermIds, path: Paths]
    BY DEF LivePerms, Permission, TypeOK
  <2>2. script' \in Script /\ script'.step = "read"
    BY <1>13, <2>1 DEF ReadPermissions, NoScript, Script
  <2>3. SlotsMatch'
    BY <1>13, <2>2 DEF ReadPermissions, SlotsMatch
  <2> QED
    BY <1>13, <2>2, <2>3, CountersTyped DEF ReadPermissions, TypeOK
<1>14. CASE DeleteUnserved
  <2> DEFINE old == {k.id : k \in {k \in script.known : k.path \notin Routes}}
  <2>1. perms' \in [PermIds -> Permission]
    <3>1. perms' = [p \in PermIds |->
                      IF p \in old THEN [perms[p] EXCEPT !.state = "GONE"] ELSE perms[p]]
      BY <1>14 DEF DeleteUnserved
    <3> HIDE DEF old
    <3> QED
      BY <3>1 DEF TypeOK, Permission
  <2>2. roles' \in [RoleIds -> Role]
    <3>1. roles' = [i \in RoleIds |-> [roles[i] EXCEPT !.perms = roles[i].perms \ old]]
      BY <1>14 DEF DeleteUnserved
    <3> HIDE DEF old
    <3>2. \A i \in RoleIds : [roles[i] EXCEPT !.perms = roles[i].perms \ old] \in Role
      BY DEF TypeOK, Role
    <3> QED
      BY <3>1, <3>2
  <2>3. script' \in Script /\ SlotsMatch'
    BY <1>14 DEF DeleteUnserved, Script, TypeOK, SlotsMatch
  <2> QED
    BY <1>14, <2>1, <2>2, <2>3, CountersTyped DEF DeleteUnserved, TypeOK
<1>15. CASE AddMissing
  <2> DEFINE missing == Routes \ {k.path : k \in script.known}
  <2> DEFINE absent == {p \in PermIds : perms[p].state = "ABSENT"}
  <2>1. PICK new \in [missing -> absent] :
          /\ \A a, b \in missing : new[a] = new[b] => a = b
          /\ perms' = [p \in PermIds |->
                         IF \E a \in missing : new[a] = p
                         THEN [state |-> "LIVE", path |-> CHOOSE a \in missing : new[a] = p]
                         ELSE perms[p]]
    BY <1>15, Zenon DEF AddMissing
  <2>2. missing \subseteq Paths
    BY ConstantsAssumption
  <2>3. perms' \in [PermIds -> Permission]
    <3> HIDE DEF missing
    <3>1. \A p : (\E a \in missing : new[a] = p) => (CHOOSE a \in missing : new[a] = p) \in Paths
      BY <2>2
    <3> QED
      BY <2>1, <3>1 DEF TypeOK, Permission
  <2>4. script' \in Script /\ SlotsMatch'
    BY <1>15 DEF AddMissing, Script, TypeOK, SlotsMatch
  <2> QED
    BY <1>15, <2>3, <2>4, CountersTyped DEF AddMissing, TypeOK
<1>16. CASE RereadPermissions
  BY <1>16, CountersTyped DEF RereadPermissions, LivePerms, Script, TypeOK, SlotsMatch
<1>17. CASE FindAdmin
  BY <1>17, CountersTyped DEF FindAdmin, FindRole, LiveRoles, Script, TypeOK, SlotsMatch
<1>18. CASE SetAdmin
  BY <1>18, CountersTyped, SMTT(20) DEF SetAdmin, NoScript, Role, Script, TypeOK, SlotsMatch
<1>19. CASE StopScript
  BY <1>19, CountersTyped DEF StopScript, NoScript, Script, TypeOK, SlotsMatch
<1>20. CASE UNCHANGED vars
  BY <1>20 DEF vars, TypeOK, SlotsMatch
<1> QED
  BY <1>1, <1>2, <1>3, <1>4, <1>5, <1>6, <1>7, <1>8, <1>9, <1>10, <1>11, <1>12, <1>13, <1>14, <1>15,
     <1>16, <1>17, <1>18, <1>19, <1>20
     DEF Next, RoleStep, RowStep, ScriptStep

\* Every variable keeps its type.
THEOREM TypeCorrect == Spec => []TypeOK
<1>1. Typed => TypeOK
  BY DEF Typed
<1> QED
  BY <1>1, TypedInitially, TypedPreserved, PTL DEF Spec

-----------------------------------------------------------------------------
\* What BaseRolesSurvive rests on: no other live row has a base role's name, and requests
\* in flight hold rows that are no base roles, or the admin's to keep its id.
NamesMatch ==
    KeepsBaseNames =>
      /\ \A i \in LiveRoles : roles[i].name \in BaseNames => i \in Seeds
      /\ \A r \in Reqs : /\ req[r].op = "delete" => req[r].role \notin Seeds
                         /\ req[r].op = "cache" => req[r].role = AdminId
                         /\ req[r].op = "update" => Body(req[r].role, req[r].body)

Named == BaseRolesSurvive /\ NamesMatch

LEMMA NamedInitially == Init => Named
<1> SUFFICES ASSUME Init PROVE Named
  OBVIOUS
<1>1. Seeds \subseteq RoleIds
  BY SeedAssumption
<1>2. \A i \in RoleIds : /\ i \in Seeds => roles[i].state = "LIVE" /\ roles[i].name = SeedName[i]
                         /\ i \notin Seeds => roles[i].state = "ABSENT"
  BY DEF Init
<1>3. BaseRolesSurvive
  BY <1>1, <1>2 DEF Init, BaseRolesSurvive
<1>4. NamesMatch
  BY <1>2 DEF Init, NamesMatch, LiveRoles, Idle
<1> QED
  BY <1>3, <1>4 DEF Named

\* A live row called ADMIN is the admin role.
LEMMA AdminFound ==
  ASSUME Typed, Named, KeepsBaseNames, NEW i \in FindRole("ADMIN") PROVE i = AdminId
<1>1. i \in LiveRoles /\ roles[i].name = "ADMIN"
  BY DEF FindRole
<1>2. i \in Seeds
  BY <1>1, AdminIsAName DEF Named, NamesMatch
<1>3. roles[i].name = SeedName[i]
  BY <1>2 DEF Named, BaseRolesSurvive
<1> QED
  BY <1>1, <1>2, <1>3, SeedAssumption

\* The name and the state of the rows, and the slots, decide: all else may change.
LEMMA NamesKept ==
  ASSUME Named, roles' \in [RoleIds -> Role],
         \A i \in RoleIds : roles'[i].state = roles[i].state /\ roles'[i].name = roles[i].name,
         UNCHANGED <<adminRoleId, req>>
  PROVE  Named'
<1> SUFFICES ASSUME KeepsBaseNames PROVE Named'
  BY DEF Named, BaseRolesSurvive, NamesMatch
<1>1. Seeds \subseteq RoleIds
  BY SeedAssumption
<1>2. LiveRoles' = LiveRoles
  BY DEF LiveRoles
<1>3. BaseRolesSurvive'
  BY <1>1 DEF Named, BaseRolesSurvive
<1>4. NamesMatch'
  BY <1>2 DEF Named, NamesMatch, LiveRoles, Body
<1> QED
  BY <1>3, <1>4 DEF Named

\* An update people ask for leaves base roles their names, and takes none for another.
LEMMA NamesWritten ==
  ASSUME Typed, Named, NEW i \in RoleIds, NEW body \in RoleBody, Body(i, body), WriteRole(i, body),
         roles[i].state = "LIVE", adminRoleId' = adminRoleId,
         \A r \in Reqs : req'[r] = req[r] \/ req'[r].op = "idle"
  PROVE  Named'
<1> SUFFICES ASSUME KeepsBaseNames PROVE Named'
  BY DEF Named, BaseRolesSurvive, NamesMatch
<1>1. Seeds \subseteq RoleIds /\ \A j \in Seeds : SeedName[j] \in BaseNames
  BY SeedAssumption DEF BaseNames
<1>2. /\ \A j \in RoleIds : roles'[j].state = roles[j].state
      /\ \A j \in RoleIds : j # i => roles'[j].name = roles[j].name
      /\ roles'[i].name = body.name
  BY DEF WriteRole, Typed, TypeOK, Role
<1>3. BaseRolesSurvive'
  BY <1>1, <1>2 DEF Named, BaseRolesSurvive, Body
<1>4. \A j \in LiveRoles' : roles'[j].name \in BaseNames => j \in Seeds
  BY <1>1, <1>2 DEF Named, NamesMatch, LiveRoles, Body
<1>5. NamesMatch'
  BY <1>4 DEF Named, NamesMatch, Body
<1> QED
  BY <1>3, <1>5 DEF Named

LEMMA NamedPreserved == Typed /\ Typed' /\ Named /\ [Next]_vars => Named'
<1> SUFFICES ASSUME Typed, Typed', Named, [Next]_vars PROVE Named'
  OBVIOUS
<1> SUFFICES ASSUME KeepsBaseNames PROVE Named'
  BY DEF Named, BaseRolesSurvive, NamesMatch
<1>0. /\ Seeds \subseteq RoleIds /\ roles \in [RoleIds -> Role] /\ roles' \in [RoleIds -> Role]
      /\ req \in [Reqs -> Request]
  BY SeedAssumption DEF Typed, TypeOK
<1>1. ASSUME NEW i \in RoleIds, NEW n \in Names, NEW a \in BOOLEAN, CreateRole(i, n, a) PROVE Named'
  <2>1. i \notin Seeds /\ n \notin BaseNames
    BY <1>1 DEF CreateRole, Named, BaseRolesSurvive
  <2>2. BaseRolesSurvive'
    BY <1>0, <1>1, <2>1 DEF CreateRole, Named, BaseRolesSurvive
  <2>3. NamesMatch'
    BY <1>0, <1>1, <2>1 DEF CreateRole, Named, NamesMatch, LiveRoles, Body
  <2> QED
    BY <2>2, <2>3 DEF Named
<1>2. ASSUME NEW i \in RoleIds, NEW b \in RoleBody, UpdateRoleOnly(i, b) PROVE Named'
  BY <1>2, NamesWritten DEF UpdateRoleOnly
<1>3. ASSUME NEW r \in Reqs, NEW i \in RoleIds, NEW b \in RoleBody,
             CheckPermissions(r, i, b) PROVE Named'
  BY <1>0, <1>3 DEF CheckPermissions, Named, BaseRolesSurvive, NamesMatch, LiveRoles, Body
<1>4. ASSUME NEW r \in Reqs, SetRole(r) PROVE Named'
  <2>1. /\ req[r].role \in RoleIds /\ req[r].body \in RoleBody /\ Body(req[r].role, req[r].body)
        /\ \A q \in Reqs : req'[q] = req[q] \/ req'[q].op = "idle"
    BY <1>0, <1>4 DEF SetRole, Typed, SlotsMatch, Named, NamesMatch, Idle
  <2>2. CASE WriteRole(req[r].role, req[r].body) /\ roles[req[r].role].state = "LIVE"
    BY <1>4, <2>1, <2>2, NamesWritten DEF SetRole
  <2>3. CASE UNCHANGED roles
    BY <1>4, <2>1, <2>3 DEF SetRole, Named, BaseRolesSurvive, NamesMatch, LiveRoles, Body
  <2> QED
    BY <1>4, <2>2, <2>3 DEF SetRole
<1>5. ASSUME NEW r \in Reqs, NEW i \in RoleIds, VerifyRole(r, i) PROVE Named'
  <2>1. i \notin Seeds
    BY <1>5 DEF VerifyRole, Named, BaseRolesSurvive, BaseNames
  <2> QED
    BY <1>0, <1>5, <2>1 DEF VerifyRole, Named, BaseRolesSurvive, NamesMatch, LiveRoles, Body
<1>6. ASSUME NEW r \in Reqs, DeleteRole(r) PROVE Named'
  <2>1. req[r].role \in RoleIds \ Seeds
    BY <1>6 DEF DeleteRole, Typed, SlotsMatch, Named, NamesMatch
  <2>2. BaseRolesSurvive'
    BY <1>0, <1>6, <2>1 DEF DeleteRole, Named, BaseRolesSurvive
  <2>3. NamesMatch'
    BY <1>0, <1>6, <2>1 DEF DeleteRole, Named, NamesMatch, LiveRoles, Role, Idle, Body
  <2> QED
    BY <2>2, <2>3 DEF Named
<1>7. ASSUME NEW q \in PermIds, NEW a \in Paths, CreatePermission(q, a) PROVE Named'
  BY <1>0, <1>7, NamesKept DEF CreatePermission
<1>8. ASSUME NEW q \in PermIds, NEW a \in Paths, UpdatePermission(q, a) PROVE Named'
  BY <1>0, <1>8, NamesKept DEF UpdatePermission
<1>9. ASSUME NEW q \in PermIds, DeletePermission(q) PROVE Named'
  BY <1>0, <1>9, NamesKept DEF DeletePermission
<1>10. ASSUME NEW r \in Reqs, ReadAdminRole(r) PROVE Named'
  <2>1. req' = [req EXCEPT ![r] = [op |-> "cache", role |-> AdminId, body |-> None]]
    BY <1>10, AdminFound DEF ReadAdminRole
  <2> QED
    BY <1>0, <1>10, <2>1 DEF ReadAdminRole, Named, BaseRolesSurvive, NamesMatch, LiveRoles, Body
<1>11. ASSUME NEW r \in Reqs, KeepAdminRole(r) PROVE Named'
  BY <1>0, <1>11 DEF KeepAdminRole, Named, BaseRolesSurvive, NamesMatch, LiveRoles, Idle, Body
<1>12. CASE Restart
  BY <1>12 DEF Restart, Named, BaseRolesSurvive, NamesMatch, LiveRoles, Idle, Body
<1>13. CASE ReadPermissions
  BY <1>0, <1>13, NamesKept DEF ReadPermissions
<1>14. CASE DeleteUnserved
  BY <1>0, <1>14, NamesKept DEF DeleteUnserved, Role
<1>15. CASE AddMissing
  BY <1>0, <1>15, NamesKept DEF AddMissing
<1>16. CASE RereadPermissions
  BY <1>0, <1>16, NamesKept DEF RereadPermissions
<1>17. CASE FindAdmin
  BY <1>0, <1>17, NamesKept DEF FindAdmin
<1>18. CASE SetAdmin
  BY <1>0, <1>18, NamesKept DEF SetAdmin, Role
<1>19. CASE StopScript
  BY <1>0, <1>19, NamesKept DEF StopScript
<1>20. CASE UNCHANGED vars
  BY <1>0, <1>20, NamesKept DEF vars
<1> QED
  BY <1>1, <1>2, <1>3, <1>4, <1>5, <1>6, <1>7, <1>8, <1>9, <1>10, <1>11, <1>12, <1>13, <1>14, <1>15,
     <1>16, <1>17, <1>18, <1>19, <1>20
     DEF Next, RoleStep, RowStep, ScriptStep

\* Base roles stay live under their names, and the id kept for the admin role is its own,
\* as long as people leave base names alone.
THEOREM BaseRolesStay == Spec => []BaseRolesSurvive
<1>1. Typed /\ Named /\ [Next]_vars => (Typed /\ Named)'
  BY TypedPreserved, NamedPreserved
<1>2. Named => BaseRolesSurvive
  BY DEF Named
<1> QED
  BY <1>1, <1>2, TypedInitially, NamedInitially, PTL DEF Spec

-----------------------------------------------------------------------------
(* What nothing overlaps                                                   *)

\* What comes in while lone finds everything quiet.
LEMMA BeginAlone ==
  ASSUME Begin, lone'
  PROVE  (\A r \in Reqs : req[r] = Idle) /\ script.step \in {"idle", "done"}
<1>1. Quiet
  BY Zenon DEF Begin
<1> QED
  BY <1>1 DEF Quiet, Running

\* A request that is under way while lone is the only thing that is.
LEMMA OnlyRequest ==
  ASSUME LoneInv, lone, NEW r \in Reqs, req[r].op # "idle"
  PROVE  /\ \A q \in Reqs : q # r => req[q] = Idle
         /\ script.step \in {"idle", "done"} \/ ~Running
<1>1. req[r] # Idle
  BY DEF Idle
<1> QED
  BY <1>1 DEF LoneInv, OneUnderWay

LEMMA OnlyScript ==
  ASSUME LoneInv, lone, Running PROVE \A q \in Reqs : req[q] = Idle
  BY DEF LoneInv, OneUnderWay

\* Nothing is asked of a state in which nothing is under way.
LEMMA QuietStep ==
  ASSUME lone' => (\A q \in Reqs : req'[q] = Idle) /\ ~Running' PROVE LoneInv'
<1>1. Idle.op = "idle"
  BY DEF Idle
<1>2. OneUnderWay'
  BY DEF OneUnderWay
<1>3. WorkHolds'
  BY <1>1 DEF WorkHolds, Running
<1> QED
  BY <1>2, <1>3 DEF LoneInv

\* A request comes in and takes a slot.
LEMMA SlotTaken ==
  ASSUME Typed, NEW r \in Reqs, NEW h, req' = [req EXCEPT ![r] = h], Begin,
         UNCHANGED <<script, perms>>,
         h.op = "update" => \A p \in h.body.perms : perms[p].state # "DELETED"
  PROVE  LoneInv'
<1> SUFFICES ASSUME lone' PROVE LoneInv'
  BY QuietStep
<1>1. (\A q \in Reqs : req[q] = Idle) /\ script.step \in {"idle", "done"} /\ Idle.op = "idle"
  BY BeginAlone DEF Idle
<1>2. \A q \in Reqs : req'[q] = IF q = r THEN h ELSE req[q]
  BY DEF Typed, TypeOK
<1>3. OneUnderWay'
  BY <1>1, <1>2 DEF OneUnderWay, Running
<1>4. WorkHolds'
  BY <1>1, <1>2 DEF WorkHolds
<1> QED
  BY <1>3, <1>4 DEF LoneInv

\* The script's own steps, by what each leaves to the next.
LEMMA ScriptWorks ==
  ASSUME Typed, LoneInv,
         ReadPermissions \/ DeleteUnserved \/ AddMissing \/ RereadPermissions \/ FindAdmin
  PROVE  LoneInv'
<1> SUFFICES ASSUME lone' PROVE LoneInv'
  BY QuietStep
<1>0. perms \in [PermIds -> Permission] /\ script \in Script /\ Idle.op = "idle"
  BY DEF Typed, TypeOK, Idle
<1>1. CASE ReadPermissions
  <2> DEFINE read == {[id |-> p, path |-> perms[p].path] : p \in LivePerms}
  <2>1. /\ script'.step = "read" /\ script'.known = read
        /\ UNCHANGED <<perms, req>> /\ Begin
    BY <1>1 DEF ReadPermissions, NoScript
  <2>2. \A q \in Reqs : req'[q] = Idle
    BY <2>1, BeginAlone
  <2>3. read' = read
    BY <2>1 DEF LivePerms
  <2>4. OneUnderWay'
    BY <2>2 DEF OneUnderWay
  <2>5. WorkHolds'
    BY <1>0, <2>1, <2>2, <2>3 DEF WorkHolds
  <2> QED
    BY <2>4, <2>5 DEF LoneInv
<1>2. CASE DeleteUnserved
  <2> DEFINE old == {k.id : k \in {k \in script.known : k.path \notin Routes}}
  <2>1. /\ script.step = "read" /\ script' = [script EXCEPT !.step = "pruned"]
        /\ perms' = [p \in PermIds |->
                       IF p \in old THEN [perms[p] EXCEPT !.state = "GONE"] ELSE perms[p]]
        /\ lone /\ req' = req
    BY <1>2 DEF DeleteUnserved, Continue
  <2>2. script'.step = "pruned" /\ script'.known = script.known
    BY <1>0, <2>1 DEF Script
  <2>3. \A q \in Reqs : req'[q] = Idle
    BY <2>1, OnlyScript DEF Running
  <2> DEFINE row(p) == [id |-> p, path |-> perms[p].path]
  <2>4. /\ script.known = {row(p) : p \in LivePerms}
        /\ \A p : row(p).id = p /\ row(p).path = perms[p].path
    BY <2>1 DEF LoneInv, WorkHolds
  <2>5. \A p : p \in old <=> \E k \in script.known : k.id = p /\ k.path \notin Routes
    OBVIOUS
  <2> HIDE DEF old, row
  <2>6. \A p \in LivePerms : p \in old <=> perms[p].path \notin Routes
    BY <2>4, <2>5
  <2>7. \A p \in PermIds : /\ p \in old => perms'[p].state = "GONE"
                           /\ p \notin old => perms'[p] = perms[p]
    BY <1>0, <2>1 DEF Permission
  <2>8. LivePerms' = {p \in LivePerms : perms[p].path \in Routes}
    BY <2>6, <2>7 DEF LivePerms
  <2>9. \A p \in LivePerms' : perms'[p].path = perms[p].path
    BY <2>6, <2>7, <2>8 DEF LivePerms
  <2>10. ServedPaths' = Routes \cap {perms[p].path : p \in LivePerms}
    BY <2>8, <2>9 DEF ServedPaths
  <2>11. {k.path : k \in script.known} = {perms[p].path : p \in LivePerms}
    BY <2>4
  <2>12. OneUnderWay'
    BY <2>3 DEF OneUnderWay
  <2>13. WorkHolds'
    BY <1>0, <2>2, <2>3, <2>10, <2>11 DEF WorkHolds
  <2> QED
    BY <2>12, <2>13 DEF LoneInv
<1>3. CASE AddMissing
  <2> DEFINE missing == Routes \ {k.path : k \in script.known}
  <2> DEFINE absent == {p \in PermIds : perms[p].state = "ABSENT"}
  <2>1. PICK new \in [missing -> absent] :
          /\ \A a, b \in missing : new[a] = new[b] => a = b
          /\ perms' = [p \in PermIds |->
                         IF \E a \in missing : new[a] = p
                         THEN [state |-> "LIVE", path |-> CHOOSE a \in missing : new[a] = p]
                         ELSE perms[p]]
    BY <1>3, Zenon DEF AddMissing
  <2>2. script.step = "pruned" /\ script' = [script EXCEPT !.step = "added"] /\ lone /\ req' = req
    BY <1>3 DEF AddMissing, Continue
  <2>3. script'.step = "added"
    BY <1>0, <2>2 DEF Script
  <2>4. \A q \in Reqs : req'[q] = Idle
    BY <2>2, OnlyScript DEF Running
  <2>5. ServedPaths = Routes \cap {k.path : k \in script.known}
    BY <2>2 DEF LoneInv, WorkHolds
  <2>6. missing = Routes \ ServedPaths
    BY <2>5
  <2> HIDE DEF missing
  <2>7. ASSUME NEW a \in missing PROVE new[a] \in LivePerms' /\ perms'[new[a]].path = a
    <3>1. new[a] \in PermIds
      OBVIOUS
    <3>2. (CHOOSE b \in missing : new[b] = new[a]) = a
      BY <2>1
    <3>3. perms'[new[a]] = [state |-> "LIVE", path |-> a]
      BY <2>1, <3>1, <3>2
    <3> QED
      BY <3>1, <3>3 DEF LivePerms
  <2>8. ASSUME NEW p \in PermIds, \A a \in missing : new[a] # p PROVE perms'[p] = perms[p]
    BY <2>1, <2>8
  <2>9. ASSUME NEW p \in LivePerms PROVE p \in LivePerms' /\ perms'[p].path = perms[p].path
    <3>1. p \in PermIds /\ perms[p].state = "LIVE"
      BY DEF LivePerms
    <3>2. \A a \in missing : new[a] # p
      BY <3>1
    <3> QED
      BY <2>8, <3>1, <3>2 DEF LivePerms
  <2>10. ASSUME NEW p \in LivePerms', p \notin LivePerms PROVE \E a \in missing : new[a] = p
    BY <2>8, <2>10 DEF LivePerms
  <2>11. ServedPaths' = Routes
    <3>1. \A path \in Routes : path \in ServedPaths'
      BY <2>6, <2>7, <2>9 DEF ServedPaths
    <3>2. \A p \in LivePerms' : perms'[p].path \in Routes
      BY <2>5, <2>6, <2>7, <2>9, <2>10 DEF ServedPaths
    <3> QED
      BY <3>1, <3>2 DEF ServedPaths
  <2>12. OneUnderWay'
    BY <2>4 DEF OneUnderWay
  <2>13. WorkHolds'
    BY <1>0, <2>3, <2>4, <2>11 DEF WorkHolds
  <2> QED
    BY <2>12, <2>13 DEF LoneInv
<1>4. CASE RereadPermissions
  <2>1. /\ script.step = "added" /\ script' = [script EXCEPT !.step = "reread", !.ids = LivePerms]
        /\ lone /\ UNCHANGED <<req, perms>>
    BY <1>4 DEF RereadPermissions, Continue
  <2>2. script'.step = "reread" /\ script'.ids = LivePerms
    BY <1>0, <2>1 DEF Script
  <2>3. \A q \in Reqs : req'[q] = Idle
    BY <2>1, OnlyScript DEF Running
  <2>4. LivePerms' = LivePerms /\ ServedPaths' = Routes
    BY <2>1 DEF LivePerms, ServedPaths, LoneInv, WorkHolds
  <2>5. OneUnderWay'
    BY <2>3 DEF OneUnderWay
  <2>6. WorkHolds'
    BY <1>0, <2>2, <2>3, <2>4 DEF WorkHolds
  <2> QED
    BY <2>5, <2>6 DEF LoneInv
<1>5. CASE FindAdmin
  <2>1. PICK i \in FindRole("ADMIN") : script' = [script EXCEPT !.step = "found", !.role = i]
    BY <1>5 DEF FindAdmin
  <2>2. script.step = "reread" /\ lone /\ UNCHANGED <<req, perms, roles>>
    BY <1>5 DEF FindAdmin, Continue
  <2>3. script'.step = "found" /\ script'.role = i /\ script'.ids = script.ids
    BY <1>0, <2>1 DEF Script
  <2>4. \A q \in Reqs : req'[q] = Idle
    BY <2>2, OnlyScript DEF Running
  <2>5. LivePerms' = LivePerms /\ ServedPaths' = Routes /\ script.ids = LivePerms
    BY <2>2 DEF LivePerms, ServedPaths, LoneInv, WorkHolds
  <2>6. roles'[i].state = "LIVE"
    BY <2>2 DEF FindRole, LiveRoles
  <2>7. OneUnderWay'
    BY <2>4 DEF OneUnderWay
  <2>8. WorkHolds'
    BY <1>0, <2>3, <2>4, <2>5, <2>6 DEF WorkHolds
  <2> QED
    BY <2>7, <2>8 DEF LoneInv
<1> QED
  BY <1>1, <1>2, <1>3, <1>4, <1>5

\* Everything else either comes and goes at once, takes a slot, or ends.
LEMMA LonePreserved == Typed /\ LoneInv /\ [Next]_vars => LoneInv'
<1> SUFFICES ASSUME Typed, LoneInv, [Next]_vars PROVE LoneInv'
  OBVIOUS
<1>0. req \in [Reqs -> Request]
  BY DEF Typed, TypeOK
<1>1. ASSUME Begin, UNCHANGED <<req, script>> PROVE LoneInv'
  BY <1>1, BeginAlone, QuietStep DEF Running
<1>2. ASSUME NEW r \in Reqs, req[r].op # "idle", req' = [req EXCEPT ![r] = Idle],
             Continue, UNCHANGED script
      PROVE  LoneInv'
  BY <1>0, <1>2, OnlyRequest, QuietStep DEF Continue, Running
<1>3. ASSUME NEW i \in RoleIds, NEW n \in Names, NEW a \in BOOLEAN, CreateRole(i, n, a) PROVE LoneInv'
  BY <1>1, <1>3 DEF CreateRole
<1>4. ASSUME NEW i \in RoleIds, NEW b \in RoleBody, UpdateRoleOnly(i, b) PROVE LoneInv'
  BY <1>1, <1>4 DEF UpdateRoleOnly
<1>5. ASSUME NEW r \in Reqs, NEW i \in RoleIds, NEW b \in RoleBody,
             CheckPermissions(r, i, b) PROVE LoneInv'
  <2> DEFINE h == [op |-> "update", role |-> i, body |-> b]
  <2>1. /\ req' = [req EXCEPT ![r] = h] /\ Begin /\ UNCHANGED <<script, perms>>
        /\ \A p \in h.body.perms : perms[p].state # "DELETED"
    BY <1>5 DEF CheckPermissions
  <2> QED
    BY <2>1, SlotTaken
<1>6. ASSUME NEW r \in Reqs, SetRole(r) PROVE LoneInv'
  BY <1>2, <1>6 DEF SetRole
<1>7. ASSUME NEW r \in Reqs, NEW i \in RoleIds, VerifyRole(r, i) PROVE LoneInv'
  <2> DEFINE h == [op |-> "delete", role |-> i, body |-> None]
  <2>1. /\ req' = [req EXCEPT ![r] = h] /\ Begin /\ UNCHANGED <<script, perms>>
        /\ h.op # "update"
    BY <1>7 DEF VerifyRole
  <2> QED
    BY <2>1, SlotTaken
<1>8. ASSUME NEW r \in Reqs, DeleteRole(r) PROVE LoneInv'
  BY <1>2, <1>8 DEF DeleteRole
<1>9. ASSUME NEW q \in PermIds,
             DeletePermission(q) \/ \E a \in Paths : CreatePermission(q, a) \/ UpdatePermission(q, a)
      PROVE  LoneInv'
  BY <1>1, <1>9 DEF CreatePermission, UpdatePermission, DeletePermission
<1>10. ASSUME NEW r \in Reqs, ReadAdminRole(r) PROVE LoneInv'
  <2>1. PICK i : req' = [req EXCEPT ![r] = [op |-> "cache", role |-> i, body |-> None]]
    BY <1>10 DEF ReadAdminRole
  <2> DEFINE h == [op |-> "cache", role |-> i, body |-> None]
  <2>2. /\ req' = [req EXCEPT ![r] = h] /\ Begin /\ UNCHANGED <<script, perms>>
        /\ h.op # "update"
    BY <1>10, <2>1 DEF ReadAdminRole
  <2> QED
    BY <2>2, SlotTaken
<1>11. ASSUME NEW r \in Reqs, KeepAdminRole(r) PROVE LoneInv'
  BY <1>2, <1>11 DEF KeepAdminRole
<1>12. CASE Restart
  BY <1>12, BeginAlone, QuietStep DEF Restart, Running
<1>13. CASE SetAdmin \/ StopScript
  <2>1. Running /\ ~Running' /\ lone' = lone /\ req' = req
    BY <1>13 DEF SetAdmin, StopScript, Continue, Running, NoScript
  <2> QED
    BY <2>1, OnlyScript, QuietStep
<1>14. CASE UNCHANGED vars
  BY <1>14 DEF vars, LoneInv, OneUnderWay, WorkHolds, Running, LivePerms, ServedPaths
<1> QED
  BY <1>3, <1>4, <1>5, <1>6, <1>7, <1>8, <1>9, <1>10, <1>11, <1>12, <1>13, <1>14, ScriptWorks
     DEF Next, RoleStep, RowStep, ScriptStep

LEMMA LoneInitially == Init => LoneInv
  BY QuietStep DEF Init, LoneInv, OneUnderWay, WorkHolds, Running, NoScript, Idle

\* An update gives a role live permissions only, as none of those it asks for was deleted
\* when it looked and nothing has come between.
LEMMA GivesLive ==
  ASSUME Typed, LoneInv, [Next]_vars, lone, NEW i \in RoleIds
  PROVE  roles'[i].perms \ roles[i].perms \subseteq LivePerms
<1>0. roles \in [RoleIds -> Role] /\ script \in Script
  BY DEF Typed, TypeOK
<1>1. ASSUME NEW j \in RoleIds, NEW n \in Names, NEW a \in BOOLEAN, CreateRole(j, n, a)
      PROVE  roles'[i].perms \ roles[i].perms = {}
  BY <1>0, <1>1 DEF CreateRole
<1>2. ASSUME NEW j \in RoleIds, NEW b \in RoleBody, UpdateRoleOnly(j, b)
      PROVE  roles'[i].perms \ roles[i].perms = {}
  <2>1. b.perms = {} /\ WriteRole(j, b)
    BY <1>2 DEF UpdateRoleOnly
  <2> QED
    BY <1>0, <2>1 DEF WriteRole, Role
<1>3. ASSUME NEW r \in Reqs, SetRole(r)
      PROVE  roles'[i].perms \ roles[i].perms \subseteq LivePerms
  <2>1. CASE UNCHANGED roles
    BY <2>1
  <2>2. CASE /\ WriteRole(req[r].role, req[r].body)
             /\ \A p \in req[r].body.perms : perms[p].state \in {"LIVE", "DELETED"}
    <3>1. req[r].op = "update" /\ req[r].body \in RoleBody
      BY <1>3 DEF SetRole, Typed, SlotsMatch
    <3>2. \A p \in req[r].body.perms : perms[p].state # "DELETED"
      BY <3>1 DEF LoneInv, WorkHolds
    <3>3. req[r].body.perms \subseteq LivePerms
      BY <2>2, <3>1, <3>2 DEF LivePerms, RoleBody
    <3>4. roles'[i].perms \subseteq roles[i].perms \cup req[r].body.perms
      BY <1>0, <2>2 DEF WriteRole, Role
    <3> QED
      BY <3>3, <3>4
  <2> QED
    BY <1>3, <2>1, <2>2 DEF SetRole
<1>4. ASSUME NEW r \in Reqs, DeleteRole(r)
      PROVE  roles'[i].perms \ roles[i].perms = {}
  BY <1>0, <1>4 DEF DeleteRole, Role
<1>5. CASE DeleteUnserved
  <2> DEFINE old == {k.id : k \in {k \in script.known : k.path \notin Routes}}
  <2>1. roles' = [j \in RoleIds |-> [roles[j] EXCEPT !.perms = roles[j].perms \ old]]
    BY <1>5 DEF DeleteUnserved
  <2> HIDE DEF old
  <2>2. roles'[i].perms = roles[i].perms \ old
    BY <1>0, <2>1 DEF Role
  <2> QED
    BY <2>2
<1>6. CASE SetAdmin
  <2>1. script.step = "found" /\ roles' = [roles EXCEPT ![script.role].perms = script.ids]
    BY <1>6 DEF SetAdmin
  <2>2. script.ids = LivePerms
    BY <2>1 DEF LoneInv, WorkHolds
  <2> QED
    BY <1>0, <2>1, <2>2 DEF Role
<1>7. CASE \/ \E r \in Reqs : \/ \E j \in RoleIds : VerifyRole(r, j) \/ \E b \in RoleBody : CheckPermissions(r, j, b)
                              \/ ReadAdminRole(r) \/ KeepAdminRole(r)
           \/ \E q \in PermIds : \/ DeletePermission(q)
                                 \/ \E a \in Paths : CreatePermission(q, a) \/ UpdatePermission(q, a)
           \/ ReadPermissions \/ AddMissing \/ RereadPermissions \/ FindAdmin \/ StopScript
           \/ Restart \/ UNCHANGED vars
  <2>1. roles' = roles
    BY <1>7 DEF VerifyRole, CheckPermissions, ReadAdminRole, KeepAdminRole, DeletePermission,
                CreatePermission, UpdatePermission, ReadPermissions, AddMissing,
                RereadPermissions, FindAdmin, StopScript, Restart, vars
  <2> QED
    BY <2>1
<1> QED
  BY <1>1, <1>2, <1>3, <1>4, <1>5, <1>6, <1>7 DEF Next, RoleStep, RowStep, ScriptStep

\* A role is given no deleted permission, unless something came in while it was updated.
THEOREM DeletedPermissionsAreNotGiven == Spec => SetsLivePermissions
<1>1. ASSUME Typed, LoneInv, [Next]_vars
      PROVE  [\A i \in RoleIds : lone => roles'[i].perms \ roles[i].perms \subseteq LivePerms]_vars
  BY <1>1, GivesLive
<1> QED
  BY <1>1, TypedInitially, TypedPreserved, LoneInitially, LonePreserved, PTL
     DEF Spec, SetsLivePermissions

\* The last step of a run of the script that nothing overlaps.
LEMMA CoversRoutes ==
  ASSUME Typed, LoneInv, [Next]_vars, script.step = "found", script'.step = "done", lone,
         NEW i \in RoleIds, i = script.role, roles[i].active, NEW path \in Paths
  PROVE  CanAccess(i, path)' <=> path \in Routes
<1>0. roles \in [RoleIds -> Role] /\ script \in Script
  BY DEF Typed, TypeOK
<1>1. SetAdmin
  <2>1. CASE UNCHANGED script
    BY <2>1
  <2>2. CASE ReadPermissions \/ DeleteUnserved \/ AddMissing \/ RereadPermissions \/ FindAdmin \/ StopScript
    BY <1>0, <2>2 DEF ReadPermissions, DeleteUnserved, AddMissing, RereadPermissions,
                      FindAdmin, StopScript, NoScript, Running
  <2>3. CASE \/ \E r \in Reqs : RoleStep(r)
             \/ RowStep \/ Restart \/ UNCHANGED vars
    <3>1. UNCHANGED script
      BY <2>3 DEF RoleStep, RowStep, Restart, vars, VerifyRole, CheckPermissions, SetRole,
                  DeleteRole, ReadAdminRole, KeepAdminRole, CreateRole, UpdateRoleOnly,
                  DeletePermission, CreatePermission, UpdatePermission
    <3> QED
      BY <2>1, <3>1
  <2> QED
    BY <2>2, <2>3 DEF Next, ScriptStep
<1>2. /\ script.ids = LivePerms /\ ServedPaths = Routes /\ roles[script.role].state = "LIVE"
  BY DEF LoneInv, WorkHolds
<1>3. roles'[i].state = "LIVE" /\ roles'[i].active = roles[i].active
      /\ roles'[i].perms = LivePerms /\ perms' = perms
  BY <1>0, <1>1, <1>2 DEF SetAdmin, Role
<1>4. CanAccess(i, path)' <=> \E p \in LivePerms : perms[p].path = path
  BY <1>3 DEF CanAccess, LivePerms
<1> QED
  BY <1>2, <1>4 DEF ServedPaths

\* Run alone, the script makes the admin's role good for the served paths and no other.
THEOREM ScriptServesTheRoutes == Spec => ScriptCoversRoutes
<1>1. ASSUME Typed, LoneInv, [Next]_vars
      PROVE  [ script.step = "found" /\ script'.step = "done" /\ lone =>
          \A i \in RoleIds : i = script.role /\ roles[i].active =>
             \A path \in Paths : CanAccess(i, path)' <=> path \in Routes ]_vars
  BY <1>1, CoversRoutes
<1> QED
  BY <1>1, TypedInitially, TypedPreserved, LoneInitially, LonePreserved, PTL
     DEF Spec, ScriptCoversRoutes
=============================================================================
