------------------------ MODULE StaffAccounts_proofs ------------------------
(***************************************************************************)
(* Proofs about StaffAccounts, for any number of users, codes and requests *)
(* in flight.                                                              *)
(***************************************************************************)
EXTENDS StaffAccounts, TLAPS

IInv == TypeOK /\ AccountInv

\* An account with nothing told or under way is right.
LEMMA InitAccounts == Init => IInv
<1> SUFFICES ASSUME Init PROVE IInv
  OBVIOUS
<1> USE AccountAssumption DEF Init
<1>1. NoUser \in User /\ [NoUser EXCEPT !.state = "LIVE"] \in User /\ NoCode \in Code
  BY DEF NoUser, NoCode, User, Stored, Code
<1>2. NoUser.password = Hash(NoUser.password.of) /\ NoUser.password.of \in Passwords
  BY DEF NoUser, Hash
<1>3. Idle \in Request
  BY DEF Idle, Request
<1>4. TypeOK
  BY <1>1, <1>2, <1>3 DEF TypeOK
<1>5. SlotsMatch /\ TakenOnce /\ AnsweredOnce /\ ReadsHold
  BY DEF SlotsMatch, SlotMatches, TakenOnce, AnsweredOnce, ReadsHold, Idle
<1>6. ToldMatches
  <2>1. \A u \in Users : told[u] = None \/ (u = Admin /\ told[u] = NoUser.password.of)
    OBVIOUS
  <2>2. users[Admin].password = NoUser.password
    BY DEF NoUser
  <2>3. QED
    BY <1>2, <2>1, <2>2 DEF ToldMatches, Compare, Live
<1>7. QED
  BY <1>4, <1>5, <1>6 DEF IInv, AccountInv

-----------------------------------------------------------------------------
(* Requests that come in                                                   *)

\* A request that comes in holds what it has read, and if others are under way the calm
\* is over.
LEMMA BeginStep ==
  ASSUME IInv, NEW r \in Reqs, NEW s \in Request, Begin(r, s),
         UNCHANGED <<users, codes, told, resets, tokens>>,
         s.op # "reset", s.todo = {}, s.took = None, s.ok,
         s.op \in {"create", "update"} => s.role \in Roles,
         s.op \in {"create", "update", "otp", "find"} => s.email \in Emails,
         s.op \in {"create", "update", "change", "find"} => s.password \in Passwords,
         s.op \in {"update", "delete", "change", "find"} => s.user \in Users,
         s.op \in {"update", "delete"} => VerifyRole(s.byAdmin, users[s.user].role),
         s.op = "find" => s.user \in Live
  PROVE  IInv'
<1>1. /\ req[r].op = "idle" /\ started \in 0..MaxRequests /\ started < MaxRequests
      /\ started' = started + 1
      /\ clean' = (clean /\ \A q \in Reqs : req[q].op = "idle")
      /\ MaxRequests \in Nat
  BY AccountAssumption DEF Begin, IInv, TypeOK
<1>2. started' \in 1..MaxRequests
  BY <1>1
<1> DEFINE h == [s EXCEPT !.id = started']
<1>3. h \in Request
  BY <1>2 DEF Request
<1>4. /\ h.op = s.op /\ h.id = started' /\ h.user = s.user /\ h.email = s.email
      /\ h.role = s.role /\ h.password = s.password /\ h.byAdmin = s.byAdmin
      /\ h.todo = {} /\ h.took = None /\ h.ok = s.ok
  BY DEF Request
<1>5. req' = [req EXCEPT ![r] = h]
  BY <1>1 DEF Begin
<1> HIDE DEF h
<1>6. req'[r] = h /\ \A q \in Reqs : q # r => req'[q] = req[q]
  BY <1>5 DEF IInv, TypeOK
<1>7. TypeOK'
  <2>1. req' \in [Reqs -> Request]
    BY <1>3, <1>5 DEF IInv, TypeOK
  <2>2. clean' \in BOOLEAN
    BY <1>1
  <2>3. started' \in 0..MaxRequests
    BY <1>1
  <2>4. QED
    BY <2>1, <2>2, <2>3 DEF IInv, TypeOK
<1>8. SlotsMatch'
  <2>1. SlotMatches(h)
    BY <1>2, <1>4 DEF SlotMatches
  <2>2. QED
    BY <1>6, <2>1 DEF IInv, AccountInv, SlotsMatch, SlotMatches
<1>9. TakenOnce' /\ AnsweredOnce'
  BY <1>1, <1>4, <1>6 DEF IInv, AccountInv, TakenOnce, AnsweredOnce
<1>10. ReadsHold'
  BY <1>1, <1>4, <1>6, ZenonT(30) DEF ReadsHold, Written, Live
<1>11. ToldMatches'
  BY <1>1, <1>6 DEF IInv, AccountInv, ToldMatches, Written, Live, Compare
<1>12. QED
  BY <1>7, <1>8, <1>9, <1>11, <1>10 DEF IInv, AccountInv

LEMMA IdleTyped == Idle \in Request
BY AccountAssumption DEF Idle, Request

LEMMA IdleFields ==
  /\ Idle \in Request
  /\ Idle.op = "idle" /\ Idle.todo = {} /\ Idle.took = None /\ Idle.ok
BY AccountAssumption DEF Idle, Request

LEMMA MailPasswordStep ==
  ASSUME IInv, NEW r \in Reqs, NEW e \in Emails, NEW role \in Roles, NEW p \in Passwords,
         MailPassword(r, e, role, p)
  PROVE  IInv'
<1> DEFINE new(b) == [Idle EXCEPT !.op = "create", !.email = e, !.role = role,
                                  !.password = p, !.byAdmin = b]
<1>1. PICK mine \in AgentRoles(Users) : Begin(r, new(mine = AdminRole))
  BY DEF MailPassword
<1> DEFINE b == mine = AdminRole
           s == new(b)
<1>2. b \in BOOLEAN /\ Begin(r, s)
  BY <1>1
<1>3. s = [Idle EXCEPT !.op = "create", !.email = e, !.role = role,
                       !.password = p, !.byAdmin = b]
  OBVIOUS
<1> HIDE DEF b, s
<1>4. s \in Request
  BY <1>2, <1>3, IdleTyped DEF Request
<1>5. /\ s.op = "create" /\ s.todo = {} /\ s.took = None /\ s.ok
      /\ s.role = role /\ s.email = e /\ s.password = p
  BY <1>3, IdleFields DEF Request
<1>6. QED
  BY <1>2, <1>4, <1>5, BeginStep DEF MailPassword

LEMMA ReadTargetStep ==
  ASSUME IInv, NEW r \in Reqs, NEW u \in Users, NEW op \in {"update", "delete"},
         NEW e \in Emails \cup {None}, NEW role \in Roles \cup {None},
         NEW p \in Passwords \cup {None},
         op = "update" => e \in Emails /\ role \in Roles /\ p \in Passwords,
         ReadTarget(r, u, op, e, role, p)
  PROVE  IInv'
<1> DEFINE new(b) == [Idle EXCEPT !.op = op, !.user = u, !.email = e, !.role = role,
                                  !.password = p, !.byAdmin = b]
<1>1. PICK mine \in AgentRoles(Users \ {u}) :
         VerifyRole(mine = AdminRole, users[u].role) /\ Begin(r, new(mine = AdminRole))
  BY DEF ReadTarget
<1> DEFINE b == mine = AdminRole
           s == new(b)
<1>2. b \in BOOLEAN /\ VerifyRole(b, users[u].role) /\ Begin(r, s)
  BY <1>1
<1>3. s = [Idle EXCEPT !.op = op, !.user = u, !.email = e, !.role = role,
                       !.password = p, !.byAdmin = b]
  OBVIOUS
<1> HIDE DEF b, s
<1>4. s \in Request
  BY <1>2, <1>3, IdleTyped DEF Request
<1>5. /\ s.op = op /\ s.todo = {} /\ s.took = None /\ s.ok /\ s.role = role
      /\ s.email = e /\ s.password = p /\ s.user = u /\ s.byAdmin = b
  BY <1>3, IdleFields DEF Request
<1>6. VerifyRole(s.byAdmin, users[s.user].role)
  BY <1>2, <1>5 DEF VerifyRole
<1>7. QED
  BY <1>2, <1>4, <1>5, <1>6, BeginStep DEF ReadTarget

LEMMA CompareOldStep ==
  ASSUME IInv, NEW r \in Reqs, NEW u \in Users, NEW old \in Passwords, NEW p \in Passwords,
         CompareOld(r, u, old, p)
  PROVE  IInv'
<1> DEFINE s == [Idle EXCEPT !.op = "change", !.user = u, !.password = p]
<1>1. /\ s \in Request /\ s.op = "change" /\ s.todo = {} /\ s.took = None /\ s.ok
      /\ s.password = p /\ s.user = u
  BY IdleFields, ZenonT(30) DEF Request
<1>2. Begin(r, s) /\ UNCHANGED <<users, codes, told, resets, tokens>>
  BY DEF CompareOld
<1> HIDE DEF s
<1>3. QED
  BY <1>1, <1>2, BeginStep

LEMMA CheckEmailStep ==
  ASSUME IInv, NEW r \in Reqs, NEW e \in Emails, NEW type \in {"REGISTER", "FORGOT_PASSWORD"},
         CheckEmail(r, e, type)
  PROVE  IInv'
<1> DEFINE s == [Idle EXCEPT !.op = "otp", !.email = e, !.type = type]
<1>1. s \in Request /\ s.op = "otp" /\ s.todo = {} /\ s.took = None /\ s.ok /\ s.email = e
  BY IdleFields, ZenonT(30) DEF Request
<1>2. Begin(r, s) /\ UNCHANGED <<users, codes, told, resets, tokens>>
  BY DEF CheckEmail
<1> HIDE DEF s
<1>3. QED
  BY <1>1, <1>2, BeginStep

LEMMA FindForgetfulStep ==
  ASSUME IInv, NEW r \in Reqs, NEW e \in Emails, NEW o \in Otps, NEW p \in Passwords,
         FindForgetful(r, e, o, p)
  PROVE  IInv'
<1>1. PICK u \in FindUser(e) :
        Begin(r, [Idle EXCEPT !.op = "find", !.user = u, !.email = e, !.otp = o,
                              !.password = p])
  BY DEF FindForgetful
<1>2. u \in Live /\ u \in Users
  BY DEF FindUser, Live
<1> DEFINE s == [Idle EXCEPT !.op = "find", !.user = u, !.email = e, !.otp = o,
                             !.password = p]
<1>3. /\ s \in Request /\ s.op = "find" /\ s.todo = {} /\ s.took = None /\ s.ok
      /\ s.email = e /\ s.password = p /\ s.user = u
  BY <1>2, IdleFields, ZenonT(30) DEF Request
<1>4. Begin(r, s)
  BY <1>1
<1> HIDE DEF s
<1>5. QED
  BY <1>2, <1>3, <1>4, BeginStep DEF FindForgetful

-----------------------------------------------------------------------------
(* Requests that end                                                       *)

\* A slot given up leaves what the others hold as it is.
LEMMA EndSlot ==
  ASSUME IInv, NEW r \in Reqs, End(r), resets' = resets,
         \A c \in Codes : codes[c].state = "GONE" => codes'[c].state = "GONE"
  PROVE  /\ req' \in [Reqs -> Request] /\ SlotsMatch' /\ TakenOnce' /\ AnsweredOnce'
         /\ req'[r] = Idle /\ \A q \in Reqs : q # r => req'[q] = req[q]
<1>1. /\ req' \in [Reqs -> Request]
      /\ req'[r] = Idle /\ \A q \in Reqs : q # r => req'[q] = req[q]
  BY IdleFields DEF End, IInv, TypeOK
<1>2. SlotsMatch'
  BY <1>1, IdleFields DEF IInv, AccountInv, SlotsMatch, SlotMatches
<1>3. TakenOnce' /\ AnsweredOnce'
  <2>1. \A x \in resets : x.row \in Codes
    BY DEF IInv, TypeOK
  <2>2. \A q \in Reqs : req[q].took # None => req[q].took \in Codes
    BY DEF IInv, TypeOK, Request
  <2>3. QED
    BY <1>1, <2>1, <2>2, IdleFields DEF IInv, AccountInv, TakenOnce, AnsweredOnce
<1>4. QED
  BY <1>1, <1>2, <1>3

\* The new account's password is the one that was mailed.
LEMMA InsertUserStep ==
  ASSUME IInv, NEW r \in Reqs, InsertUser(r)
  PROVE  IInv'
<1>1. PICK u \in Users :
        /\ users[u].state = "ABSENT"
        /\ users' = [users EXCEPT ![u] = [state |-> "LIVE", email |-> req[r].email,
                         role |-> req[r].role, password |-> Hash(req[r].password)]]
        /\ told' = [told EXCEPT ![u] = req[r].password]
  BY DEF InsertUser
<1>2. /\ req[r].op = "create" /\ End(r)
      /\ UNCHANGED <<codes, started, resets, clean, tokens>>
  BY DEF InsertUser
<1>3. /\ req' \in [Reqs -> Request] /\ SlotsMatch' /\ TakenOnce' /\ AnsweredOnce'
      /\ req'[r] = Idle /\ \A q \in Reqs : q # r => req'[q] = req[q]
  BY <1>2, EndSlot
<1>4. req[r].email \in Emails /\ req[r].role \in Roles /\ req[r].password \in Passwords
  BY <1>2 DEF IInv, AccountInv, SlotsMatch, SlotMatches
<1>5. TypeOK'
  <2>1. users' \in [Users -> User]
    BY <1>1, <1>4 DEF IInv, TypeOK, User, Stored, Hash
  <2>2. told' \in [Users -> Passwords \cup {None}]
    BY <1>1, <1>4 DEF IInv, TypeOK
  <2>3. QED
    BY <1>2, <1>3, <2>1, <2>2 DEF IInv, TypeOK
<1>6. /\ users'[u].state = "LIVE" /\ users'[u].password = Hash(req[r].password)
      /\ told'[u] = req[r].password
      /\ \A v \in Users : v # u => users'[v] = users[v] /\ told'[v] = told[v]
  BY <1>1 DEF IInv, TypeOK
<1>7. ReadsHold'
  BY <1>2, <1>3, IdleFields DEF IInv, AccountInv, ReadsHold, Written
<1>8. ToldMatches'
  <2> SUFFICES ASSUME clean, NEW v \in Users, users'[v].state = "LIVE"
               PROVE  \/ told'[v] = None \/ Compare(told'[v], users'[v].password)
                      \/ \E q \in Reqs : Written(q)' /\ req'[q].user = v
    BY <1>2 DEF ToldMatches, Live
  <2>1. CASE v = u
    BY <1>6, <2>1 DEF Compare
  <2>2. CASE v # u
    <3>1. /\ v \in Live
          /\ \A q \in Reqs : Written(q) => Written(q)' /\ req'[q].user = req[q].user
      BY <1>2, <1>3, <1>6, <2>2 DEF Live, Written
    <3>2. QED
      BY <1>6, <2>2, <3>1 DEF IInv, AccountInv, ToldMatches
  <2>3. QED
    BY <2>1, <2>2
<1>9. QED
  BY <1>3, <1>5, <1>7, <1>8 DEF IInv, AccountInv

\* An update, a deletion or a change touches one account; nobody is told a password that
\* is not the one stored.
LEMMA WriteUserStep ==
  ASSUME IInv, NEW r \in Reqs, End(r), req[r].op \in {"update", "delete", "change"},
         users' \in [Users -> User], told' \in [Users -> Passwords \cup {None}],
         UNCHANGED <<codes, started, resets, clean, tokens>>,
         \A u \in Users :
            \/ users'[u] = users[u] /\ told'[u] = told[u]
            \/ users'[u].state # "LIVE" \/ told'[u] = None
            \/ Compare(told'[u], users'[u].password)
  PROVE  IInv'
<1>1. /\ req' \in [Reqs -> Request] /\ SlotsMatch' /\ TakenOnce' /\ AnsweredOnce'
      /\ req'[r] = Idle /\ \A q \in Reqs : q # r => req'[q] = req[q]
  BY EndSlot
<1>2. TypeOK'
  BY <1>1 DEF IInv, TypeOK
<1>3. ReadsHold'
  BY <1>1, IdleFields DEF IInv, AccountInv, ReadsHold, Written
<1>4. ToldMatches'
  <2> SUFFICES ASSUME clean, NEW v \in Users, users'[v].state = "LIVE", told'[v] # None,
                      users'[v] = users[v] /\ told'[v] = told[v]
               PROVE  \/ Compare(told'[v], users'[v].password)
                      \/ \E q \in Reqs : Written(q)' /\ req'[q].user = v
    BY DEF ToldMatches, Live
  <2>1. v \in Live /\ \A q \in Reqs : Written(q) => Written(q)' /\ req'[q].user = req[q].user
    BY <1>1 DEF Live, Written
  <2>2. QED
    BY <2>1 DEF IInv, AccountInv, ToldMatches
<1>5. QED
  BY <1>1, <1>2, <1>3, <1>4 DEF IInv, AccountInv

LEMMA UpdateUserStep ==
  ASSUME IInv, NEW r \in Reqs, UpdateUser(r)
  PROVE  IInv'
<1> DEFINE u == req[r].user
           row == [state |-> "LIVE", email |-> req[r].email, role |-> req[r].role,
                   password |-> [hashed |-> FALSE, of |-> req[r].password]]
<1>1. /\ req[r].op = "update" /\ End(r) /\ UNCHANGED <<codes, started, resets, clean, tokens>>
      /\ IF u \in Live THEN users' = [users EXCEPT ![u] = row] /\ told' = [told EXCEPT ![u] = None]
         ELSE UNCHANGED <<users, told>>
  BY DEF UpdateUser
<1>2. u \in Users /\ row \in User
  BY <1>1 DEF IInv, AccountInv, SlotsMatch, SlotMatches, User, Stored
<1> HIDE DEF u, row
<1>3. /\ users' \in [Users -> User] /\ told' \in [Users -> Passwords \cup {None}]
      /\ \A v \in Users : told'[v] = None \/ (users'[v] = users[v] /\ told'[v] = told[v])
  BY <1>1, <1>2 DEF IInv, TypeOK
<1>4. QED
  BY <1>1, <1>3, WriteUserStep

LEMMA DeleteUserStep ==
  ASSUME IInv, NEW r \in Reqs, DeleteUser(r)
  PROVE  IInv'
<1> DEFINE u == req[r].user
<1>1. /\ req[r].op = "delete" /\ End(r) /\ UNCHANGED <<codes, started, told, resets, clean, tokens>>
      /\ users' = IF u \in Live THEN [users EXCEPT ![u].state = "DELETED"] ELSE users
  BY DEF DeleteUser
<1>2. u \in Users
  BY <1>1 DEF IInv, AccountInv, SlotsMatch, SlotMatches
<1> HIDE DEF u
<1>3. /\ users' \in [Users -> User] /\ told' \in [Users -> Passwords \cup {None}]
      /\ \A v \in Users : users'[v].state = "DELETED" \/ (users'[v] = users[v] /\ told'[v] = told[v])
  BY <1>1, <1>2 DEF IInv, TypeOK, User
<1>4. QED
  BY <1>1, <1>3, WriteUserStep

LEMMA WriteChangedStep ==
  ASSUME IInv, NEW r \in Reqs, WriteChanged(r)
  PROVE  IInv'
<1> DEFINE u == req[r].user
           p == req[r].password
<1>1. /\ req[r].op = "change" /\ End(r) /\ UNCHANGED <<codes, started, resets, clean, tokens>>
      /\ IF u \in Live THEN /\ users' = [users EXCEPT ![u].password = Hash(p)]
                            /\ told' = [told EXCEPT ![u] = p]
         ELSE UNCHANGED <<users, told>>
  BY DEF WriteChanged
<1>2. u \in Users /\ p \in Passwords /\ Hash(p) \in Stored
  BY <1>1 DEF IInv, AccountInv, SlotsMatch, SlotMatches, Stored, Hash
<1> HIDE DEF u, p
<1>3. /\ users' \in [Users -> User] /\ told' \in [Users -> Passwords \cup {None}]
      /\ \A v \in Users : \/ users'[v].password = Hash(told'[v])
                          \/ users'[v] = users[v] /\ told'[v] = told[v]
  BY <1>1, <1>2, SMTT(20) DEF IInv, TypeOK, User
<1>4. QED
  BY <1>1, <1>3, WriteUserStep DEF Compare

\* A code is given a row nobody has removed.
LEMMA UpsertCodeStep ==
  ASSUME IInv, NEW r \in Reqs, UpsertCode(r)
  PROVE  IInv'
<1>1. PICK otp \in Otps, c \in Codes :
        /\ codes[c].state \in {"ABSENT", "LIVE"}
        /\ codes' = [codes EXCEPT ![c] = [state |-> "LIVE", email |-> req[r].email, otp |-> otp,
                                          type |-> req[r].type, expired |-> FALSE]]
  BY DEF UpsertCode, CodeRow
<1>2. req[r].op = "otp" /\ End(r) /\ UNCHANGED <<users, started, told, resets, clean, tokens>>
  BY DEF UpsertCode
<1>3. \A d \in Codes : codes[d].state = "GONE" => codes'[d].state = "GONE"
  BY <1>1 DEF IInv, TypeOK
<1>4. /\ req' \in [Reqs -> Request] /\ SlotsMatch' /\ TakenOnce' /\ AnsweredOnce'
      /\ req'[r] = Idle /\ \A q \in Reqs : q # r => req'[q] = req[q]
  BY <1>2, <1>3, EndSlot
<1>5. codes' \in [Codes -> Code]
  <2>1. req[r].email \in Emails /\ req[r].type \in {"REGISTER", "FORGOT_PASSWORD"}
    BY <1>2 DEF IInv, TypeOK, Request, AccountInv, SlotsMatch, SlotMatches
  <2>2. QED
    BY <1>1, <2>1 DEF IInv, TypeOK, Code
<1>6. TypeOK'
  BY <1>2, <1>4, <1>5 DEF IInv, TypeOK
<1>7. ReadsHold'
  BY <1>2, <1>4, IdleFields DEF IInv, AccountInv, ReadsHold, Written
<1>8. ToldMatches'
  BY <1>2, <1>4 DEF IInv, AccountInv, ToldMatches, Live, Written
<1>9. QED
  BY <1>4, <1>6, <1>7, <1>8 DEF IInv, AccountInv

LEMMA StopStep ==
  ASSUME IInv, NEW r \in Reqs, Stop(r)
  PROVE  IInv'
<1>1. ~clean' /\ clean' \in BOOLEAN /\ End(r) /\ UNCHANGED <<users, codes, started, told, resets, tokens>>
  BY DEF Stop
<1>2. req' \in [Reqs -> Request] /\ SlotsMatch' /\ TakenOnce' /\ AnsweredOnce'
  BY <1>1, EndSlot
<1>3. TypeOK'
  BY <1>1, <1>2 DEF IInv, TypeOK
<1>4. QED
  BY <1>1, <1>2, <1>3 DEF IInv, AccountInv, ReadsHold, ToldMatches

\* A reset that is answered OK has a row of its own to show for it, and the password it
\* tells is the one it wrote.
LEMMA AnswerResetStep ==
  ASSUME IInv, NEW r \in Reqs, AnswerReset(r)
  PROVE  IInv'
<1> DEFINE u == req[r].user
           x == [id |-> req[r].id, row |-> req[r].took]
<1>1. /\ req[r].op = "reset" /\ req[r].todo = {} /\ End(r)
      /\ resets' = IF req[r].ok THEN resets \cup {x} ELSE resets
      /\ told' = IF req[r].ok THEN [told EXCEPT ![u] = req[r].password] ELSE told
      /\ UNCHANGED <<users, codes, started, clean, tokens>>
  BY DEF AnswerReset
<1>2. /\ u \in Users /\ req[r].password \in Passwords /\ req[r].id \in 1..MaxRequests
      /\ req[r].ok => req[r].took # None /\ req[r].took \in Codes
  BY <1>1 DEF IInv, TypeOK, Request, AccountInv, SlotsMatch, SlotMatches
<1>3. /\ req' \in [Reqs -> Request]
      /\ req'[r] = Idle /\ \A q \in Reqs : q # r => req'[q] = req[q]
  BY <1>1, IdleFields DEF End, IInv, TypeOK
<1>4. TypeOK'
  BY <1>1, <1>2, <1>3 DEF IInv, TypeOK
<1>5. SlotsMatch'
  BY <1>3, IdleFields DEF IInv, AccountInv, SlotsMatch, SlotMatches
<1>6. TakenOnce' /\ AnsweredOnce'
  <2>1. req[r].ok => /\ codes[x.row].state = "GONE" /\ \A y \in resets : y.row # x.row
                     /\ \A q \in Reqs : req[q].took = x.row => q = r
    BY <1>2 DEF IInv, AccountInv, TakenOnce
  <2> HIDE DEF x
  <2>2. QED
    BY <1>1, <1>3, <2>1, IdleFields DEF IInv, AccountInv, TakenOnce, AnsweredOnce
<1>7. ReadsHold'
  BY <1>1, <1>3, IdleFields DEF IInv, AccountInv, ReadsHold, Written, Live, CodeRow
<1>8. ToldMatches'
  <2> SUFFICES ASSUME clean, NEW v \in Live, told'[v] # None
               PROVE  Compare(told'[v], users[v].password)
    BY <1>1 DEF ToldMatches, Live
  <2>1. /\ req[r].ok /\ Compare(req[r].password, users[u].password)
        /\ \A q \in Reqs : Written(q) => q = r
    BY <1>1 DEF IInv, AccountInv, ReadsHold, Written
  <2>2. told' = [told EXCEPT ![u] = req[r].password] /\ v \in Users
    BY <1>1, <2>1 DEF Live
  <2>3. CASE v = u
    BY <2>1, <2>2, <2>3 DEF IInv, TypeOK
  <2>4. CASE v # u
    BY <2>1, <2>2, <2>4 DEF IInv, TypeOK, AccountInv, ToldMatches
  <2>5. QED
    BY <2>3, <2>4
<1>9. QED
  BY <1>4, <1>5, <1>6, <1>7, <1>8 DEF IInv, AccountInv

-----------------------------------------------------------------------------
(* Requests that go on                                                     *)

\* While a request goes on, its fields but op, todo, ok and took stay as they are.
LEMMA ValidateCodeStep ==
  ASSUME IInv, NEW r \in Reqs, ValidateCode(r)
  PROVE  IInv'
<1> DEFINE h == [req[r] EXCEPT !.op = "reset", !.todo = {"write", "consume"}]
           valid == \E c \in CodeRow(req[r].email, req[r].otp, "FORGOT_PASSWORD") :
                       ~codes[c].expired
<1>1. /\ req[r].op = "find" /\ UNCHANGED <<users, codes, started, told, resets, clean, tokens>>
      /\ req' = [req EXCEPT ![r] = IF valid THEN h ELSE Idle]
  BY DEF ValidateCode, IInv, TypeOK
<1>2. CASE ~valid
  <2>1. End(r)
    BY <1>1, <1>2 DEF End
  <2>2. /\ req' \in [Reqs -> Request] /\ SlotsMatch' /\ TakenOnce' /\ AnsweredOnce'
        /\ req'[r] = Idle /\ \A q \in Reqs : q # r => req'[q] = req[q]
    BY <1>1, <2>1, EndSlot
  <2>3. TypeOK'
    BY <1>1, <2>2 DEF IInv, TypeOK
  <2>4. ReadsHold' /\ ToldMatches'
    BY <1>1, <2>2, IdleFields
       DEF IInv, AccountInv, ReadsHold, ToldMatches, Written, Live, CodeRow
  <2>5. QED
    BY <2>2, <2>3, <2>4 DEF IInv, AccountInv
<1>3. CASE valid
  <2>1. /\ req[r] \in Request /\ SlotMatches(req[r])
        /\ req[r].took = None /\ req[r].ok /\ req[r].user \in Users
        /\ CodeRow(req[r].email, req[r].otp, "FORGOT_PASSWORD") # {}
    BY <1>1, <1>3 DEF IInv, TypeOK, AccountInv, SlotsMatch, SlotMatches
  <2>2. /\ h \in Request /\ h.op = "reset" /\ h.todo = {"write", "consume"}
        /\ h.id = req[r].id /\ h.user = req[r].user /\ h.email = req[r].email
        /\ h.otp = req[r].otp /\ h.password = req[r].password /\ h.ok = req[r].ok
        /\ h.took = None
    BY <2>1, ZenonT(30) DEF Request
  <2>3. req' = [req EXCEPT ![r] = h]
    BY <1>1, <1>3
  <2> HIDE DEF h, valid
  <2>4. req'[r] = h /\ \A q \in Reqs : q # r => req'[q] = req[q]
    BY <2>3 DEF IInv, TypeOK
  <2>5. TypeOK'
    BY <1>1, <2>2, <2>3 DEF IInv, TypeOK
  <2>6. SlotMatches(h)
    BY <1>1, <2>1, <2>2 DEF SlotMatches
  <2>7. SlotsMatch'
    BY <2>4, <2>6 DEF IInv, AccountInv, SlotsMatch
  <2>8. TakenOnce' /\ AnsweredOnce'
    BY <1>1, <2>2, <2>4 DEF IInv, AccountInv, TakenOnce, AnsweredOnce
  <2>9. ReadsHold'
    <3>1. clean => /\ req[r].user \in Live
                   /\ \A q \in Reqs : req[q].op # "idle" => q = r
      BY <1>1 DEF IInv, AccountInv, ReadsHold
    <3>2. \A e, o : CodeRow(e, o, "FORGOT_PASSWORD")' = CodeRow(e, o, "FORGOT_PASSWORD")
      <4>1. codes' = codes
        BY <1>1
      <4>2. QED
        BY <4>1 DEF CodeRow
    <3>3. SUFFICES ASSUME clean, NEW q \in Reqs, req'[q].op # "idle"
                   PROVE  /\ q = r /\ h.user \in Live /\ h.ok
                          /\ CodeRow(h.email, h.otp, "FORGOT_PASSWORD") # {}
      <4>1. ~Written(r)' /\ Live' = Live
        BY <1>1, <2>2, <2>4 DEF Written, Live
      <4>2. QED
        BY <1>1, <2>2, <2>4, <3>2, <4>1 DEF ReadsHold
    <3>4. q = r
      BY <2>4, <3>1, <3>3
    <3>5. QED
      BY <2>1, <2>2, <3>1, <3>3, <3>4
  <2>10. ToldMatches'
    BY <1>1, <2>2, <2>4 DEF IInv, AccountInv, ToldMatches, Written, Live
  <2>11. QED
    BY <2>5, <2>7, <2>8, <2>9, <2>10 DEF IInv, AccountInv
<1>4. QED
  BY <1>2, <1>3

\* The password that is written is wrong for whoever was told another, until the answer.
LEMMA WriteResetStep ==
  ASSUME IInv, NEW r \in Reqs, WriteReset(r)
  PROVE  IInv'
<1> DEFINE u == req[r].user
           there == u \in Live
           h == [req[r] EXCEPT !.todo = @ \ {"write"}, !.ok = @ /\ there]
<1>1. /\ "write" \in req[r].todo /\ UNCHANGED <<codes, started, told, resets, clean, tokens>>
      /\ users' = IF there THEN [users EXCEPT ![u].password = Hash(req[r].password)] ELSE users
      /\ req' = [req EXCEPT ![r] = h]
  BY DEF WriteReset
<1>2. /\ req[r] \in Request /\ SlotMatches(req[r]) /\ req[r].op = "reset"
      /\ u \in Users /\ req[r].password \in Passwords
  BY <1>1 DEF IInv, TypeOK, AccountInv, SlotsMatch, SlotMatches
<1>3. there \in BOOLEAN
  OBVIOUS
<1> HIDE DEF there
<1>4. h \in Request
  BY <1>2, <1>3 DEF Request
<1>5. /\ h.op = "reset" /\ h.id = req[r].id /\ h.user = req[r].user
      /\ h.email = req[r].email /\ h.otp = req[r].otp /\ h.password = req[r].password
      /\ h.took = req[r].took
  BY <1>2 DEF Request
<1>6. h.todo = req[r].todo \ {"write"}
  BY <1>2 DEF Request
<1>7. h.ok <=> req[r].ok /\ there
  BY <1>2, <1>3 DEF Request
<1> HIDE DEF h
<1>8. req'[r] = h /\ \A q \in Reqs : q # r => req'[q] = req[q]
  BY <1>1 DEF IInv, TypeOK
<1>9. TypeOK'
  <2>1. users' \in [Users -> User]
    BY <1>1, <1>2, ZenonT(30) DEF IInv, TypeOK, User, Stored, Hash
  <2>2. QED
    BY <1>1, <1>4, <2>1 DEF IInv, TypeOK
<1>10. SlotsMatch'
  <2>1. SlotMatches(h)
    BY <1>2, <1>5, <1>6, <1>7 DEF SlotMatches
  <2>2. QED
    BY <1>8, <2>1 DEF IInv, AccountInv, SlotsMatch
<1>11. TakenOnce' /\ AnsweredOnce'
  BY <1>1, <1>5, <1>8 DEF IInv, AccountInv, TakenOnce, AnsweredOnce
<1>12. CASE ~clean
  BY <1>1, <1>9, <1>10, <1>11, <1>12 DEF IInv, AccountInv, ReadsHold, ToldMatches
<1>13. CASE clean
  <2>1. /\ u \in Live /\ req[r].ok
        /\ \A q \in Reqs : req[q].op # "idle" => q = r
        /\ "consume" \in req[r].todo =>
              CodeRow(req[r].email, req[r].otp, "FORGOT_PASSWORD") # {}
    BY <1>2, <1>13 DEF IInv, AccountInv, ReadsHold
  <2>2. /\ users'[u].password = Hash(req[r].password)
        /\ \A v \in Users : v # u => users'[v] = users[v]
        /\ Live' = Live
    BY <1>1, <1>2, <2>1 DEF there, IInv, TypeOK, User, Live
  <2>3. ReadsHold'
    <3> SUFFICES ASSUME NEW q \in Reqs, req'[q].op # "idle"
                 PROVE  /\ q = r /\ h.user \in Live /\ h.ok
                        /\ "consume" \in h.todo => CodeRow(h.email, h.otp, "FORGOT_PASSWORD") # {}
                        /\ Compare(h.password, users'[h.user].password)
      BY <1>1, <1>5, <1>8, <2>1, <2>2 DEF ReadsHold, Written, CodeRow
    <3>1. q = r
      BY <1>8, <2>1
    <3>2. QED
      BY <1>5, <1>6, <1>7, <2>1, <2>2, <3>1 DEF there, Compare
  <2>4. Written(r)' /\ req'[r].user = u
    BY <1>5, <1>6, <1>8 DEF Written
  <2>5. ToldMatches'
    <3> SUFFICES ASSUME NEW v \in Live, v # u, told[v] # None
                 PROVE  Compare(told[v], users'[v].password)
      BY <1>1, <2>2, <2>4 DEF ToldMatches
    <3>1. \A q \in Reqs : Written(q) => req[q].user = u
      BY <2>1 DEF Written
    <3>2. QED
      BY <1>13, <2>2, <3>1 DEF IInv, AccountInv, ToldMatches, Live
  <2>6. QED
    BY <1>9, <1>10, <1>11, <2>3, <2>5 DEF IInv, AccountInv
<1>14. QED
  BY <1>12, <1>13

\* The row that is removed is live until then, so nobody has removed it before.
LEMMA ConsumeCodeStep ==
  ASSUME IInv, NEW r \in Reqs, ConsumeCode(r)
  PROVE  IInv'
<1> DEFINE row == CodeRow(req[r].email, req[r].otp, "FORGOT_PASSWORD")
           there == row # {}
           took == IF row = {} THEN None ELSE CHOOSE c \in row : TRUE
           h == [req[r] EXCEPT !.todo = @ \ {"consume"}, !.ok = @ /\ there, !.took = took]
<1>1. /\ "consume" \in req[r].todo /\ UNCHANGED <<users, started, told, resets, clean, tokens>>
      /\ codes' = [c \in Codes |-> IF c \in row THEN [codes[c] EXCEPT !.state = "GONE"]
                                   ELSE codes[c]]
      /\ req' = [req EXCEPT ![r] = h]
  BY DEF ConsumeCode
<1>2. /\ req[r] \in Request /\ SlotMatches(req[r]) /\ req[r].op = "reset" /\ req[r].took = None
      /\ req[r].user \in Users
  BY <1>1 DEF IInv, TypeOK, AccountInv, SlotsMatch, SlotMatches
<1>3. \A c \in row : c \in Codes /\ codes[c].state = "LIVE"
  BY DEF CodeRow
<1>4. None \notin Codes
  BY AccountAssumption
<1>5. took \in Codes \cup {None} /\ there \in BOOLEAN
  BY <1>3
<1>6. /\ there => took # None
      /\ took # None => took \in Codes /\ codes[took].state = "LIVE" /\ took \in row
  BY <1>3, <1>4
<1> HIDE DEF took, there, row
<1>7. h \in Request
  <2>1. ASSUME NEW s \in Request, NEW b \in BOOLEAN, NEW t \in Codes \cup {None}
        PROVE  [s EXCEPT !.todo = @ \ {"consume"}, !.ok = b, !.took = t] \in Request
    BY DEF Request
  <2> DEFINE ok == req[r].ok /\ there
  <2>2. ok \in BOOLEAN
    OBVIOUS
  <2>3. h = [req[r] EXCEPT !.todo = @ \ {"consume"}, !.ok = ok, !.took = took]
    OBVIOUS
  <2> HIDE DEF h, ok
  <2>4. QED
    BY <1>2, <1>5, <2>1, <2>2, <2>3
<1>8. /\ h.op = "reset" /\ h.id = req[r].id /\ h.user = req[r].user
      /\ h.email = req[r].email /\ h.otp = req[r].otp /\ h.password = req[r].password
      /\ h.took = took
  BY <1>2 DEF Request
<1>9. h.todo = req[r].todo \ {"consume"}
  BY <1>2 DEF Request
<1>10. h.ok <=> req[r].ok /\ there
  BY <1>2, <1>5 DEF Request
<1> HIDE DEF h
<1>11. req'[r] = h /\ \A q \in Reqs : q # r => req'[q] = req[q]
  BY <1>1 DEF IInv, TypeOK
<1>12. \A c \in Codes : /\ codes[c].state = "GONE" => codes'[c].state = "GONE"
                        /\ c \in row => codes'[c].state = "GONE"
  BY <1>1 DEF IInv, TypeOK, Code
<1>13. TypeOK'
  <2>1. codes' \in [Codes -> Code]
    BY <1>1 DEF IInv, TypeOK, Code
  <2>2. QED
    BY <1>1, <1>7, <2>1 DEF IInv, TypeOK
<1>14. SlotsMatch'
  <2>1. SlotMatches(h)
    BY <1>2, <1>6, <1>8, <1>9, <1>10 DEF SlotMatches
  <2>2. QED
    BY <1>11, <2>1 DEF IInv, AccountInv, SlotsMatch
<1>15. TakenOnce' /\ AnsweredOnce'
  <2>1. \A x \in resets : x.row \in Codes /\ codes[x.row].state = "GONE"
    BY DEF IInv, TypeOK, AccountInv, TakenOnce
  <2>2. \A q \in Reqs : req[q].took # None =>
            req[q].took \in Codes /\ codes[req[q].took].state = "GONE"
    BY DEF IInv, TypeOK, Request, AccountInv, TakenOnce
  <2>3. took # None => /\ \A x \in resets : x.row # took
                       /\ \A q \in Reqs : req[q].took # took
    BY <1>6, <2>1, <2>2
  <2>4. TakenOnce'
    BY <1>1, <1>6, <1>8, <1>11, <1>12, <2>1, <2>2, <2>3 DEF IInv, AccountInv, TakenOnce
  <2>5. QED
    BY <1>1, <2>4 DEF IInv, AccountInv, AnsweredOnce
<1>16. CASE ~clean
  BY <1>1, <1>13, <1>14, <1>15, <1>16 DEF IInv, AccountInv, ReadsHold, ToldMatches
<1>17. CASE clean
  <2>1. /\ req[r].user \in Live /\ req[r].ok /\ there
        /\ \A q \in Reqs : req[q].op # "idle" => q = r
        /\ Written(r) => Compare(req[r].password, users[req[r].user].password)
    BY <1>1, <1>2, <1>17 DEF IInv, AccountInv, ReadsHold, there, row
  <2>2. (Written(r)' <=> Written(r)) /\ Live' = Live /\ "consume" \notin h.todo
    BY <1>1, <1>2, <1>8, <1>9, <1>11 DEF Written, Live
  <2>3. ReadsHold'
    BY <1>1, <1>8, <1>10, <1>11, <2>1, <2>2 DEF ReadsHold, Written
  <2>4. \A q \in Reqs : (Written(q)' <=> Written(q)) /\ req'[q].user = req[q].user
    BY <1>8, <1>11, <2>2 DEF Written
  <2>5. ToldMatches'
    BY <1>1, <2>2, <2>4 DEF IInv, AccountInv, ToldMatches
  <2>6. QED
    BY <1>13, <1>14, <1>15, <2>3, <2>5 DEF IInv, AccountInv
<1>18. QED
  BY <1>16, <1>17

\* A code that expires is there all the same.
LEMMA ExpireCodeStep ==
  ASSUME IInv, NEW c \in Codes, ExpireCode(c)
  PROVE  IInv'
<1>1. /\ UNCHANGED <<users, req, started, told, resets, clean, tokens>>
      /\ codes' = [codes EXCEPT ![c].expired = TRUE]
  BY DEF ExpireCode
<1>2. /\ codes' \in [Codes -> Code]
      /\ \A d \in Codes : /\ codes'[d].state = codes[d].state /\ codes'[d].email = codes[d].email
                          /\ codes'[d].otp = codes[d].otp /\ codes'[d].type = codes[d].type
  BY <1>1 DEF IInv, TypeOK, Code
<1>3. TypeOK'
  BY <1>1, <1>2 DEF IInv, TypeOK
<1>4. SlotsMatch' /\ AnsweredOnce'
  BY <1>1 DEF IInv, AccountInv, SlotsMatch, AnsweredOnce
<1>5. TakenOnce'
  <2>1. \A x \in resets : x.row \in Codes
    BY DEF IInv, TypeOK
  <2>2. \A q \in Reqs : req[q].took # None => req[q].took \in Codes
    BY DEF IInv, TypeOK, Request
  <2>3. QED
    BY <1>1, <1>2, <2>1, <2>2 DEF IInv, AccountInv, TakenOnce
<1>6. \A e \in Emails \cup {None}, o \in Otps \cup {None} :
         CodeRow(e, o, "FORGOT_PASSWORD")' = CodeRow(e, o, "FORGOT_PASSWORD")
  BY <1>2 DEF CodeRow
<1>7. \A q \in Reqs : req[q].email \in Emails \cup {None} /\ req[q].otp \in Otps \cup {None}
  BY DEF IInv, TypeOK, Request
<1>8. ReadsHold'
  BY <1>1, <1>6, <1>7 DEF IInv, AccountInv, ReadsHold, Written, Live
<1>9. ToldMatches'
  BY <1>1 DEF IInv, AccountInv, ToldMatches, Written, Live
<1>10. QED
  BY <1>3, <1>4, <1>5, <1>8, <1>9 DEF IInv, AccountInv

\* A token that is signed leaves accounts, codes and requests alone.
LEMMA TokensStep ==
  ASSUME IInv, NEW u \in Users, users[u].role \in Roles,
         tokens' = [tokens EXCEPT ![u] = @ \cup {users[u].role}],
         UNCHANGED <<users, codes, req, started, told, resets, clean>>
  PROVE  IInv'
<1>1. tokens' \in [Users -> SUBSET Roles]
  BY DEF IInv, TypeOK
<1>2. TypeOK'
  BY <1>1 DEF IInv, TypeOK
<1>3. AccountInv'
  BY DEF IInv, AccountInv, SlotsMatch, TakenOnce, AnsweredOnce, ReadsHold, ToldMatches,
     Written, Live, CodeRow
<1>4. QED
  BY <1>2, <1>3 DEF IInv

-----------------------------------------------------------------------------
(* What holds of every behaviour                                           *)

\* The invariant is inductive.
LEMMA AccountsStep == IInv /\ [Next]_vars => IInv'
<1> SUFFICES ASSUME IInv, [Next]_vars PROVE IInv'
  OBVIOUS
<1>1. ASSUME NEW r \in Reqs, AccountStep(r) PROVE IInv'
  <2>1. CASE \E e \in Emails, role \in Roles, p \in Passwords : MailPassword(r, e, role, p)
    BY <2>1, MailPasswordStep
  <2>2. CASE \E e \in Emails, role \in Roles, p \in Passwords, u \in Users :
               ReadTarget(r, u, "update", e, role, p)
    BY <2>2, ReadTargetStep
  <2>3. CASE \E u \in Users : ReadTarget(r, u, "delete", None, None, None)
    BY <2>3, ReadTargetStep
  <2>4. CASE \E u \in Users, old, p \in Passwords : CompareOld(r, u, old, p)
    BY <2>4, CompareOldStep
  <2>5. CASE InsertUser(r) \/ UpdateUser(r) \/ DeleteUser(r) \/ WriteChanged(r)
    BY <2>5, InsertUserStep, UpdateUserStep, DeleteUserStep, WriteChangedStep
  <2>6. QED
    BY <1>1, <2>1, <2>2, <2>3, <2>4, <2>5 DEF AccountStep
<1>2. ASSUME NEW r \in Reqs, CodeStep(r) PROVE IInv'
  <2>1. CASE \E e \in Emails, type \in {"REGISTER", "FORGOT_PASSWORD"} : CheckEmail(r, e, type)
    BY <2>1, CheckEmailStep
  <2>2. CASE \E e \in Emails, o \in Otps, p \in Passwords : FindForgetful(r, e, o, p)
    BY <2>2, FindForgetfulStep
  <2>3. CASE UpsertCode(r) \/ ValidateCode(r) \/ WriteReset(r) \/ ConsumeCode(r) \/ AnswerReset(r)
    BY <2>3, UpsertCodeStep, ValidateCodeStep, WriteResetStep, ConsumeCodeStep, AnswerResetStep
  <2>4. QED
    BY <1>2, <2>1, <2>2, <2>3 DEF CodeStep
<1>3. CASE UNCHANGED vars
  BY <1>3 DEF vars, IInv, TypeOK, AccountInv, SlotsMatch, TakenOnce, AnsweredOnce, ReadsHold,
     ToldMatches, Written, Live, CodeRow
<1>4. ASSUME NEW u \in Users, Refresh(u) PROVE IInv'
  <2>1. users[u].role \in Roles
    BY DEF IInv, TypeOK, User
  <2>2. QED
    BY <1>4, <2>1, TokensStep DEF Refresh
<1>5. ASSUME NEW e \in Emails, NEW p \in Passwords, Login(e, p) PROVE IInv'
  <2>1. PICK u \in FindUser(e) : tokens' = [tokens EXCEPT ![u] = @ \cup {users[u].role}]
    BY <1>5 DEF Login
  <2>2. u \in Users /\ users[u].role \in Roles
    BY DEF FindUser, Live, IInv, TypeOK, User
  <2>3. QED
    BY <1>5, <2>1, <2>2, TokensStep DEF Login
<1>6. QED
  BY <1>1, <1>2, <1>3, <1>4, <1>5, StopStep, ExpireCodeStep DEF Next

LEMMA Inductive == Spec => []IInv
  BY InitAccounts, AccountsStep, PTL DEF Spec

\* Accounts, codes and requests keep their types, for any number of each.
THEOREM TypeCorrect == Spec => []TypeOK
<1>1. IInv => TypeOK
  BY DEF IInv
<1>2. QED
  BY <1>1, Inductive, PTL

\* However many forgotPassword requests use a code at once, and in whatever order they
\* write the password and remove the code, each that is answered OK has removed a row that
\* no other has.
THEOREM CodesAnsweredOnce == Spec => []AnsweredOnce
<1>1. IInv => AnsweredOnce
  BY DEF IInv, AccountInv
<1>2. QED
  BY <1>1, Inductive, PTL

\* As long as requests neither overlap nor stop half-way, whoever shares the e-mail address
\* of their account with no other gets in with it and the password they were last told.
THEOREM ToldPasswordsWork == Spec => []ToldPasswordWorks
<1>1. IInv => ToldPasswordWorks
  <2> SUFFICES ASSUME IInv, clean, Quiet, NEW u \in Live, told[u] # None
               PROVE  u \in FindUser(users[u].email) /\ Compare(told[u], users[u].password)
    BY DEF ToldPasswordWorks
  <2>1. \A r \in Reqs : ~Written(r)
    BY DEF Quiet, Written
  <2>2. u \in FindUser(users[u].email)
    BY DEF FindUser
  <2>3. QED
    BY <2>1, <2>2 DEF IInv, AccountInv, ToldMatches
<1>2. QED
  BY <1>1, Inductive, PTL

\* A step of one slot leaves the others' requests alone.
LEMMA OtherSlots ==
  ASSUME TypeOK, NEW q \in Reqs, NEW r \in Reqs, q # r,
         AccountStep(q) \/ CodeStep(q) \/ Stop(q)
  PROVE  req'[r] = req[r]
<1>1. ASSUME NEW s, req' = [req EXCEPT ![q] = s] PROVE req'[r] = req[r]
  BY <1>1 DEF TypeOK
<1>2. ASSUME NEW s, Begin(q, s) PROVE req'[r] = req[r]
  BY <1>1, <1>2 DEF Begin
<1>3. CASE AccountStep(q)
  BY <1>1, <1>2, <1>3 DEF AccountStep, MailPassword, ReadTarget, CompareOld, InsertUser,
     UpdateUser, DeleteUser, WriteChanged, End
<1>4. CASE Stop(q)
  BY <1>1, <1>4 DEF Stop, End
<1>5. CASE CodeStep(q)
  <2>1. CASE \E e \in Emails : \/ \E type \in {"REGISTER", "FORGOT_PASSWORD"} : CheckEmail(q, e, type)
                               \/ \E o \in Otps, p \in Passwords : FindForgetful(q, e, o, p)
    BY <1>2, <2>1 DEF CheckEmail, FindForgetful
  <2>2. CASE UpsertCode(q) \/ AnswerReset(q)
    BY <1>1, <2>2 DEF UpsertCode, AnswerReset, End
  <2>3. CASE ValidateCode(q) \/ WriteReset(q) \/ ConsumeCode(q)
    BY <2>3 DEF ValidateCode, WriteReset, ConsumeCode, TypeOK
  <2>4. QED
    BY <1>5, <2>1, <2>2, <2>3 DEF CodeStep
<1>6. QED
  BY <1>3, <1>4, <1>5

\* Requests whose token does not name the admin role leave the accounts that have it alone:
\* what verifyRole has read is still so when the request writes, if requests do not overlap.
THEOREM AdminsAreSafe == Spec => AdminsChangedByAdmins
<1> DEFINE Spared == \A r \in Reqs :
       clean /\ req[r].op \in {"update", "delete"} /\ ~req[r].byAdmin /\ req'[r].op = "idle" =>
          \A u \in Users : users[u].role = AdminRole => users'[u] = users[u]
<1>1. IInv /\ [Next]_vars => [Spared]_vars
  <2> SUFFICES ASSUME IInv, Next, NEW r \in Reqs, clean, req[r].op \in {"update", "delete"},
                      ~req[r].byAdmin, req'[r].op = "idle",
                      NEW u \in Users, users[u].role = AdminRole
               PROVE  users'[u] = users[u]
    OBVIOUS
  <2>1. u # req[r].user
    BY DEF IInv, AccountInv, ReadsHold, VerifyRole
  <2>2. AccountStep(r) \/ CodeStep(r) \/ Stop(r)
    <3>1. ASSUME NEW c \in Codes, ExpireCode(c) PROVE FALSE
      BY <3>1 DEF ExpireCode
    <3>2. ASSUME NEW v \in Users, Refresh(v) PROVE FALSE
      BY <3>2 DEF Refresh
    <3>3. ASSUME NEW e \in Emails, NEW p \in Passwords, Login(e, p) PROVE FALSE
      BY <3>3 DEF Login
    <3>4. QED
      BY <3>1, <3>2, <3>3, OtherSlots DEF Next, IInv
  <2>3. req[r].todo = {}
    BY DEF IInv, AccountInv, SlotsMatch, SlotMatches
  <2>4. CASE CodeStep(r)
    BY <2>3, <2>4 DEF CodeStep, CheckEmail, FindForgetful, Begin, UpsertCode, ValidateCode,
       WriteReset, ConsumeCode, AnswerReset
  <2>5. CASE AccountStep(r)
    <3>1. UpdateUser(r) \/ DeleteUser(r)
      BY <2>5 DEF AccountStep, MailPassword, ReadTarget, CompareOld, Begin, InsertUser,
         WriteChanged
    <3>2. QED
      BY <2>1, <3>1 DEF UpdateUser, DeleteUser, IInv, TypeOK
  <2>6. CASE Stop(r)
    BY <2>6 DEF Stop
  <2>7. QED
    BY <2>2, <2>4, <2>5, <2>6
<1>2. QED
  BY <1>1, Inductive, PTL DEF Spec, AdminsChangedByAdmins
=============================================================================
