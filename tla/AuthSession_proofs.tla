------------------------- MODULE AuthSession_proofs -------------------------
(***************************************************************************)
(* Proofs about AuthSession, for any number of devices, tokens and         *)
(* requests in flight.                                                     *)
(***************************************************************************)
EXTENDS AuthSession, TLAPS

IInv == TypeOK /\ SessionInv

\* Nothing is signed at first.
LEMMA InitSession == Init => IInv
<1> SUFFICES ASSUME Init PROVE IInv
  OBVIOUS
<1> USE NoneAssumption DEF Init, Idle, Unsigned
<1>1. TypeOK
  BY DEF TypeOK, Request
<1>2. SlotsMatch
  BY DEF SlotsMatch, SlotMatches
<1>3. TokensMatch /\ SessionsMatch
  BY DEF TokensMatch, SessionsMatch, Signed, HasSession
<1>4. OneLiveTokenPerDevice /\ ExchangedOnce /\ LoggedOutIsOut
  BY DEF OneLiveTokenPerDevice, ExchangedOnce, LoggedOutIsOut, Live
<1>5. QED
  BY <1>1, <1>2, <1>3, <1>4 DEF IInv, SessionInv

\* Steps that touch no slot and only take rows away: expiry and the cron job.
LEMMA CleanStep ==
  ASSUME IInv, (\E t \in Tokens : Expire(t)) \/ RemoveExpired
  PROVE  IInv'
<1>1. /\ UNCHANGED <<dev, token, held, req>>
      /\ rows' \subseteq rows /\ expired' \subseteq Tokens
      /\ \A t \in expired' : Signed(t)
  BY DEF IInv, TypeOK, SessionInv, TokensMatch, Expire, RemoveExpired
<1>2. TypeOK'
  BY <1>1 DEF IInv, TypeOK
<1>3. SlotsMatch'
  BY <1>1 DEF IInv, SessionInv, SlotsMatch, SlotMatches
<1>4. TokensMatch'
  BY <1>1 DEF IInv, SessionInv, TokensMatch, Signed
<1>5. SessionsMatch'
  BY <1>1 DEF IInv, SessionInv, SessionsMatch, HasSession, Live
<1>6. (OneLiveTokenPerDevice /\ ExchangedOnce /\ LoggedOutIsOut)'
  BY <1>1 DEF IInv, SessionInv, OneLiveTokenPerDevice, ExchangedOnce, LoggedOutIsOut, Live
<1>7. QED
  BY <1>2, <1>3, <1>4, <1>5, <1>6 DEF IInv, SessionInv

\* A slot given up, at the end of a request or half-way, leaves the rest as it is.
LEMMA IdleStep ==
  ASSUME IInv, NEW r \in Reqs, req' = [req EXCEPT ![r] = Idle],
         UNCHANGED <<dev, token, rows, expired, held>>
  PROVE  IInv'
<1>1. /\ Idle \in Request
      /\ req'[r].op = "idle" /\ req'[r].todo = {} /\ req'[r].old = None /\ req'[r].new = None
      /\ \A q \in Reqs : q # r => req'[q] = req[q]
  BY DEF IInv, TypeOK, Idle, Request
<1>2. TypeOK'
  BY <1>1 DEF IInv, TypeOK
<1>3. SlotsMatch'
  BY <1>1 DEF IInv, SessionInv, SlotsMatch, SlotMatches
<1>4. TokensMatch'
  BY <1>1 DEF IInv, SessionInv, TokensMatch, Signed
<1>5. SessionsMatch'
  BY <1>1 DEF IInv, SessionInv, SessionsMatch, HasSession, Live
<1>6. (OneLiveTokenPerDevice /\ ExchangedOnce /\ LoggedOutIsOut)'
  BY <1>1 DEF IInv, SessionInv, OneLiveTokenPerDevice, ExchangedOnce, LoggedOutIsOut, Live
<1>7. QED
  BY <1>2, <1>3, <1>4, <1>5, <1>6 DEF IInv, SessionInv

\* A login starts on a device nothing refers to yet.
LEMMA LoginStep ==
  ASSUME IInv, NEW r \in Reqs, NEW d \in Devices, Login(r, d)
  PROVE  IInv'
<1>1. /\ dev[d] = "NONE" /\ dev' = [dev EXCEPT ![d] = "ACTIVE"]
      /\ req[r].op = "idle"
      /\ UNCHANGED <<token, rows, expired, held>>
  BY DEF Login
<1>2. /\ req'[r].op = "issue" /\ req'[r].device = d /\ req'[r].old = None
      /\ req'[r].new = None /\ req'[r].todo = {"insert"} /\ req'[r].ok = TRUE
      /\ \A q \in Reqs : q # r => req'[q] = req[q]
  BY DEF Login, IInv, TypeOK
<1>3. TypeOK'
  BY <1>1 DEF Login, IInv, TypeOK, Request
<1>4. SlotsMatch'
  BY <1>1, <1>2 DEF IInv, TypeOK, SessionInv, SlotsMatch, SlotMatches
<1>5. \A t \in Tokens : Signed(t) => token[t].device # d
  BY <1>1 DEF IInv, SessionInv, TokensMatch
<1>6. \A t \in rows \cup held \cup expired : t \in Tokens /\ Signed(t)
  BY DEF IInv, TypeOK, SessionInv, TokensMatch
<1>7. \A q \in Reqs : q # r /\ HasSession(q) => req[q].device \in Devices \ {d}
  BY <1>1 DEF IInv, SessionInv, SlotsMatch, SlotMatches, HasSession
<1>8. TokensMatch'
  BY <1>1, <1>5, <1>6 DEF IInv, TypeOK, SessionInv, TokensMatch, Signed
<1>9. SessionsMatch'
  BY <1>1, <1>2, <1>5, <1>6, <1>7 DEF IInv, TypeOK, SessionInv, SessionsMatch, HasSession, Live
<1>10. (OneLiveTokenPerDevice /\ ExchangedOnce /\ LoggedOutIsOut)'
  BY <1>1, <1>5, <1>6
     DEF IInv, TypeOK, SessionInv, OneLiveTokenPerDevice, ExchangedOnce, LoggedOutIsOut, Live
<1>11. QED
  BY <1>3, <1>4, <1>8, <1>9, <1>10 DEF IInv, SessionInv

\* A refresh that has found its token holds no session yet.
LEMMA ReadTokenStep ==
  ASSUME IInv, NEW r \in Reqs, NEW t \in Tokens, ReadToken(r, t)
  PROVE  IInv'
<1>1. /\ t \in held /\ t \in rows /\ req[r].op = "idle"
      /\ UNCHANGED <<dev, token, rows, expired, held>>
  BY DEF ReadToken
<1>2. /\ req'[r].op = "issue" /\ req'[r].device = token[t].device /\ req'[r].old = t
      /\ req'[r].new = None /\ req'[r].todo = {"delete", "insert"} /\ req'[r].ok = TRUE
      /\ \A q \in Reqs : q # r => req'[q] = req[q]
  BY DEF ReadToken, IInv, TypeOK
<1>3. token[t].device \in Devices /\ dev[token[t].device] # "NONE"
  BY <1>1 DEF IInv, TypeOK, SessionInv, TokensMatch, Signed
<1>4. TypeOK'
  BY <1>1, <1>3 DEF ReadToken, IInv, TypeOK, Request
<1>5. SlotsMatch'
  BY <1>1, <1>2, <1>3, NoneAssumption DEF IInv, SessionInv, SlotsMatch, SlotMatches
<1>6. TokensMatch'
  BY <1>1 DEF IInv, SessionInv, TokensMatch, Signed
<1>7. SessionsMatch'
  BY <1>1, <1>2 DEF IInv, SessionInv, SessionsMatch, HasSession, Live
<1>8. (OneLiveTokenPerDevice /\ ExchangedOnce /\ LoggedOutIsOut)'
  BY <1>1 DEF IInv, SessionInv, OneLiveTokenPerDevice, ExchangedOnce, LoggedOutIsOut, Live
<1>9. QED
  BY <1>4, <1>5, <1>6, <1>7, <1>8 DEF IInv, SessionInv

\* The request that deletes the row itself takes the session: its token was the only
\* live one of the device, and nobody else had the session in hand.
LEMMA DeleteOldStep ==
  ASSUME IInv, NEW r \in Reqs, DeleteOld(r)
  PROVE  IInv'
<1> DEFINE o == req[r].old
<1>1. /\ "delete" \in req[r].todo /\ rows' = rows \ {o}
      /\ UNCHANGED <<dev, token, expired, held>>
  BY DEF DeleteOld
<1>2. /\ req'[r].op = req[r].op /\ req'[r].device = req[r].device /\ req'[r].old = o
      /\ req'[r].new = req[r].new /\ req'[r].todo = req[r].todo \ {"delete"}
      /\ req'[r].ok = (o \in rows)
      /\ \A q \in Reqs : q # r => req'[q] = req[q]
  BY DEF DeleteOld, IInv, TypeOK, Request
<1>3. /\ req[r].op = "issue" /\ o \in held /\ token[o].device = req[r].device
      /\ req[r].device \in Devices /\ o # None
  BY <1>1, NoneAssumption
     DEF IInv, TypeOK, Request, SessionInv, SlotsMatch, SlotMatches
<1>4. TypeOK'
  <2>1. req[r] \in Request
    BY DEF IInv, TypeOK
  <2>2. ASSUME NEW h \in Request, NEW b \in BOOLEAN
        PROVE  [h EXCEPT !.todo = @ \ {"delete"}, !.ok = b] \in Request
    BY <2>2 DEF Request
  <2> DEFINE there == req[r].old \in rows
             h == [req[r] EXCEPT !.todo = @ \ {"delete"}, !.ok = there]
  <2>3. req' = [req EXCEPT ![r] = h]
    BY DEF DeleteOld
  <2>4. there \in BOOLEAN
    OBVIOUS
  <2> HIDE DEF there
  <2>5. h \in Request
    BY <2>1, <2>2, <2>4
  <2> HIDE DEF h
  <2>6. QED
    BY <1>1, <2>3, <2>5 DEF IInv, TypeOK
<1>5. SlotsMatch'
  BY <1>1, <1>2 DEF IInv, SessionInv, SlotsMatch, SlotMatches
<1>6. TokensMatch'
  BY <1>1 DEF IInv, SessionInv, TokensMatch, Signed
<1>7. ASSUME o \in rows
      PROVE  /\ dev[req[r].device] # "LOGGED_OUT"
             /\ \A t \in Live : t # o => token[t].device # req[r].device
             /\ \A q \in Reqs : HasSession(q) => req[q].device # req[r].device
             /\ \A t \in held : token[t].from # o
  BY <1>3, <1>7 DEF IInv, SessionInv, TokensMatch, SessionsMatch, OneLiveTokenPerDevice,
     LoggedOutIsOut, Live
<1>8. \A q \in Reqs : q # r => (HasSession(q)' <=> HasSession(q))
  BY <1>2 DEF HasSession
<1>9. HasSession(r)' => o \in rows
  BY <1>2, <1>3 DEF HasSession
<1>10. Live' = Live \ {o}
  BY <1>1 DEF Live
<1> HIDE DEF o
<1>11. SessionsMatch'
  BY <1>1, <1>2, <1>3, <1>7, <1>8, <1>9, <1>10 DEF IInv, SessionInv, SessionsMatch
<1>12. (OneLiveTokenPerDevice /\ ExchangedOnce /\ LoggedOutIsOut)'
  BY <1>1, <1>10 DEF IInv, SessionInv, OneLiveTokenPerDevice, ExchangedOnce, LoggedOutIsOut
<1>13. QED
  BY <1>4, <1>5, <1>6, <1>11, <1>12 DEF IInv, SessionInv

\* A fresh token is nobody's yet: not held, not a successor of anything.
LEMMA InsertNewStep ==
  ASSUME IInv, NEW r \in Reqs, InsertNew(r)
  PROVE  IInv'
<1>1. PICK n \in Tokens :
        /\ ~Signed(n)
        /\ token' = [token EXCEPT ![n] = [device |-> req[r].device, from |-> req[r].old]]
        /\ rows' = rows \cup {n}
        /\ req' = [req EXCEPT ![r].todo = @ \ {"insert"}, ![r].new = n]
  BY DEF InsertNew
<1>2. "insert" \in req[r].todo /\ UNCHANGED <<dev, expired, held>>
  BY DEF InsertNew
<1>3. /\ req'[r].op = req[r].op /\ req'[r].device = req[r].device /\ req'[r].old = req[r].old
      /\ req'[r].new = n /\ req'[r].todo = req[r].todo \ {"insert"}
      /\ req'[r].ok = req[r].ok
      /\ \A q \in Reqs : q # r => req'[q] = req[q]
  BY <1>1 DEF IInv, TypeOK, Request
<1>4. /\ req[r].op = "issue" /\ req[r].device \in Devices /\ dev[req[r].device] # "NONE"
      /\ req[r].new = None
  BY <1>2 DEF IInv, TypeOK, Request, SessionInv, SlotsMatch, SlotMatches
<1>5. \A t \in rows \cup held \cup expired : t \in Tokens /\ Signed(t) /\ t # n
  BY <1>1 DEF IInv, TypeOK, SessionInv, TokensMatch
<1>6. /\ token'[n].device = req[r].device /\ token'[n].from = req[r].old
      /\ \A t \in Tokens : t # n => token'[t] = token[t]
  BY <1>1 DEF IInv, TypeOK
<1>7. \A q \in Reqs : req[q].old # n /\ req[q].new # n
  <2> SUFFICES ASSUME NEW q \in Reqs PROVE req[q].old # n /\ req[q].new # n
    OBVIOUS
  <2>1. SlotMatches(q) /\ req[q] \in Request
    BY DEF IInv, TypeOK, SessionInv, SlotsMatch
  <2>2. req[q].old # n
    BY <2>1, <1>5, NoneAssumption DEF SlotMatches
  <2>3. CASE req[q].op = "issue" /\ "insert" \notin req[q].todo
    BY <2>1, <2>2, <2>3, <1>1, NoneAssumption DEF SlotMatches, Signed
  <2>4. CASE ~(req[q].op = "issue" /\ "insert" \notin req[q].todo)
    BY <2>1, <2>2, <2>4, NoneAssumption DEF SlotMatches
  <2>5. QED
    BY <2>2, <2>3, <2>4
<1>8. TypeOK'
  <2>1. req[r] \in Request
    BY DEF IInv, TypeOK
  <2> DEFINE h == [req[r] EXCEPT !.todo = @ \ {"insert"}, !.new = n]
  <2>2. req' = [req EXCEPT ![r] = h]
    BY <1>1
  <2>3. h \in Request
    BY <2>1 DEF Request
  <2> HIDE DEF h
  <2>4. req' \in [Reqs -> Request]
    BY <2>2, <2>3 DEF IInv, TypeOK
  <2>5. token' \in [Tokens -> [device: Devices \cup {None}, from: Tokens \cup {None}]]
    BY <1>1, <1>4, <2>1 DEF IInv, TypeOK, Request
  <2>6. QED
    BY <1>1, <1>2, <2>4, <2>5 DEF IInv, TypeOK
<1>9. SlotsMatch'
  <2> SUFFICES ASSUME NEW q \in Reqs PROVE SlotMatches(q)'
    BY DEF SlotsMatch
  <2>1. SlotMatches(q) /\ req[q] \in Request /\ req[r] \in Request
    BY DEF IInv, TypeOK, SessionInv, SlotsMatch
  <2>2. CASE q = r
    BY <1>2, <1>3, <1>4, <1>5, <1>6, <1>7, <2>1, <2>2, NoneAssumption
       DEF SlotMatches
  <2>3. CASE q # r
    BY <1>2, <1>3, <1>5, <1>6, <1>7, <2>1, <2>3 DEF SlotMatches
  <2>4. QED
    BY <2>2, <2>3
<1>10. TokensMatch'
  <2>1. \A t \in Tokens : Signed(t)' <=> (Signed(t) \/ t = n)
    BY <1>4, <1>6, NoneAssumption DEF Signed
  <2>2. \A t \in Tokens : t # n => token[t].from # n
    BY <1>1, NoneAssumption DEF IInv, SessionInv, TokensMatch
  <2>3. req[r].old = None \/ (req[r].old \in Tokens /\ Signed(req[r].old))
    BY <1>5 DEF IInv, SessionInv, SlotsMatch, SlotMatches
  <2>4. QED
    BY <1>1, <1>2, <1>4, <1>5, <1>6, <2>1, <2>2, <2>3
       DEF IInv, TypeOK, SessionInv, TokensMatch
<1>11. Live' = Live /\ \A t \in Live : t \in Tokens /\ token'[t] = token[t]
  BY <1>1, <1>2, <1>5, <1>6 DEF Live
<1>12. SessionsMatch'
  <2>1. \A q \in Reqs : HasSession(q)' <=> HasSession(q)
    BY <1>3 DEF HasSession
  <2>2. \A q \in Reqs : req'[q].device = req[q].device /\ req'[q].old = req[q].old
    BY <1>3
  <2>3. \A t \in held : token'[t] = token[t]
    BY <1>5, <1>6
  <2>4. \A q \in Reqs : req[q].old \notin rows => req[q].old \notin rows'
    BY <1>1, <1>7
  <2>5. QED
    BY <1>2, <1>11, <2>1, <2>2, <2>3, <2>4 DEF IInv, SessionInv, SessionsMatch
<1>13. (OneLiveTokenPerDevice /\ ExchangedOnce /\ LoggedOutIsOut)'
  BY <1>2, <1>5, <1>6, <1>11
     DEF IInv, SessionInv, OneLiveTokenPerDevice, ExchangedOnce, LoggedOutIsOut
<1>14. QED
  BY <1>8, <1>9, <1>10, <1>12, <1>13 DEF IInv, SessionInv

\* Answer gives the session back with the new token, or ends a request that has none.
LEMMA AnswerStep ==
  ASSUME IInv, NEW r \in Reqs, Answer(r)
  PROVE  IInv'
<1> DEFINE n == req[r].new
<1>1. /\ req[r].op = "issue" /\ req[r].todo = {}
      /\ req' = [req EXCEPT ![r] = Idle]
      /\ UNCHANGED <<dev, token, rows, expired>>
      /\ held' = IF req[r].ok THEN held \cup {n} ELSE held
  BY DEF Answer
<1>2. CASE ~req[r].ok
  BY <1>1, <1>2, IdleStep
<1>3. CASE req[r].ok
  <2>1. held' = held \cup {n}
    BY <1>1, <1>3
  <2>2. /\ n \in Tokens \ held
        /\ token[n].device = req[r].device /\ token[n].from = req[r].old
        /\ req[r].device \in Devices /\ dev[req[r].device] # "NONE"
        /\ \A q \in Reqs : req[q].new = n => q = r
        /\ req[r].old # None => req[r].old \in held
    BY <1>1, NoneAssumption DEF IInv, SessionInv, SlotsMatch, SlotMatches
  <2>3. HasSession(r)
    BY <1>1, <1>3 DEF HasSession
  <2>4. /\ \A t \in Live : token[t].device # req[r].device
        /\ dev[req[r].device] # "LOGGED_OUT"
        /\ \A q \in Reqs : HasSession(q) /\ req[q].device = req[r].device => q = r
        /\ req[r].old # None =>
              req[r].old \notin rows /\ \A t \in held : token[t].from # req[r].old
    BY <2>3 DEF IInv, SessionInv, SessionsMatch
  <2>5. /\ Idle \in Request
        /\ req'[r].op = "idle" /\ req'[r].todo = {} /\ req'[r].old = None /\ req'[r].new = None
        /\ \A q \in Reqs : q # r => req'[q] = req[q]
    BY <1>1 DEF IInv, TypeOK, Idle, Request
  <2>6. TypeOK'
    BY <1>1, <2>1, <2>2, <2>5 DEF IInv, TypeOK
  <2> HIDE DEF n
  <2>7. SlotsMatch'
    BY <1>1, <2>1, <2>2, <2>5 DEF IInv, SessionInv, SlotsMatch, SlotMatches
  <2>8. Signed(n)
    BY <2>2, NoneAssumption DEF Signed
  <2>9. TokensMatch'
    BY <1>1, <2>1, <2>2, <2>4, <2>8 DEF IInv, SessionInv, TokensMatch, Signed
  <2>10. Live' \subseteq Live \cup {n}
    BY <1>1, <2>1 DEF Live
  <2>11. SessionsMatch'
    <3>1. ~HasSession(r)'
      BY <2>5 DEF HasSession
    <3>2. SUFFICES ASSUME NEW q \in Reqs, q # r, HasSession(q)
                   PROVE  /\ \A t \in Live' : token[t].device # req[q].device
                          /\ dev[req[q].device] # "LOGGED_OUT"
                          /\ \A s \in Reqs : s # r /\ HasSession(s)
                                /\ req[s].device = req[q].device => s = q
                          /\ req[q].old # None =>
                                /\ req[q].old \notin rows
                                /\ \A t \in held' : token[t].from # req[q].old
      BY <1>1, <2>5, <3>1 DEF SessionsMatch, HasSession
    <3>3. /\ \A t \in Live : token[t].device # req[q].device
          /\ dev[req[q].device] # "LOGGED_OUT"
          /\ \A s \in Reqs : HasSession(s) /\ req[s].device = req[q].device => s = q
          /\ req[q].old # None =>
                /\ req[q].old \notin rows
                /\ \A t \in held : token[t].from # req[q].old
      BY <3>2 DEF IInv, SessionInv, SessionsMatch
    <3>4. req[q].device # req[r].device
      BY <2>3, <3>2, <3>3
    <3>5. req[q].old # None => token[req[q].old].device = req[q].device
      BY DEF IInv, SessionInv, SlotsMatch, SlotMatches
    <3>6. req[r].old # None => token[req[r].old].device = req[r].device
      BY DEF IInv, SessionInv, SlotsMatch, SlotMatches
    <3>7. req[q].old # None => token[n].from # req[q].old
      BY <2>2, <3>4, <3>5, <3>6
    <3>8. QED
      BY <2>1, <2>2, <2>10, <3>3, <3>4, <3>7
  <2>12. (OneLiveTokenPerDevice /\ ExchangedOnce /\ LoggedOutIsOut)'
    <3>1. OneLiveTokenPerDevice'
      BY <1>1, <2>2, <2>4, <2>10 DEF IInv, SessionInv, OneLiveTokenPerDevice
    <3>2. ExchangedOnce'
      BY <1>1, <2>1, <2>2, <2>4 DEF IInv, SessionInv, ExchangedOnce
    <3>3. LoggedOutIsOut'
      BY <1>1, <2>2, <2>4, <2>10 DEF IInv, SessionInv, LoggedOutIsOut
    <3>4. QED
      BY <3>1, <3>2, <3>3
  <2>13. QED
    BY <2>6, <2>7, <2>9, <2>11, <2>12 DEF IInv, SessionInv
<1>4. QED
  BY <1>2, <1>3

\* A logout that deletes its token's row takes the session for good.
LEMMA LogoutStep ==
  ASSUME IInv, NEW r \in Reqs, NEW t \in Tokens, Logout(r, t)
  PROVE  IInv'
<1>1. /\ t \in Live /\ req[r].op = "idle" /\ rows' = rows \ {t}
      /\ UNCHANGED <<dev, token, expired, held>>
  BY DEF Logout, Live
<1>2. /\ req'[r].op = "logout" /\ req'[r].device = token[t].device /\ req'[r].old = None
      /\ req'[r].new = None /\ req'[r].todo = {}
      /\ \A q \in Reqs : q # r => req'[q] = req[q]
  BY DEF Logout, IInv, TypeOK, Idle
<1>3. token[t].device \in Devices /\ dev[token[t].device] # "NONE"
  BY <1>1 DEF Live, IInv, TypeOK, SessionInv, TokensMatch, Signed
<1>4. TypeOK'
  BY <1>1, <1>3 DEF Logout, IInv, TypeOK, Request, Idle
<1>5. SlotsMatch'
  BY <1>1, <1>2, <1>3, NoneAssumption DEF IInv, SessionInv, SlotsMatch, SlotMatches
<1>6. TokensMatch'
  BY <1>1 DEF IInv, SessionInv, TokensMatch, Signed
<1>7. /\ dev[token[t].device] # "LOGGED_OUT"
      /\ \A u \in Live : u # t => token[u].device # token[t].device
      /\ \A q \in Reqs : HasSession(q) => req[q].device # token[t].device
  BY <1>1 DEF IInv, SessionInv, SessionsMatch, OneLiveTokenPerDevice, LoggedOutIsOut
<1>8. Live' = Live \ {t}
  BY <1>1 DEF Live
<1>9. \A q \in Reqs : q # r => (HasSession(q)' <=> HasSession(q))
  BY <1>2 DEF HasSession
<1>10. SessionsMatch'
  BY <1>1, <1>2, <1>7, <1>8, <1>9 DEF IInv, SessionInv, SessionsMatch
<1>11. (OneLiveTokenPerDevice /\ ExchangedOnce /\ LoggedOutIsOut)'
  BY <1>1, <1>8 DEF IInv, SessionInv, OneLiveTokenPerDevice, ExchangedOnce, LoggedOutIsOut
<1>12. QED
  BY <1>4, <1>5, <1>6, <1>10, <1>11 DEF IInv, SessionInv

\* The device marked is one whose session the logout holds: no live token is its.
LEMMA MarkLoggedOutStep ==
  ASSUME IInv, NEW r \in Reqs, MarkLoggedOut(r)
  PROVE  IInv'
<1> DEFINE d == req[r].device
<1>1. /\ req[r].op = "logout" /\ dev' = [dev EXCEPT ![d] = "LOGGED_OUT"]
      /\ req' = [req EXCEPT ![r] = Idle]
      /\ UNCHANGED <<token, rows, expired, held>>
  BY DEF MarkLoggedOut
<1>2. /\ Idle \in Request
      /\ req'[r].op = "idle" /\ req'[r].todo = {} /\ req'[r].old = None /\ req'[r].new = None
      /\ \A q \in Reqs : q # r => req'[q] = req[q]
  BY <1>1 DEF IInv, TypeOK, Idle, Request
<1>3. /\ \A t \in Live : token[t].device # d
      /\ \A q \in Reqs : HasSession(q) /\ req[q].device = d => q = r
  BY <1>1 DEF IInv, SessionInv, SessionsMatch, HasSession
<1> HIDE DEF d
<1>4. TypeOK'
  BY <1>1, <1>2 DEF IInv, TypeOK
<1>5. \A e \in Devices : dev'[e] = IF e = d THEN "LOGGED_OUT" ELSE dev[e]
  BY <1>1 DEF IInv, TypeOK
<1>6. SlotsMatch'
  BY <1>1, <1>2, <1>5 DEF IInv, SessionInv, SlotsMatch, SlotMatches
<1>7. \A t \in Tokens : Signed(t) => token[t].device \in Devices
  BY DEF IInv, TypeOK, Signed
<1>8. TokensMatch'
  BY <1>1, <1>5, <1>7 DEF IInv, TypeOK, SessionInv, TokensMatch, Signed
<1>9. \A q \in Reqs : HasSession(q)' => q # r /\ HasSession(q) /\ req[q].device \in Devices
  BY <1>2 DEF HasSession, IInv, SessionInv, SlotsMatch, SlotMatches
<1>10. SessionsMatch'
  BY <1>1, <1>2, <1>3, <1>5, <1>9 DEF IInv, SessionInv, SessionsMatch, Live
<1>11. \A t \in Live : token[t].device \in Devices
  BY <1>7 DEF Live, IInv, TypeOK, SessionInv, TokensMatch
<1>12. (OneLiveTokenPerDevice /\ ExchangedOnce /\ LoggedOutIsOut)'
  BY <1>1, <1>3, <1>5, <1>11
     DEF IInv, SessionInv, OneLiveTokenPerDevice, ExchangedOnce, LoggedOutIsOut, Live
<1>13. QED
  BY <1>4, <1>6, <1>8, <1>10, <1>12 DEF IInv, SessionInv

\* The invariant is inductive.
LEMMA SessionStep == IInv /\ [Next]_vars => IInv'
<1> SUFFICES ASSUME IInv, [Next]_vars PROVE IInv'
  OBVIOUS
<1>1. ASSUME NEW r \in Reqs, Handle(r) PROVE IInv'
  <2>1. CASE Fail(r)
    BY <2>1, IdleStep DEF Fail
  <2>2. CASE \E t \in Tokens : ReadToken(r, t) \/ Logout(r, t)
    BY <2>2, ReadTokenStep, LogoutStep
  <2>3. QED
    BY <1>1, <2>1, <2>2, LoginStep, DeleteOldStep, InsertNewStep, AnswerStep,
       MarkLoggedOutStep DEF Handle
<1>2. CASE (\E t \in Tokens : Expire(t)) \/ RemoveExpired
  BY <1>2, CleanStep
<1>3. CASE UNCHANGED vars
  BY <1>3 DEF vars, IInv, TypeOK, SessionInv, SlotsMatch, SlotMatches, TokensMatch,
     SessionsMatch, HasSession, Signed, OneLiveTokenPerDevice, ExchangedOnce,
     LoggedOutIsOut, Live
<1>4. QED
  BY <1>1, <1>2, <1>3 DEF Next

LEMMA Inductive == Spec => []IInv
  BY InitSession, SessionStep, PTL DEF Spec

\* Rows, tokens and slots keep their types, for any number of each.
THEOREM TypeCorrect == Spec => []TypeOK
<1>1. IInv => TypeOK
  BY DEF IInv
<1>2. QED
  BY <1>1, Inductive, PTL

\* However many requests refresh or end a session at once, and whichever of their calls
\* fail, one token at most goes on with it (refreshToken of auth.service).
THEOREM OneTokenGoesOn == Spec => []OneLiveTokenPerDevice
<1>1. IInv => OneLiveTokenPerDevice
  BY DEF IInv, SessionInv
<1>2. QED
  BY <1>1, Inductive, PTL

\* No two requests that exchange the same token are both answered with a new one.
THEOREM TokensExchangedOnce == Spec => []ExchangedOnce
<1>1. IInv => ExchangedOnce
  BY DEF IInv, SessionInv
<1>2. QED
  BY <1>1, Inductive, PTL

\* After the device is marked logged out no usable token is left of it, whatever was under
\* way when logout began.
THEOREM LogoutIsFinal == Spec => []LoggedOutIsOut
<1>1. IInv => LoggedOutIsOut
  BY DEF IInv, SessionInv
<1>2. QED
  BY <1>1, Inductive, PTL
=============================================================================
