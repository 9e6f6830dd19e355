------------------------- MODULE BillPayment_proofs -------------------------
(***************************************************************************)
(* Proofs about BillPayment, for any number of bills, payments, handlers   *)
(* in flight and failures.                                                 *)
(***************************************************************************)
EXTENDS BillPayment, TLAPS

\* Abbreviations, expanded throughout.
USE DEF db, told

\* The rows of a fresh day satisfy the invariant: bills PENDING, nothing paid.
LEMMA InitBacked == Init => TypeOK /\ BackedInv
<1> SUFFICES ASSUME Init PROVE TypeOK /\ BackedInv
  OBVIOUS
<1> USE FailuresAssumption, NoneAssumption
<1>1. TypeOK
  BY DEF Init, TypeOK, BillStatus, PaymentMethod, PaymentStatus, TableStatus, LinkStatus,
         Notice, NoRow, Payment, Handler, Idle
<1>2. RowsMatch
  BY DEF Init, RowsMatch, Exists, NoRow
<1>3. /\ NoticesMatch /\ HearsayMatches /\ PaidBillIsBacked /\ PaidPaymentIsBacked
      /\ CancelledPaymentIsDead
  BY DEF Init, NoticesMatch, HearsayMatches, PaidBillIsBacked, PaidPaymentIsBacked,
         CancelledPaymentIsDead, NoRow
<1>4. HandlersMatch /\ InsertsMatch
  BY DEF Init, HandlersMatch, SlotMatches, InsertsMatch, Idle
<1>5. QED
  BY <1>1, <1>2, <1>3, <1>4 DEF BackedInv

\* Bills stay backed when none becomes PAID and no payment loses what backs it.
LEMMA BillsStayBacked ==
  ASSUME BackedInv,
         \A b \in Bills : bill'[b].status = "PAID" => bill[b] = bill'[b],
         \A p \in Pays : Exists(p) /\ Backed(p) =>
            pay'[p].bill = pay[p].bill /\ pay'[p].method = pay[p].method /\ Backed(p)'
  PROVE  PaidBillIsBacked'
<1>1. SUFFICES ASSUME NEW b \in Bills, bill'[b].status = "PAID"
               PROVE  \E p \in Pays : /\ pay'[p].bill = b
                                      /\ pay'[p].method = bill'[b].method
                                      /\ Backed(p)'
  BY DEF PaidBillIsBacked
<1>2. PICK p \in Pays : pay[p].bill = b /\ pay[p].method = bill[b].method /\ Backed(p)
  BY <1>1 DEF BackedInv, PaidBillIsBacked
<1>3. Exists(p)
  BY <1>2 DEF BackedInv, RowsMatch
<1>4. QED
  BY <1>1, <1>2, <1>3

\* What is said against a link is said of a transfer.
LEMMA HearsayIsOfTransfers ==
  ASSUME BackedInv, NEW p, NEW s, SaidOnly(p, s)
  PROVE  pay[p].method = "BANK_TRANSFER"
<1> DEFINE n == [pay |-> p, result |-> s]
<1>1. n \in hearsay /\ n.pay = p
  BY DEF SaidOnly
<1> HIDE DEF n
<1>2. QED
  BY <1>1 DEF BackedInv, HearsayMatches

\* What backs a payment, and what is said of it, stays when rows and hearsay are kept and
\* its link does not leave PAID.
LEMMA BackingKept ==
  ASSUME NEW p \in Pays, pay'[p].method = pay[p].method, link[p] = "PAID" => link'[p] = "PAID",
         hearsay \subseteq hearsay'
  PROVE  /\ Backed(p) => Backed(p)'
         /\ \A s : SaidOnly(p, s) => SaidOnly(p, s)'
BY DEF Backed, Collected, SaidOnly

\* A step that changes nothing but one slot and what has been said, and leaves the slot in
\* a state that matches the rows, keeps the invariant: nothing else is said about a slot,
\* and more hearsay only excuses more.
LEMMA SlotStep ==
  ASSUME TypeOK, BackedInv, NEW r \in Reqs, NEW h \in Handler,
         SlotMatches(h)', h.at # "insert",
         req' = [req EXCEPT ![r] = h],
         UNCHANGED <<bill, orders, tables, pay, link, notices>>,
         acked' \subseteq Pays, hearsay \subseteq hearsay', hearsay' \subseteq Notice,
         HearsayMatches', failures' \in 0..MaxFailures
  PROVE  TypeOK' /\ BackedInv'
<1>1. TypeOK'
  BY DEF TypeOK
<1>2. RowsMatch' /\ NoticesMatch'
  BY DEF BackedInv, RowsMatch, NoticesMatch, Exists, LinkSays
<1>3. \A p \in Pays : /\ Backed(p) => Backed(p)'
                      /\ \A x : SaidOnly(p, x) => SaidOnly(p, x)'
  BY BackingKept
<1>4. PaidPaymentIsBacked' /\ CancelledPaymentIsDead'
  BY <1>3 DEF BackedInv, PaidPaymentIsBacked, CancelledPaymentIsDead
<1>5. PaidBillIsBacked'
  BY <1>3, BillsStayBacked
<1>6. HandlersMatch'
  <2>1. ASSUME NEW s \in Reqs PROVE SlotMatches(req[s])'
    <3>1. CASE s = r
      BY <3>1 DEF TypeOK
    <3>2. CASE s # r
      <4>1. req'[s] = req[s] /\ SlotMatches(req[s])
        BY <3>2 DEF TypeOK, BackedInv, HandlersMatch
      <4>2. QED
        BY <1>3, <4>1 DEF SlotMatches, Exists, LinkSays
    <3>3. QED
      BY <3>1, <3>2
  <2>2. QED
    BY <2>1 DEF HandlersMatch
<1>7. InsertsMatch'
  BY DEF TypeOK, BackedInv, InsertsMatch, Exists
<1>8. QED
  BY <1>1, <1>2, <1>4, <1>5, <1>6, <1>7 DEF BackedInv

\* What a slot matches does not change while rows, links and hearsay do not.
LEMMA QuietSlot ==
  ASSUME NEW h, SlotMatches(h), UNCHANGED <<pay, link, hearsay>>
  PROVE  SlotMatches(h)'
BY DEF SlotMatches, Exists, Backed, Collected, SaidOnly, LinkSays

\* And nobody has to be told of it.
LEMMA QuietStep ==
  ASSUME TypeOK, BackedInv, NEW r \in Reqs, NEW h \in Handler,
         SlotMatches(h), h.at # "insert",
         req' = [req EXCEPT ![r] = h],
         UNCHANGED <<bill, orders, tables, pay, link, notices, acked, hearsay>>,
         failures' \in 0..MaxFailures
  PROVE  TypeOK' /\ BackedInv'
<1>1. SlotMatches(h)'
  BY QuietSlot
<1>2. HearsayMatches'
  BY DEF BackedInv, HearsayMatches
<1>3. QED
  BY <1>1, <1>2, SlotStep DEF TypeOK

\* A handler that has ended says nothing about any row.
LEMMA IdleSlot == Idle \in Handler /\ SlotMatches(Idle) /\ Idle.at # "insert"
  BY DEF Idle, Handler, SlotMatches

\* A decision taken from a redirect rests on the link, or on hearsay from then on.
LEMMA RedirectStep ==
  ASSUME TypeOK, BackedInv, NEW r \in Reqs, NEW n \in Notice, TakeRedirect(r, n)
  PROVE  TypeOK' /\ BackedInv'
<1> DEFINE h == [OnPay(n.pay, "mark", n.result) EXCEPT !.op = "none"]
<1>1. /\ n.pay \in Pays /\ n.result \in {"PAID", "FAILED", "CANCELLED"}
      /\ n = [pay |-> n.pay, result |-> n.result]
      /\ pay[n.pay].method = "BANK_TRANSFER"
  BY DEF Notice, TakeRedirect
<1>2. /\ h \in Handler /\ h.at = "mark" /\ h.pay = n.pay /\ h.to = n.result
  BY <1>1 DEF OnPay, Idle, Handler, PaymentStatus
<1>3. /\ req' = [req EXCEPT ![r] = h]
      /\ UNCHANGED <<bill, orders, tables, pay, link, notices, acked, failures>>
      /\ hearsay' = IF LinkSays(n.pay, n.result) THEN hearsay ELSE hearsay \cup {n}
  BY DEF TakeRedirect, Decide
<1> HIDE DEF h
<1>4. SlotMatches(h)'
  <2>1. LinkSays(n.pay, n.result)' <=> LinkSays(n.pay, n.result)
    BY <1>3 DEF LinkSays
  <2>2. QED
    BY <1>1, <1>2, <1>3, <2>1 DEF SlotMatches, SaidOnly
<1>5. /\ hearsay \subseteq hearsay' /\ hearsay' \subseteq Notice /\ HearsayMatches'
      /\ acked' \subseteq Pays /\ failures' \in 0..MaxFailures
  BY <1>1, <1>3 DEF TypeOK, BackedInv, HearsayMatches
<1>6. QED
  BY <1>2, <1>3, <1>4, <1>5, SlotStep

\* A webhook says what the link does; one that finds the row PAID is only answered.
LEMMA WebhookStep ==
  ASSUME TypeOK, BackedInv, NEW r \in Reqs, NEW n \in Notice, HandlePayOSWebhook(r, n)
  PROVE  TypeOK' /\ BackedInv'
<1>1. /\ n.pay \in Pays /\ n.result \in {"PAID", "FAILED", "CANCELLED"}
      /\ LinkSays(n.pay, n.result)
      /\ UNCHANGED <<bill, orders, tables, pay, link, notices, hearsay, failures>>
  BY DEF Notice, HandlePayOSWebhook, BackedInv, NoticesMatch
<1>2. CASE Decide(r, "webhook", n) /\ UNCHANGED acked
  <2> DEFINE h == [OnPay(n.pay, "mark", n.result) EXCEPT !.op = "webhook"]
  <2>1. h \in Handler /\ SlotMatches(h) /\ h.at # "insert"
    BY <1>1 DEF OnPay, Idle, Handler, PaymentStatus, SlotMatches
  <2>2. req' = [req EXCEPT ![r] = h]
    BY <1>2 DEF Decide
  <2> HIDE DEF h
  <2>3. QED
    BY <1>1, <1>2, <2>1, <2>2, QuietStep DEF TypeOK
<1>3. CASE acked' = acked \cup {n.pay} /\ UNCHANGED req
  <2>1. TypeOK'
    BY <1>1, <1>3 DEF TypeOK
  <2>2. BackedInv'
    BY <1>1, <1>3
    DEF BackedInv, RowsMatch, NoticesMatch, HearsayMatches, HandlersMatch, SlotMatches,
        InsertsMatch, PaidBillIsBacked, PaidPaymentIsBacked, CancelledPaymentIsDead, Exists,
        Backed, Collected, SaidOnly, LinkSays
  <2>3. QED
    BY <2>1, <2>2
<1>4. QED
  BY <1>2, <1>3 DEF HandlePayOSWebhook

\* The handlers' reads and the gateway's answers that only move a slot.
LEMMA QuietReads ==
  ASSUME TypeOK, BackedInv, NEW r \in Reqs,
         \/ \E b \in Bills : ReadToConfirm(r, b)
         \/ \E b \in Bills, m \in PaymentMethod : ReadToCharge(r, b, m)
         \/ \E p \in Pays : ReadStatus(r, p) \/ ReadToCancel(r, p)
         \/ Reread(r) \/ RefuseCharge(r) \/ QueryLink(r) \/ Fail(r)
  PROVE  TypeOK' /\ BackedInv'
<1> DEFINE Good(h) == h \in Handler /\ SlotMatches(h) /\ h.at # "insert"
<1>0. req[r] \in Handler /\ SlotMatches(req[r])
  BY DEF TypeOK, BackedInv, HandlersMatch
<1>1. SUFFICES /\ \E h : Good(h) /\ req' = [req EXCEPT ![r] = h]
               /\ UNCHANGED <<bill, orders, tables, pay, link, notices, acked, hearsay>>
               /\ failures' \in 0..MaxFailures
  BY QuietStep
<1>2. Good(Idle)
  BY IdleSlot
<1>3. CASE \E b \in Bills : ReadToConfirm(r, b)
  <2>1. PICK b \in Bills : ReadToConfirm(r, b)
    BY <1>3
  <2>2. Good(OnBill(b, "confirm", "confirm"))
    BY DEF OnBill, Idle, Handler, SlotMatches
  <2>3. QED
    BY <2>1, <2>2 DEF ReadToConfirm, TypeOK
<1>4. CASE \E b \in Bills, m \in PaymentMethod : ReadToCharge(r, b, m)
  <2>1. PICK b \in Bills, m \in PaymentMethod : ReadToCharge(r, b, m)
    BY <1>4
  <2>2. Good(OnBill(b, m, "confirm")) /\ Good(OnBill(b, m, "charge"))
    BY DEF OnBill, Idle, Handler, SlotMatches
  <2>3. QED
    BY <2>1, <2>2 DEF ReadToCharge, TypeOK
<1>6. CASE \E p \in Pays : ReadStatus(r, p) \/ ReadToCancel(r, p)
  <2>1. PICK p \in Pays : ReadStatus(r, p) \/ ReadToCancel(r, p)
    BY <1>6
  <2>2. ASSUME pay[p].method = "BANK_TRANSFER"
        PROVE  Good(OnPay(p, "query", "NONE")) /\ Good(OnPay(p, "revoke", "CANCELLED"))
    BY <2>2 DEF OnPay, Idle, Handler, SlotMatches, PaymentStatus
  <2>3. QED
    BY <2>1, <2>2 DEF ReadStatus, ReadToCancel, TypeOK
<1>7. CASE Reread(r)
  <2>1. Good([req[r] EXCEPT !.at = "charge"]) \/ req[r].at # "reread"
    BY <1>0 DEF Handler, SlotMatches
  <2>2. QED
    BY <1>7, <1>2, <2>1 DEF Reread, TypeOK
<1>8. CASE RefuseCharge(r)
  BY <1>8, <1>2 DEF RefuseCharge, TypeOK
<1>9. CASE QueryLink(r)
  <2>1. CASE SyncsToPaid(req[r].pay)
    <3>1. Good(OnPay(req[r].pay, "mark", "PAID"))
      BY <1>0, <1>9, <2>1 DEF OnPay, Idle, Handler, SlotMatches, PaymentStatus,
         SyncsToPaid, LinkSays, QueryLink
    <3>2. QED
      BY <1>9, <2>1, <3>1 DEF QueryLink, TypeOK
  <2>2. CASE ~SyncsToPaid(req[r].pay)
    BY <1>9, <2>2, <1>2 DEF QueryLink, TypeOK
  <2>3. QED
    BY <2>1, <2>2
<1>10. CASE Fail(r)
  <2>1. failures \in Nat /\ failures < MaxFailures /\ failures' = failures + 1
    BY <1>10, FailuresAssumption DEF Fail, TypeOK
  <2>2. failures' \in 0..MaxFailures
    BY <2>1, FailuresAssumption
  <2>3. QED
    BY <1>10, <1>2, <2>2 DEF Fail
<1> HIDE DEF Good
<1>11. QED
  BY <1>3, <1>4, <1>6, <1>7, <1>8, <1>9, <1>10

\* And all the steps that write neither a row nor a link.
LEMMA ReadSteps ==
  ASSUME TypeOK, BackedInv, NEW r \in Reqs,
         \/ Receive(r) \/ Reread(r) \/ RefuseCharge(r) \/ QueryLink(r) \/ Fail(r)
  PROVE  TypeOK' /\ BackedInv'
<1>1. CASE \E n \in Notice : \/ HandlePayOSWebhook(r, n) \/ HandlePayOSReturn(r, n)
                             \/ HandlePayOSCancel(r, n)
  BY <1>1, RedirectStep, WebhookStep DEF HandlePayOSReturn, HandlePayOSCancel
<1>2. CASE ~ \E n \in Notice : \/ HandlePayOSWebhook(r, n) \/ HandlePayOSReturn(r, n)
                               \/ HandlePayOSCancel(r, n)
  BY <1>2, QuietReads DEF Receive
<1>3. QED
  BY <1>1, <1>2

\* confirmBill and the auto-confirmation only take PAID away from a bill.
LEMMA WriteConfirmedStep ==
  ASSUME TypeOK, BackedInv, NEW r \in Reqs, WriteConfirmed(r)
  PROVE  TypeOK' /\ BackedInv'
<1> DEFINE b == req[r].bill
           h == IF req[r].op = "confirm" THEN Idle ELSE [req[r] EXCEPT !.at = "reread"]
<1>1. req[r] \in Handler /\ SlotMatches(req[r]) /\ req[r].at = "confirm"
  BY DEF TypeOK, BackedInv, HandlersMatch, WriteConfirmed
<1>2. b \in Bills
  BY <1>1 DEF SlotMatches
<1>3. h \in Handler /\ SlotMatches(h) /\ h.at # "insert"
  BY <1>1, <1>2, IdleSlot DEF Handler, SlotMatches
<1>4. /\ bill' = [bill EXCEPT ![b].status = "CONFIRMED"]
      /\ req' = [req EXCEPT ![r] = h]
      /\ UNCHANGED <<orders, tables, pay, link, notices, acked, hearsay, failures>>
  BY DEF WriteConfirmed
<1> HIDE DEF h
<1>5. TypeOK'
  BY <1>2, <1>3, <1>4 DEF TypeOK, BillStatus
<1>6. \A c \in Bills : bill'[c].status = "PAID" => bill[c] = bill'[c]
  BY <1>2, <1>4 DEF TypeOK
<1>7. /\ RowsMatch' /\ NoticesMatch' /\ HearsayMatches'
      /\ PaidPaymentIsBacked' /\ CancelledPaymentIsDead'
  BY <1>4 DEF BackedInv, RowsMatch, NoticesMatch, HearsayMatches, PaidPaymentIsBacked,
         CancelledPaymentIsDead, Exists, Backed, Collected, SaidOnly, LinkSays
<1>8. PaidBillIsBacked'
  BY <1>4, <1>6, BackingKept, BillsStayBacked
<1>9. HandlersMatch'
  BY <1>3, <1>4
  DEF TypeOK, BackedInv, HandlersMatch, SlotMatches, Exists, Backed, Collected, SaidOnly, LinkSays
<1>10. InsertsMatch'
  BY <1>3, <1>4 DEF TypeOK, BackedInv, InsertsMatch, Exists
<1>11. QED
  BY <1>5, <1>7, <1>8, <1>9, <1>10 DEF BackedInv

\* A cash row is inserted PAID, under an id no link and no other slot holds.
LEMMA ChargeCashStep ==
  ASSUME TypeOK, BackedInv, NEW r \in Reqs, ChargeCash(r)
  PROVE  TypeOK' /\ BackedInv'
<1>1. PICK p \in Pays :
        /\ NewId(p)
        /\ pay' = [pay EXCEPT ![p] =
                     [status |-> "PAID", method |-> "CASH", bill |-> req[r].bill]]
        /\ req' = [req EXCEPT ![r] = OnPay(p, "settle", "PAID")]
  BY DEF ChargeCash
<1> DEFINE b == req[r].bill
           h == OnPay(p, "settle", "PAID")
<1>2. UNCHANGED <<bill, orders, tables, link, notices, acked, hearsay, failures>>
  BY DEF ChargeCash
<1>3. b \in Bills
  BY DEF ChargeCash, TypeOK, BackedInv, HandlersMatch, SlotMatches
<1>4. ~Exists(p) /\ link[p] = "NONE"
  BY <1>1 DEF NewId, Free
<1>5. /\ pay'[p].status = "PAID" /\ pay'[p].method = "CASH" /\ pay'[p].bill = b
      /\ \A q \in Pays : q # p => pay'[q] = pay[q]
  BY <1>1 DEF TypeOK
<1>6. h \in Handler /\ h.at = "settle" /\ h.pay = p
  BY DEF OnPay, Idle, Handler, PaymentStatus
<1>7. TypeOK'
  BY <1>1, <1>2, <1>3, <1>6 DEF TypeOK, Payment, PaymentStatus, PaymentMethod
<1>8. \A q \in Pays : pay[q].method = "BANK_TRANSFER" => q # p
  BY <1>4 DEF BackedInv, RowsMatch
<1>9. \A q \in Pays : Exists(q) => q # p /\ Exists(q)'
  BY <1>4, <1>5 DEF Exists
<1>10. \A q \in Pays : /\ Exists(q) /\ Backed(q) => Backed(q)'
                       /\ \A x : SaidOnly(q, x) <=> SaidOnly(q, x)'
  BY <1>2, <1>5, <1>9 DEF Backed, Collected, SaidOnly
<1>11. RowsMatch'
  BY <1>2, <1>3, <1>4, <1>5 DEF BackedInv, RowsMatch, Exists
<1>12. NoticesMatch' /\ HearsayMatches'
  BY <1>2, <1>5, <1>8 DEF TypeOK, Notice, BackedInv, NoticesMatch, HearsayMatches, LinkSays
<1>13. PaidPaymentIsBacked' /\ CancelledPaymentIsDead'
  BY <1>2, <1>5, <1>10
  DEF BackedInv, PaidPaymentIsBacked, CancelledPaymentIsDead, Exists, Backed, Collected
<1>14. PaidBillIsBacked'
  BY <1>2, <1>5, <1>9, <1>10, BillsStayBacked
<1>15. HandlersMatch'
  <2>1. req'[r] = h /\ \A s \in Reqs : s # r => req'[s] = req[s]
    BY <1>1 DEF TypeOK
  <2>2. QED
    BY <2>1, <1>2, <1>5, <1>6, <1>8, <1>9, <1>10
    DEF BackedInv, HandlersMatch, SlotMatches, LinkSays, Exists, Backed, Collected
<1>16. InsertsMatch'
  BY <1>1, <1>2, <1>4, <1>5, <1>6 DEF TypeOK, BackedInv, InsertsMatch, Exists
<1>17. QED
  BY <1>7, <1>11, <1>12, <1>13, <1>14, <1>15, <1>16 DEF BackedInv

\* A link is opened under an id nothing else holds.
LEMMA OpenLinkStep ==
  ASSUME TypeOK, BackedInv, NEW r \in Reqs, OpenLink(r)
  PROVE  TypeOK' /\ BackedInv'
<1>1. PICK p \in Pays : /\ NewId(p)
                        /\ link' = [link EXCEPT ![p] = "OPEN"]
                        /\ req' = [req EXCEPT ![r].at = "insert", ![r].pay = p]
  BY DEF OpenLink
<1> DEFINE h == [req[r] EXCEPT !.at = "insert", !.pay = p]
<1>2. UNCHANGED <<bill, orders, tables, pay, notices, acked, hearsay, failures>>
  BY DEF OpenLink
<1>3. req[r] \in Handler /\ req[r].bill \in Bills
  BY DEF OpenLink, TypeOK, BackedInv, HandlersMatch, SlotMatches
<1>4. ~Exists(p) /\ link[p] = "NONE"
  BY <1>1 DEF NewId, Free
<1>5. link'[p] = "OPEN" /\ \A q \in Pays : q # p => link'[q] = link[q]
  BY <1>1 DEF TypeOK
<1>6. /\ h \in Handler /\ h.at = "insert" /\ h.pay = p /\ h.bill \in Bills
      /\ req'[r] = h
      /\ \A s \in Reqs : s # r => req'[s] = req[s]
  BY <1>1, <1>3 DEF TypeOK, Handler
<1> HIDE DEF h
<1>7. TypeOK'
  BY <1>1, <1>2, <1>6 DEF TypeOK, LinkStatus
<1>8. RowsMatch' /\ PaidPaymentIsBacked' /\ CancelledPaymentIsDead'
  BY <1>2, <1>4, <1>5 DEF BackedInv, RowsMatch, PaidPaymentIsBacked,
         CancelledPaymentIsDead, Exists, Backed, Collected, SaidOnly
<1>9. NoticesMatch' /\ HearsayMatches'
  BY <1>2, <1>4, <1>5
  DEF TypeOK, Notice, BackedInv, RowsMatch, NoticesMatch, HearsayMatches, LinkSays
<1>10. PaidBillIsBacked'
  BY <1>2, <1>4, <1>5, BackingKept, BillsStayBacked
<1>11. HandlersMatch'
  BY <1>2, <1>4, <1>5, <1>6
  DEF BackedInv, RowsMatch, HandlersMatch, SlotMatches, LinkSays, Exists, Backed, Collected,
      SaidOnly
<1>12. InsertsMatch'
  BY <1>2, <1>4, <1>5, <1>6 DEF BackedInv, InsertsMatch, Exists
<1>13. QED
  BY <1>7, <1>8, <1>9, <1>10, <1>11, <1>12 DEF BackedInv

\* The row of an open link is inserted PENDING; no other slot is about to insert it.
LEMMA InsertPendingStep ==
  ASSUME TypeOK, BackedInv, NEW r \in Reqs, InsertPending(r)
  PROVE  TypeOK' /\ BackedInv'
<1> DEFINE p == req[r].pay
           b == req[r].bill
<1>1. /\ req[r].at = "insert"
      /\ pay' = [pay EXCEPT ![p] =
                   [status |-> "PENDING", method |-> "BANK_TRANSFER", bill |-> b]]
      /\ req' = [req EXCEPT ![r] = Idle]
      /\ UNCHANGED <<bill, orders, tables, link, notices, acked, hearsay, failures>>
  BY DEF InsertPending
<1>2. b \in Bills
  BY <1>1 DEF BackedInv, HandlersMatch, SlotMatches
<1>3. p \in Pays /\ ~Exists(p) /\ link[p] # "NONE"
  BY <1>1 DEF BackedInv, InsertsMatch
<1>4. \A s \in Reqs : req[s].at = "insert" /\ req[s].pay = p => s = r
  BY <1>1 DEF BackedInv, InsertsMatch
<1> HIDE DEF p, b
<1>5. /\ pay'[p].status = "PENDING" /\ pay'[p].method = "BANK_TRANSFER" /\ pay'[p].bill = b
      /\ \A q \in Pays : q # p => pay'[q] = pay[q]
  BY <1>1, <1>3 DEF TypeOK
<1>6. /\ req'[r] = Idle /\ Idle.at = "idle"
      /\ \A s \in Reqs : s # r => req'[s] = req[s]
  BY <1>1 DEF TypeOK, Idle
<1>7. TypeOK'
  BY <1>1, <1>2, <1>3, IdleSlot DEF TypeOK, Payment, PaymentStatus, PaymentMethod
<1>8. pay[p].method = "NONE" /\ pay[p].bill \notin Bills
  BY <1>3 DEF BackedInv, RowsMatch
<1>9. RowsMatch'
  BY <1>1, <1>2, <1>3, <1>5 DEF BackedInv, RowsMatch, Exists
<1>10. /\ NoticesMatch' /\ HearsayMatches'
       /\ PaidPaymentIsBacked' /\ CancelledPaymentIsDead'
  BY <1>1, <1>3, <1>5, <1>8 DEF TypeOK, Notice, BackedInv, NoticesMatch, HearsayMatches, LinkSays,
         PaidPaymentIsBacked, CancelledPaymentIsDead, Backed, Collected, SaidOnly
<1>11. PaidBillIsBacked'
  BY <1>1, <1>3, <1>5, BackingKept, BillsStayBacked
<1>12. HandlersMatch'
  BY <1>1, <1>3, <1>5, <1>6, <1>8
  DEF BackedInv, HandlersMatch, SlotMatches, LinkSays, Exists, Backed, Collected, SaidOnly
<1>13. InsertsMatch'
  BY <1>1, <1>4, <1>5, <1>6 DEF BackedInv, InsertsMatch, Exists
<1>14. QED
  BY <1>7, <1>9, <1>10, <1>11, <1>12, <1>13 DEF BackedInv

\* An open link may take any state: nothing recorded depends on it being open.
LEMMA LinkStep ==
  ASSUME TypeOK, BackedInv, NEW p \in Pays, NEW s \in {"OPEN", "PAID", "CANCELLED", "EXPIRED"},
         link[p] = "OPEN", link' = [link EXCEPT ![p] = s],
         UNCHANGED <<bill, orders, tables, pay, acked, hearsay, req, failures>>,
         notices' \subseteq Notice
  PROVE  /\ TypeOK' /\ RowsMatch' /\ HearsayMatches' /\ HandlersMatch' /\ InsertsMatch'
         /\ PaidBillIsBacked' /\ PaidPaymentIsBacked' /\ CancelledPaymentIsDead'
<1>1. link'[p] = s /\ \A q \in Pays : q # p => link'[q] = link[q]
  BY DEF TypeOK
<1>2. TypeOK'
  BY DEF TypeOK, LinkStatus
<1>3. RowsMatch' /\ HearsayMatches' /\ PaidPaymentIsBacked' /\ CancelledPaymentIsDead'
  BY <1>1 DEF BackedInv, RowsMatch, HearsayMatches, PaidPaymentIsBacked,
         CancelledPaymentIsDead, Exists, Backed, Collected, SaidOnly
<1>4. PaidBillIsBacked'
  BY <1>1, BackingKept, BillsStayBacked
<1>5. HandlersMatch' /\ InsertsMatch'
  BY <1>1 DEF BackedInv, HandlersMatch, SlotMatches, InsertsMatch, LinkSays, Exists,
             Backed, Collected, SaidOnly
<1>6. QED
  BY <1>2, <1>3, <1>4, <1>5

\* PayOS changes a link only while it is OPEN, and tells what it did.
LEMMA GatewayStep ==
  ASSUME TypeOK, BackedInv, Gateway
  PROVE  TypeOK' /\ BackedInv'
<1>1. PICK p \in Pays : GatewayPaid(p) \/ GatewayAttemptFailed(p) \/ GatewayGivenUp(p)
  BY DEF Gateway
<1>2. /\ link[p] = "OPEN"
      /\ UNCHANGED <<bill, orders, tables, pay, acked, hearsay, req, failures>>
  BY <1>1 DEF GatewayPaid, GatewayAttemptFailed, GatewayGivenUp
<1>3. ASSUME Exists(p) PROVE pay[p].method = "BANK_TRANSFER"
  BY <1>2, <1>3 DEF TypeOK, Payment, PaymentMethod, BackedInv, RowsMatch
<1>4. CASE GatewayPaid(p)
  <2>1. /\ link' = [link EXCEPT ![p] = "PAID"]
        /\ notices' = notices \cup {[pay |-> p, result |-> "PAID"]}
        /\ pay[p].method = "BANK_TRANSFER"
    BY <1>3, <1>4 DEF GatewayPaid
  <2>2. notices' \subseteq Notice
    BY <2>1 DEF TypeOK, Notice
  <2>3. NoticesMatch'
    BY <1>2, <2>1 DEF TypeOK, Notice, BackedInv, NoticesMatch, LinkSays
  <2>4. QED
    BY <1>2, <2>1, <2>2, <2>3, LinkStep DEF BackedInv
<1>5. CASE GatewayAttemptFailed(p)
  <2>1. /\ link' = [link EXCEPT ![p] = "OPEN"]
        /\ notices' = notices \cup {[pay |-> p, result |-> "FAILED"]}
        /\ pay[p].method = "BANK_TRANSFER"
    BY <1>2, <1>3, <1>5 DEF GatewayAttemptFailed, TypeOK
  <2>2. notices' \subseteq Notice
    BY <2>1 DEF TypeOK, Notice
  <2>3. NoticesMatch'
    BY <1>2, <2>1 DEF TypeOK, Notice, BackedInv, NoticesMatch, LinkSays
  <2>4. QED
    BY <1>2, <2>1, <2>2, <2>3, LinkStep DEF BackedInv
<1>6. CASE GatewayGivenUp(p)
  <2>1. PICK s \in {"CANCELLED", "EXPIRED"} : link' = [link EXCEPT ![p] = s]
    BY <1>6 DEF GatewayGivenUp
  <2>2. notices' = notices /\ notices' \subseteq Notice
    BY <1>6 DEF GatewayGivenUp, TypeOK
  <2>3. NoticesMatch'
    BY <1>2, <2>1, <2>2 DEF TypeOK, Notice, BackedInv, NoticesMatch, LinkSays
  <2>4. QED
    BY <1>2, <2>1, <2>2, <2>3, LinkStep DEF BackedInv
<1>7. QED
  BY <1>1, <1>4, <1>5, <1>6

\* PayOS cancels a link that is not paid; the slot then knows the link is CANCELLED.
LEMMA RevokeLinkStep ==
  ASSUME TypeOK, BackedInv, NEW r \in Reqs, RevokeLink(r)
  PROVE  TypeOK' /\ BackedInv'
<1> DEFINE p == req[r].pay
           h == [req[r] EXCEPT !.at = "mark"]
<1>1. /\ req[r].at = "revoke" /\ req[r] \in Handler /\ SlotMatches(req[r])
      /\ UNCHANGED <<bill, orders, tables, pay, notices, acked, hearsay, failures>>
  BY DEF RevokeLink, TypeOK, BackedInv, HandlersMatch
<1>2. p \in Pays /\ pay[p].method = "BANK_TRANSFER" /\ req[r].to = "CANCELLED"
  BY <1>1 DEF SlotMatches
<1>3. CASE ~Revocable(p)
  <2>1. req' = [req EXCEPT ![r] = Idle] /\ UNCHANGED link
    BY <1>3 DEF RevokeLink
  <2>2. QED
    BY <1>1, <2>1, IdleSlot, QuietStep DEF TypeOK
<1>4. CASE Revocable(p)
  <2>1. link' = [link EXCEPT ![p] = "CANCELLED"] /\ req' = [req EXCEPT ![r].at = "mark"]
    BY <1>4 DEF RevokeLink
  <2>2. /\ link'[p] = "CANCELLED" /\ link[p] \in {"OPEN", "CANCELLED"}
        /\ \A q \in Pays : q # p => link'[q] = link[q]
    BY <1>2, <1>4, <2>1 DEF TypeOK, Revocable
  <2>3. /\ h \in Handler /\ h.at = "mark" /\ h.pay = p /\ h.to = "CANCELLED"
        /\ req'[r] = h
        /\ \A s \in Reqs : s # r => req'[s] = req[s]
    BY <1>1, <1>2, <2>1 DEF TypeOK, Handler
  <2> HIDE DEF p, h
  <2>4. TypeOK'
    BY <1>1, <1>2, <2>1, <2>3 DEF TypeOK, LinkStatus
  <2>5. RowsMatch' /\ PaidPaymentIsBacked' /\ CancelledPaymentIsDead'
    BY <1>1, <2>2 DEF BackedInv, RowsMatch, PaidPaymentIsBacked, CancelledPaymentIsDead,
           Exists, Backed, Collected, SaidOnly
  <2>6. NoticesMatch' /\ HearsayMatches'
    BY <1>1, <2>2 DEF TypeOK, Notice, BackedInv, NoticesMatch, HearsayMatches, LinkSays
  <2>9. PaidBillIsBacked'
    BY <1>1, <2>2, BackingKept, BillsStayBacked
  <2>7. HandlersMatch' /\ InsertsMatch'
    BY <1>1, <1>2, <2>2, <2>3
    DEF BackedInv, HandlersMatch, SlotMatches, InsertsMatch, LinkSays, Exists, Backed,
        Collected, SaidOnly
  <2>8. QED
    BY <2>4, <2>5, <2>6, <2>7, <2>9 DEF BackedInv
<1>5. QED
  BY <1>3, <1>4

\* updatePayment overwrites the row's status with what the slot decided.  The decision
\* may be stale, but what it rests on, a paid or a cancelled link, still holds.
LEMMA MarkPaymentStep ==
  ASSUME TypeOK, BackedInv, NEW r \in Reqs, MarkPayment(r)
  PROVE  TypeOK' /\ BackedInv'
<1> DEFINE p == req[r].pay
           h == IF req[r].to = "PAID" THEN [req[r] EXCEPT !.at = "settle"] ELSE Idle
<1>1. /\ req[r].at = "mark" /\ req[r] \in Handler /\ SlotMatches(req[r])
      /\ pay' = [pay EXCEPT ![p].status = req[r].to]
      /\ req' = [req EXCEPT ![r] = h]
      /\ UNCHANGED <<bill, orders, tables, link, notices, acked, hearsay, failures>>
  BY DEF MarkPayment, TypeOK, BackedInv, HandlersMatch
<1>2. /\ p \in Pays /\ req[r].to \in {"PAID", "FAILED", "CANCELLED"}
      /\ LinkSays(p, req[r].to) \/ SaidOnly(p, req[r].to)
  BY <1>1 DEF SlotMatches
<1>3. Exists(p)
  BY <1>2, HearsayIsOfTransfers DEF BackedInv, RowsMatch, LinkSays
<1>4. /\ pay'[p].status = req[r].to
      /\ pay'[p].method = pay[p].method /\ pay'[p].bill = pay[p].bill
      /\ \A q \in Pays : q # p => pay'[q] = pay[q]
  BY <1>1, <1>2 DEF TypeOK, Payment
<1>5. /\ h \in Handler /\ h.at \in {"settle", "idle"}
      /\ h.at = "settle" => h.pay = p /\ Backed(p)
  BY <1>1, <1>2 DEF Handler, Idle, LinkSays, Backed, Collected
<1>6. req'[r] = h /\ \A s \in Reqs : s # r => req'[s] = req[s]
  BY <1>1 DEF TypeOK
<1>7. \A q \in Pays : Exists(q)' <=> Exists(q)
  BY <1>2, <1>3, <1>4 DEF Exists
<1>8. \A q \in Pays : pay'[q].method = pay[q].method /\ pay'[q].bill = pay[q].bill
  BY <1>4
<1>9. \A q \in Pays : /\ Backed(q)' <=> Backed(q)
                      /\ \A x : SaidOnly(q, x)' <=> SaidOnly(q, x)
  BY <1>1, <1>8 DEF Backed, Collected, SaidOnly
<1> HIDE DEF p, h
<1>10. TypeOK'
  BY <1>1, <1>2, <1>5 DEF TypeOK, Payment, PaymentStatus
<1>11. RowsMatch'
  BY <1>1, <1>7, <1>8 DEF BackedInv, RowsMatch
<1>12. NoticesMatch' /\ HearsayMatches'
  BY <1>1, <1>8 DEF TypeOK, Notice, BackedInv, NoticesMatch, HearsayMatches, LinkSays
<1>13. PaidPaymentIsBacked' /\ CancelledPaymentIsDead'
  BY <1>1, <1>2, <1>4, <1>9 DEF BackedInv, PaidPaymentIsBacked, CancelledPaymentIsDead,
         Backed, Collected, LinkSays
<1>14. PaidBillIsBacked'
  BY <1>1, <1>8, <1>9, BillsStayBacked
<1>15. HandlersMatch'
  BY <1>1, <1>2, <1>3, <1>5, <1>6, <1>7, <1>8, <1>9
  DEF BackedInv, HandlersMatch, SlotMatches, LinkSays
<1>16. InsertsMatch'
  BY <1>1, <1>5, <1>6, <1>7 DEF BackedInv, InsertsMatch
<1>17. QED
  BY <1>10, <1>11, <1>12, <1>13, <1>14, <1>15, <1>16 DEF BackedInv

\* The completion makes the bill PAID by the method of a payment that was collected.
LEMMA CompleteStep ==
  ASSUME TypeOK, BackedInv, NEW r \in Reqs, CompleteBillPayment(r)
  PROVE  TypeOK' /\ BackedInv'
<1> DEFINE p == req[r].pay
           b == pay[p].bill
<1>1. /\ req[r].at = "settle"
      /\ pay' = [pay EXCEPT ![p].status = "PAID"]
      /\ bill' = [bill EXCEPT ![b] = [status |-> "PAID", method |-> pay[p].method]]
      /\ orders' = [orders EXCEPT ![b] = "COMPLETED"]
      /\ tables' = [tables EXCEPT ![TableOf[b]] = "CLEANING"]
      /\ req' = [req EXCEPT ![r] = Idle]
      /\ acked' = IF req[r].op = "webhook" THEN acked \cup {p} ELSE acked
      /\ UNCHANGED <<link, notices, hearsay, failures>>
  BY DEF CompleteBillPayment
<1>2. p \in Pays /\ Exists(p) /\ Backed(p)
  BY <1>1 DEF BackedInv, HandlersMatch, SlotMatches
<1>3. b \in Bills /\ pay[p].method \in PaymentMethod
  BY <1>2 DEF BackedInv, RowsMatch, TypeOK, Payment
<1>4. /\ pay'[p].status = "PAID"
      /\ \A q \in Pays : /\ q # p => pay'[q] = pay[q]
                         /\ pay'[q].method = pay[q].method
                         /\ pay'[q].bill = pay[q].bill
  BY <1>1, <1>2 DEF TypeOK, Payment
<1>5. /\ req'[r] = Idle /\ Idle.at = "idle"
      /\ \A s \in Reqs : s # r => req'[s] = req[s]
  BY <1>1 DEF TypeOK, Idle
<1>6. \A q \in Pays : /\ Exists(q)' <=> Exists(q)
                      /\ Backed(q)' <=> Backed(q)
                      /\ \A x : SaidOnly(q, x)' <=> SaidOnly(q, x)
  BY <1>1, <1>2, <1>4 DEF Exists, Backed, Collected, SaidOnly
<1>7. /\ bill'[b] = [status |-> "PAID", method |-> pay[p].method]
      /\ \A c \in Bills : c # b => bill'[c] = bill[c]
  BY <1>1, <1>3 DEF TypeOK
<1>8. TypeOK'
  <2>1. pay' \in [Pays -> Payment] /\ req' \in [Reqs -> Handler]
    <3>1. [pay[p] EXCEPT !.status = "PAID"] \in Payment
      BY <1>2 DEF TypeOK, Payment, PaymentStatus
    <3>2. pay' \in [Pays -> Payment]
      BY <1>1, <3>1 DEF TypeOK
    <3>3. req' \in [Reqs -> Handler]
      BY <1>1, IdleSlot DEF TypeOK
    <3>4. QED
      BY <3>2, <3>3
  <2>2. bill' \in [Bills -> [status: BillStatus, method: PaymentMethod \cup {"NONE"}]]
    BY <1>1, <1>3 DEF TypeOK, BillStatus
  <2>3. orders' \in [Bills -> {"DELIVERED", "COMPLETED"}] /\ tables' \in [Tables -> TableStatus]
    BY <1>1 DEF TypeOK, TableStatus
  <2>4. acked' \subseteq Pays
    BY <1>1, <1>2 DEF TypeOK
  <2>5. QED
    BY <1>1, <2>1, <2>2, <2>3, <2>4 DEF TypeOK
<1> HIDE DEF p, b
<1>9. RowsMatch'
  BY <1>1, <1>4, <1>6 DEF BackedInv, RowsMatch
<1>10. NoticesMatch' /\ HearsayMatches'
  BY <1>1, <1>4 DEF TypeOK, Notice, BackedInv, NoticesMatch, HearsayMatches, LinkSays
<1>11. PaidPaymentIsBacked' /\ CancelledPaymentIsDead'
  BY <1>1, <1>2, <1>4, <1>6 DEF BackedInv, PaidPaymentIsBacked, CancelledPaymentIsDead
<1>12. PaidBillIsBacked'
  <2>1. ASSUME NEW c \in Bills, bill'[c].status = "PAID"
        PROVE  \E q \in Pays : pay'[q].bill = c /\ pay'[q].method = bill'[c].method /\ Backed(q)'
    <3>1. CASE c = b
      BY <3>1, <1>2, <1>4, <1>6, <1>7 DEF b
    <3>2. CASE c # b
      BY <3>2, <2>1, <1>4, <1>6, <1>7 DEF BackedInv, PaidBillIsBacked
    <3>3. QED
      BY <3>1, <3>2
  <2>2. QED
    BY <2>1 DEF PaidBillIsBacked
<1>13. HandlersMatch'
  BY <1>1, <1>4, <1>5, <1>6 DEF BackedInv, HandlersMatch, SlotMatches, LinkSays
<1>14. InsertsMatch'
  BY <1>1, <1>5, <1>6 DEF BackedInv, InsertsMatch
<1>15. QED
  BY <1>8, <1>9, <1>10, <1>11, <1>12, <1>13, <1>14 DEF BackedInv

\* Staff and guests only change the table's status; a stutter changes nothing.
LEMMA TableStep ==
  ASSUME TypeOK, BackedInv,
         (\E t \in Tables, s \in TableStatus : SetTable(t, s)) \/ UNCHANGED vars
  PROVE  TypeOK' /\ BackedInv'
<1>1. /\ tables' \in [Tables -> TableStatus]
      /\ UNCHANGED <<bill, orders, pay, link, notices, acked, hearsay, req, failures>>
  BY DEF TypeOK, SetTable, vars
<1>2. TypeOK'
  BY <1>1 DEF TypeOK
<1>3. BackedInv'
  BY <1>1 DEF BackedInv, RowsMatch, NoticesMatch, HearsayMatches, HandlersMatch,
         SlotMatches, InsertsMatch, PaidBillIsBacked, PaidPaymentIsBacked, CancelledPaymentIsDead, Exists, Backed,
         Collected, SaidOnly, LinkSays
<1>4. QED
  BY <1>2, <1>3

\* The invariant is inductive.
LEMMA BackedStep ==
  ASSUME TypeOK, BackedInv, [Next]_vars
  PROVE  TypeOK' /\ BackedInv'
<1>1. ASSUME NEW r \in Reqs, Continue(r) PROVE TypeOK' /\ BackedInv'
  BY <1>1, ReadSteps, WriteConfirmedStep, ChargeCashStep, OpenLinkStep, InsertPendingStep,
     RevokeLinkStep, MarkPaymentStep, CompleteStep DEF Continue
<1>2. ASSUME NEW r \in Reqs, Receive(r) \/ Fail(r) PROVE TypeOK' /\ BackedInv'
  BY <1>2, ReadSteps
<1>3. QED
  BY <1>1, <1>2, GatewayStep, TableStep DEF Next

\* Every variable keeps its type in every reachable state of BillPayment.
THEOREM TypeCorrect == Spec => []TypeOK
<1>1. TypeOK /\ BackedInv /\ [Next]_vars => (TypeOK /\ BackedInv)'
  BY BackedStep
<1>2. QED
  BY InitBacked, <1>1, PTL DEF Spec

\* The invariant that carries the safety of the payment handlers, for any number of
\* handlers interleaved and stopped at any await.
THEOREM BackedInvariant == Spec => []BackedInv
<1>1. TypeOK /\ BackedInv /\ [Next]_vars => (TypeOK /\ BackedInv)'
  BY BackedStep
<1>2. QED
  BY InitBacked, <1>1, PTL DEF Spec

\* A bill is PAID only if a payment of it by the method it names was made, and a payment
\* only if it was made, whichever of cash, webhook, return or poll recorded it; a return
\* URL that says PAID of an unpaid link, and is believed, is the only exception there is.
THEOREM PaidMeansCollected == Spec => []PaidIsBacked
<1>1. BackedInv => PaidIsBacked
  BY DEF BackedInv, PaidIsBacked
<1>2. QED
  BY <1>1, BackedInvariant, PTL

\* A payment the system has CANCELLED can no longer be paid at the gateway, unless it was
\* a redirect that said so.
THEOREM CancelledMeansDead == Spec => []CancelledPaymentIsDead
<1>1. BackedInv => CancelledPaymentIsDead
  BY DEF BackedInv
<1>2. QED
  BY <1>1, BackedInvariant, PTL

-----------------------------------------------------------------------------
(* BillPayment implements PaymentLedger, for any number of bills,          *)
(* payments, handlers in flight and failures: every step of a handler, of  *)
(* PayOS or of the staff is a step of the ledger or leaves it alone.       *)

Moneys   == [p \in Pays |-> Money(p)]
Settling == [b \in Bills |-> Settled(b)]

\* A step of the ledger or none.
LedgerStep == [Ledger!Next]_(Ledger!vars)

\* What moves is one payment's money: everything else the ledger shows is as it was.
LEMMA MoneyOfOne ==
  ASSUME NEW p \in Pays, NEW s,
         Money(p)' = s, \A q \in Pays : q # p => Money(q)' = Money(q)
  PROVE  Moneys' = [Moneys EXCEPT ![p] = s]
BY DEF Moneys

\* Bills keep what they are settled by when none of them is written.
LEMMA SettlingKept == ASSUME UNCHANGED bill PROVE Settling' = Settling
BY DEF Settling, Settled

\* Money depends on rows and links only.
LEMMA MoneyKept ==
  ASSUME UNCHANGED link, NEW p \in Pays, pay'[p].method = pay[p].method
  PROVE  Money(p)' = Money(p)
BY DEF Money, Collected

\* A step that writes no bill, no row and no link, and believes nothing, leaves the ledger
\* alone.
LEMMA SilentStep == ASSUME UNCHANGED <<bill, pay, link, hearsay>> PROVE LedgerStep
<1>1. Moneys' = Moneys
  BY MoneyKept DEF Moneys
<1>2. Settling' = Settling
  BY SettlingKept
<1>3. QED
  BY <1>1, <1>2 DEF LedgerStep, Ledger!vars, Moneys, Settling

\* The ledger starts with nothing asked, nothing entered and nothing settled.
LEMMA InitLedger == Init => Ledger!Init
<1> SUFFICES ASSUME Init PROVE Ledger!Init
  OBVIOUS
<1>1. \A p \in Pays : Money(p) = "NONE"
  BY DEF Init, Money, Collected, NoRow
<1>2. \A b \in Bills : Settled(b) = "NO"
  BY DEF Init, Settled
<1>3. QED
  BY <1>1, <1>2 DEF Init, Ledger!Init, NoRow, Ledger!Blank

\* confirmBill and the auto-confirmation reopen a bill, whatever it was.
LEMMA ConfirmReopens ==
  ASSUME TypeOK, BackedInv, NEW r \in Reqs, WriteConfirmed(r)
  PROVE  LedgerStep
<1> DEFINE b == req[r].bill
<1>1. b \in Bills
  BY DEF BackedInv, HandlersMatch, SlotMatches, WriteConfirmed
<1>2. bill' = [bill EXCEPT ![b].status = "CONFIRMED"] /\ UNCHANGED <<pay, link, hearsay>>
  BY DEF WriteConfirmed
<1>3. bill'[b].status = "CONFIRMED" /\ \A c \in Bills : c # b => bill'[c] = bill[c]
  BY <1>1, <1>2 DEF TypeOK
<1>4. Settling' = [Settling EXCEPT ![b] = "NO"]
  BY <1>1, <1>3 DEF Settling, Settled
<1>5. Moneys' = Moneys
  BY <1>2, MoneyKept DEF Moneys
<1>6. Ledger!Reopen(b)
  BY <1>2, <1>4, <1>5 DEF Ledger!Reopen, Moneys, Settling
<1>7. QED
  BY <1>1, <1>6 DEF LedgerStep, Ledger!Next

\* createCashPayment takes money and enters it in one call.
LEMMA ChargeTakesCash ==
  ASSUME TypeOK, BackedInv, NEW r \in Reqs, ChargeCash(r)
  PROVE  LedgerStep
<1> DEFINE b == req[r].bill
<1>1. b \in Bills /\ UNCHANGED <<bill, link, hearsay>>
  BY DEF BackedInv, HandlersMatch, SlotMatches, ChargeCash
<1>2. PICK p \in Pays :
        /\ ~Exists(p) /\ link[p] = "NONE"
        /\ pay' = [pay EXCEPT ![p] = [status |-> "PAID", method |-> "CASH", bill |-> b]]
  BY DEF ChargeCash, NewId, Free
<1>3. pay'[p].method = "CASH" /\ \A q \in Pays : q # p => pay'[q] = pay[q]
  BY <1>2 DEF TypeOK
<1>4. Money(p) = "NONE"
  BY <1>2 DEF Money, Collected, BackedInv, RowsMatch
<1>5. Money(p)' = "COLLECTED"
  BY <1>3 DEF Money, Collected
<1>6. Moneys' = [Moneys EXCEPT ![p] = "COLLECTED"]
  BY <1>1, <1>3, <1>5, MoneyKept, MoneyOfOne
<1>7. Ledger!TakeCash(p, b)
  BY <1>1, <1>2, <1>4, <1>6, SettlingKept
     DEF Ledger!TakeCash, Ledger!Entered, Exists, Moneys, Settling
<1>8. QED
  BY <1>1, <1>7 DEF LedgerStep, Ledger!Next

\* createPaymentLink asks for a transfer.
LEMMA OpenAsks ==
  ASSUME TypeOK, BackedInv, NEW r \in Reqs, OpenLink(r)
  PROVE  LedgerStep
<1>1. PICK p \in Pays : /\ ~Exists(p) /\ link[p] = "NONE"
                        /\ link' = [link EXCEPT ![p] = "OPEN"]
  BY DEF OpenLink, NewId, Free
<1>2. UNCHANGED <<bill, pay, hearsay>>
  BY DEF OpenLink
<1>3. link'[p] = "OPEN" /\ \A q \in Pays : q # p => link'[q] = link[q]
  BY <1>1 DEF TypeOK
<1>4. pay[p].method = "NONE"
  BY <1>1 DEF BackedInv, RowsMatch
<1>5. Money(p) = "NONE" /\ Money(p)' = "ASKED"
  BY <1>1, <1>2, <1>3, <1>4 DEF Money, Collected
<1>6. \A q \in Pays : q # p => Money(q)' = Money(q)
  BY <1>2, <1>3 DEF Money, Collected
<1>7. Moneys' = [Moneys EXCEPT ![p] = "ASKED"]
  BY <1>5, <1>6, MoneyOfOne
<1>8. Ledger!Ask(p)
  BY <1>1, <1>2, <1>5, <1>7, SettlingKept
     DEF Ledger!Ask, Ledger!Entered, Exists, Moneys, Settling
<1>9. QED
  BY <1>8 DEF LedgerStep, Ledger!Next

\* createPayment enters a transfer that has been asked for, whatever became of it since.
LEMMA InsertEnters ==
  ASSUME TypeOK, BackedInv, NEW r \in Reqs, InsertPending(r)
  PROVE  LedgerStep
<1> DEFINE p == req[r].pay
           b == req[r].bill
<1>1. /\ pay' = [pay EXCEPT ![p] = [status |-> "PENDING", method |-> "BANK_TRANSFER",
                                    bill |-> b]]
      /\ req[r].at = "insert" /\ UNCHANGED <<bill, link, hearsay>>
  BY DEF InsertPending
<1>2. b \in Bills /\ p \in Pays /\ ~Exists(p) /\ link[p] # "NONE"
  BY <1>1 DEF BackedInv, HandlersMatch, SlotMatches, InsertsMatch
<1> HIDE DEF p, b
<1>3. pay[p].method = "NONE" /\ link[p] \in LinkStatus
  BY <1>2 DEF BackedInv, RowsMatch, TypeOK
<1>4. pay'[p].method = "BANK_TRANSFER" /\ \A q \in Pays : q # p => pay'[q] = pay[q]
  BY <1>1, <1>2 DEF TypeOK
<1>5. \A q \in Pays : Money(q)' = Money(q)
  BY <1>1, <1>3, <1>4 DEF Money, Collected
<1>6. Money(p) # "NONE"
  BY <1>2, <1>3 DEF Money, Collected, LinkStatus
<1>7. Ledger!Enter(p, b)
  BY <1>1, <1>2, <1>5, <1>6, SettlingKept
     DEF Ledger!Enter, Ledger!Entered, Exists, Moneys, Settling
<1>8. QED
  BY <1>2, <1>7 DEF LedgerStep, Ledger!Next

\* A link leaves OPEN once: its money is collected or given up for good.
LEMMA LinkMoves ==
  ASSUME TypeOK, BackedInv, NEW p \in Pays, NEW s \in {"PAID", "CANCELLED", "EXPIRED"},
         link[p] = "OPEN", link' = [link EXCEPT ![p] = s], UNCHANGED <<bill, pay, hearsay>>,
         s = "PAID" => Exists(p)
  PROVE  LedgerStep
<1>1. link'[p] = s /\ \A q \in Pays : q # p => link'[q] = link[q]
  BY DEF TypeOK
<1>2. pay[p].method # "CASH"
  BY DEF BackedInv, RowsMatch
<1>3. Money(p) = "ASKED" /\ Money(p)' = IF s = "PAID" THEN "COLLECTED" ELSE "VOID"
  BY <1>1, <1>2 DEF Money, Collected
<1>4. \A q \in Pays : q # p => Money(q)' = Money(q)
  BY <1>1 DEF Money, Collected
<1>5. Moneys' = [Moneys EXCEPT ![p] = Money(p)']
  BY <1>4, MoneyOfOne
<1>6. Ledger!Collect(p) \/ Ledger!Void(p)
  BY <1>3, <1>5, SettlingKept
     DEF Ledger!Collect, Ledger!Void, Ledger!Entered, Exists, Moneys, Settling
<1>7. QED
  BY <1>6 DEF LedgerStep, Ledger!Next

\* PayOS moves open links, or only tells of an attempt.
LEMMA GatewayMoves ==
  ASSUME TypeOK, BackedInv, Gateway
  PROVE  LedgerStep
<1>1. PICK p \in Pays : GatewayPaid(p) \/ GatewayAttemptFailed(p) \/ GatewayGivenUp(p)
  BY DEF Gateway
<1>2. CASE GatewayPaid(p)
  BY <1>2, LinkMoves DEF GatewayPaid
<1>3. CASE GatewayAttemptFailed(p)
  BY <1>3, SilentStep DEF GatewayAttemptFailed
<1>4. CASE GatewayGivenUp(p)
  BY <1>4, LinkMoves DEF GatewayGivenUp
<1>5. QED
  BY <1>1, <1>2, <1>3, <1>4

\* cancelPayOSPayment gives up an open link; a cancelled one is given up already.
LEMMA RevokeVoids ==
  ASSUME TypeOK, BackedInv, NEW r \in Reqs, RevokeLink(r)
  PROVE  LedgerStep
<1> DEFINE p == req[r].pay
<1>1. p \in Pays /\ UNCHANGED <<bill, pay, hearsay>>
  BY DEF RevokeLink, BackedInv, HandlersMatch, SlotMatches
<1>2. CASE link[p] = "OPEN"
  <2>1. link' = [link EXCEPT ![p] = "CANCELLED"]
    BY <1>2 DEF RevokeLink, Revocable
  <2>2. QED
    BY <1>1, <1>2, <2>1, LinkMoves
<1>3. CASE link[p] # "OPEN"
  <2>1. UNCHANGED link
    BY <1>1, <1>3 DEF RevokeLink, Revocable, TypeOK
  <2>2. QED
    BY <1>1, <2>1, SilentStep
<1>4. QED
  BY <1>2, <1>3

\* updatePayment notes what a handler decided, and the decision still holds.
LEMMA MarkNotes ==
  ASSUME TypeOK, BackedInv, NEW r \in Reqs, MarkPayment(r)
  PROVE  LedgerStep
<1> DEFINE p == req[r].pay
           s == req[r].to
<1>1. /\ pay' = [pay EXCEPT ![p].status = s] /\ UNCHANGED <<bill, link, hearsay>>
      /\ p \in Pays /\ s \in {"PAID", "FAILED", "CANCELLED"}
      /\ LinkSays(p, s) \/ SaidOnly(p, s)
  BY DEF MarkPayment, BackedInv, HandlersMatch, SlotMatches
<1> HIDE DEF p, s
<1>2. Exists(p)
  BY <1>1, HearsayIsOfTransfers DEF BackedInv, RowsMatch, LinkSays
<1>3. \A q \in Pays : pay'[q].method = pay[q].method
  BY <1>1 DEF TypeOK, Payment
<1>4. Moneys' = Moneys
  BY <1>1, <1>3, MoneyKept DEF Moneys
<1>5. pay[p].method # "CASH" /\ link[p] \in LinkStatus
  BY <1>1, HearsayIsOfTransfers DEF LinkSays, TypeOK
<1>6. \/ /\ s = "PAID" => Money(p) = "COLLECTED"
         /\ s = "CANCELLED" => Money(p) = "VOID"
      \/ SaidOnly(p, s)
  BY <1>1, <1>5 DEF LinkSays, Money, Collected
<1>7. Ledger!Note(p, s)
  BY <1>1, <1>2, <1>4, <1>6, SettlingKept
     DEF Ledger!Note, Ledger!Goes, Ledger!SoItIs, SaidOnly, Ledger!Entered, Exists, Moneys, Settling
<1>8. QED
  BY <1>1, <1>7 DEF LedgerStep, Ledger!Next

\* completeBillPayment settles the bill of a payment whose money is in.
LEMMA CompleteSettles ==
  ASSUME TypeOK, BackedInv, NEW r \in Reqs, CompleteBillPayment(r)
  PROVE  LedgerStep
<1> DEFINE p == req[r].pay
           b == pay[p].bill
<1>1. /\ pay' = [pay EXCEPT ![p].status = "PAID"]
      /\ bill' = [bill EXCEPT ![b] = [status |-> "PAID", method |-> pay[p].method]]
      /\ UNCHANGED <<link, hearsay>>
      /\ p \in Pays /\ Exists(p) /\ Backed(p)
  BY DEF CompleteBillPayment, BackedInv, HandlersMatch, SlotMatches
<1>2. b \in Bills
  BY <1>1 DEF BackedInv, RowsMatch
<1> HIDE DEF p
<1>3. \A q \in Pays : pay'[q].method = pay[q].method
  BY <1>1 DEF TypeOK, Payment
<1>4. Moneys' = Moneys
  BY <1>1, <1>3, MoneyKept DEF Moneys
<1>5. Money(p) = "COLLECTED" \/ SaidOnly(p, "PAID")
  BY <1>1 DEF Money, Backed
<1>6. /\ bill'[b].status = "PAID" /\ bill'[b].method = pay[p].method
      /\ \A c \in Bills : c # b => bill'[c] = bill[c]
  BY <1>1, <1>2 DEF TypeOK
<1>7. Settling' = [Settling EXCEPT ![b] = pay[p].method]
  BY <1>2, <1>6 DEF Settling, Settled
<1>8. Ledger!Settle(p)
  BY <1>1, <1>4, <1>5, <1>7 DEF Ledger!Settle, Ledger!Goes, Ledger!SoItIs, SaidOnly, Ledger!Entered, Exists, Moneys,
         Settling
<1>9. QED
  BY <1>1, <1>8 DEF LedgerStep, Ledger!Next

\* A redirect that says of a transfer what its link does not is believed; any other leaves
\* the ledger alone.
LEMMA RedirectBelieves ==
  ASSUME TypeOK, BackedInv, NEW r \in Reqs, NEW n \in Notice, TakeRedirect(r, n)
  PROVE  LedgerStep
<1> DEFINE p == n.pay
           s == n.result
<1>1. /\ p \in Pays /\ s \in {"PAID", "FAILED", "CANCELLED"}
      /\ n = [pay |-> p, result |-> s]
      /\ pay[p].method = "BANK_TRANSFER" /\ UNCHANGED <<bill, pay, link>>
      /\ hearsay' = IF LinkSays(p, s) THEN hearsay ELSE hearsay \cup {n}
  BY DEF Notice, TakeRedirect
<1> HIDE DEF p, s
<1>2. CASE LinkSays(p, s)
  BY <1>1, <1>2, SilentStep
<1>3. CASE ~LinkSays(p, s)
  <2>1. link[p] \in LinkStatus
    BY <1>1 DEF TypeOK
  <2>2. \/ s = "PAID" /\ Money(p) # "COLLECTED"
        \/ s = "CANCELLED" /\ Money(p) # "VOID"
    BY <1>1, <1>3, <2>1 DEF LinkSays, Money, Collected, LinkStatus
  <2>3. Moneys' = Moneys
    BY <1>1, MoneyKept DEF Moneys
  <2>4. Ledger!Believe(p, s)
    BY <1>1, <1>3, <2>2, <2>3, SettlingKept
       DEF Ledger!Believe, Ledger!SoItIs, Moneys, Settling
  <2>5. QED
    BY <1>1, <2>4 DEF LedgerStep, Ledger!Next
<1>4. QED
  BY <1>2, <1>3

\* Handlers that read, refuse, end or stop, and the table's other users, write no row the
\* ledger shows.
LEMMA OthersAreSilent ==
  ASSUME TypeOK, BackedInv,
         \/ \E r \in Reqs : \/ Receive(r) \/ Reread(r) \/ RefuseCharge(r)
                            \/ QueryLink(r) \/ Fail(r)
         \/ \E t \in Tables, s \in TableStatus : SetTable(t, s)
         \/ UNCHANGED vars
  PROVE  LedgerStep
<1>1. CASE \E r \in Reqs, n \in Notice : HandlePayOSReturn(r, n) \/ HandlePayOSCancel(r, n)
  BY <1>1, RedirectBelieves DEF HandlePayOSReturn, HandlePayOSCancel
<1>2. CASE ~\E r \in Reqs, n \in Notice : HandlePayOSReturn(r, n) \/ HandlePayOSCancel(r, n)
  <2>1. UNCHANGED <<bill, pay, link, hearsay>>
    BY <1>2
    DEF Receive, ReadToConfirm, ReadToCharge, HandlePayOSWebhook, ReadStatus, ReadToCancel,
        Reread, RefuseCharge, QueryLink, Fail, SetTable, vars
  <2>2. QED
    BY <2>1, SilentStep
<1>3. QED
  BY <1>1, <1>2

\* Every step of the system is a step of the ledger or leaves it alone.
LEMMA NextImplements ==
  ASSUME TypeOK, BackedInv, [Next]_vars
  PROVE  LedgerStep
<1>1. ASSUME NEW r \in Reqs, Continue(r) PROVE LedgerStep
  BY <1>1, ConfirmReopens, OthersAreSilent, ChargeTakesCash, OpenAsks, InsertEnters,
     RevokeVoids, MarkNotes, CompleteSettles DEF Continue
<1>2. QED
  BY <1>1, GatewayMoves, OthersAreSilent DEF Next

\* The payment handlers keep the ledger, however they interleave, repeat and stop; what
\* redirects say is in it as hearsay.
THEOREM PaymentsKeepTheLedger == Spec => KeepsTheLedger
<1>1. TypeOK /\ BackedInv /\ [Next]_vars => [Ledger!Next]_(Ledger!vars)
  BY NextImplements DEF LedgerStep
<1>2. QED
  BY InitLedger, <1>1, TypeCorrect, BackedInvariant, PTL DEF Spec, KeepsTheLedger, Ledger!Spec

-----------------------------------------------------------------------------
(* One handler at a time                                                   *)

OneAtATime == \A r, s \in Reqs : r = s

\* What PaidStaysPaid and OccupiedTableClearedOnce ask of a step.
StaysPaid == /\ \A b \in Bills : bill[b].status = "PAID" => bill'[b].status = "PAID"
             /\ \A p \in Pays : pay[p].status = "PAID" => pay'[p].status = "PAID"
ClearsOnce == \A t \in Tables :
                 tables[t] = "OCCUPIED" /\ tables'[t] = "CLEANING" /\ req' # req =>
                 \E b \in Bills : /\ TableOf[b] = t
                                  /\ \/ bill[b].status # "PAID" /\ bill'[b].status = "PAID"
                                     \/ PaidTwice(b)
Kept == SequentialInv' /\ StaysPaid /\ ClearsOnce

LEMMA SequentialInitially == Init => SequentialInv
<1> SUFFICES ASSUME Init PROVE SequentialInv
  OBVIOUS
<1>1. \A r \in Reqs : ReadStillHolds(req[r])
  BY DEF Init, Idle, ReadStillHolds
<1>2. PaidByPayment /\ SettledOrAbout
  BY DEF Init, NoRow, PaidByPayment, SettledOrAbout
<1> QED
  BY <1>1, <1>2 DEF SequentialInv

\* A handler goes on without writing a row; it does not drop a settlement unless it fails.
LEMMA SequentialSlot ==
  ASSUME TypeOK, TypeOK', SequentialInv, NEW r \in Reqs, NEW h, ReadStillHolds(h),
         req' = [req EXCEPT ![r] = h], UNCHANGED <<bill, orders, pay, tables>>,
         failures' \in Nat, failures > 0 => failures' > 0,
         req[r].at = "settle" => failures' > 0
  PROVE  Kept
<1>1. \A s \in Reqs : req'[s] = IF s = r THEN h ELSE req[s]
  BY DEF TypeOK
<1>2. \A s \in Reqs : ReadStillHolds(req[s])'
  BY <1>1 DEF SequentialInv, ReadStillHolds, AnotherPaid
<1>3. PaidByPayment'
  BY DEF SequentialInv, PaidByPayment
<1>4. SettledOrAbout'
  BY <1>1 DEF SequentialInv, SettledOrAbout
<1>5. SequentialInv'
  BY <1>2, <1>3, <1>4 DEF SequentialInv
<1>6. StaysPaid /\ ClearsOnce
  BY DEF StaysPaid, ClearsOnce
<1> QED
  BY <1>5, <1>6 DEF Kept

LEMMA IdleReads == ReadStillHolds(Idle)
  BY DEF Idle, ReadStillHolds

\* What a handler reads it decides from: a PENDING or CONFIRMED bill, a payment not PAID.
LEMMA SequentialReads ==
  ASSUME TypeOK, TypeOK', BackedInv, SequentialInv, NEW r \in Reqs,
         \/ Receive(r) \/ Reread(r) \/ RefuseCharge(r) \/ QueryLink(r) \/ Fail(r)
         \/ RevokeLink(r) \/ OpenLink(r)
  PROVE  Kept
<1>0. /\ req[r] \in Handler /\ SlotMatches(req[r]) /\ ReadStillHolds(req[r])
      /\ failures \in Nat
  BY FailuresAssumption DEF TypeOK, BackedInv, HandlersMatch, SequentialInv
<1>1. ASSUME NEW h, ReadStillHolds(h), req' = [req EXCEPT ![r] = h], req[r].at # "settle",
             UNCHANGED <<bill, orders, pay, tables, failures>>
      PROVE  Kept
  BY <1>0, <1>1, SequentialSlot
<1>2. ASSUME NEW b \in Bills, ReadToConfirm(r, b) PROVE Kept
  <2>1. ReadStillHolds(OnBill(b, "confirm", "confirm"))
    BY <1>2 DEF ReadToConfirm, OnBill, Idle, ReadStillHolds
  <2> QED
    BY <1>1, <1>2, <2>1 DEF ReadToConfirm
<1>3. ASSUME NEW b \in Bills, NEW m \in PaymentMethod, ReadToCharge(r, b, m) PROVE Kept
  <2>1. CASE bill[b].status = "PENDING" /\ req' = [req EXCEPT ![r] = OnBill(b, m, "confirm")]
    <3>1. ReadStillHolds(OnBill(b, m, "confirm"))
      BY <2>1 DEF OnBill, Idle, ReadStillHolds
    <3> QED
      BY <1>1, <1>3, <2>1, <3>1 DEF ReadToCharge
  <2>2. CASE bill[b].status = "CONFIRMED" /\ req' = [req EXCEPT ![r] = OnBill(b, m, "charge")]
    <3>1. ReadStillHolds(OnBill(b, m, "charge"))
      BY <2>2 DEF OnBill, Idle, ReadStillHolds
    <3> QED
      BY <1>1, <1>3, <2>2, <3>1 DEF ReadToCharge
  <2> QED
    BY <1>3, <2>1, <2>2 DEF ReadToCharge
<1>4. ASSUME NEW p, NEW at \in {"query", "revoke", "mark"}, NEW to, pay[p].status # "PAID"
      PROVE  ReadStillHolds(OnPay(p, at, to))
  BY <1>4 DEF OnPay, Idle, ReadStillHolds
<1>5. ASSUME NEW n, NEW op, pay[n.pay].status # "PAID", Decide(r, op, n),
             req[r].at = "idle", UNCHANGED <<bill, orders, pay, tables, failures>>
      PROVE  Kept
  <2> DEFINE h == [OnPay(n.pay, "mark", n.result) EXCEPT !.op = op]
  <2>1. ReadStillHolds(h)
    BY <1>5 DEF OnPay, Idle, ReadStillHolds
  <2>2. req' = [req EXCEPT ![r] = h]
    BY <1>5 DEF Decide
  <2> HIDE DEF h
  <2> QED
    BY <1>1, <1>5, <2>1, <2>2
<1>6. ASSUME NEW n \in Notice,
             \/ HandlePayOSWebhook(r, n) \/ HandlePayOSReturn(r, n) \/ HandlePayOSCancel(r, n)
      PROVE  Kept
  <2>1. UNCHANGED <<bill, orders, pay, tables, failures>> /\ req[r].at = "idle"
    BY <1>6 DEF HandlePayOSWebhook, HandlePayOSReturn, HandlePayOSCancel, TakeRedirect
  <2>2. CASE UNCHANGED req
    BY <2>1, <2>2 DEF SequentialInv, ReadStillHolds, AnotherPaid, PaidByPayment,
       SettledOrAbout, Kept, StaysPaid, ClearsOnce
  <2>3. CASE req' # req
    <3>1. pay[n.pay].status # "PAID" /\ \E op : Decide(r, op, n)
      BY <1>6, <2>3
      DEF HandlePayOSWebhook, HandlePayOSReturn, HandlePayOSCancel, TakeRedirect, Unprocessed
    <3> QED
      BY <1>5, <2>1, <3>1
  <2> QED
    BY <2>2, <2>3
<1>7. ASSUME NEW p \in Pays, ReadStatus(r, p) PROVE Kept
  <2>1. ReadStillHolds(OnPay(p, "query", "NONE"))
    BY <1>4, <1>7 DEF ReadStatus
  <2> QED
    BY <1>1, <1>7, <2>1 DEF ReadStatus
<1>8. ASSUME NEW p \in Pays, ReadToCancel(r, p) PROVE Kept
  <2>1. ReadStillHolds(OnPay(p, "revoke", "CANCELLED"))
    BY <1>4, <1>8 DEF ReadToCancel
  <2> QED
    BY <1>1, <1>8, <2>1 DEF ReadToCancel
<1>9. CASE Reread(r)
  <2>1. CASE bill[req[r].bill].status = "CONFIRMED"
    <3> DEFINE h == [req[r] EXCEPT !.at = "charge"]
    <3>1. h.at = "charge" /\ h.bill = req[r].bill
      BY <1>0 DEF Handler
    <3>2. req' = [req EXCEPT ![r] = h]
      BY <1>9, <2>1 DEF Reread
    <3> HIDE DEF h
    <3>3. ReadStillHolds(h)
      BY <2>1, <3>1 DEF ReadStillHolds
    <3> QED
      BY <1>1, <1>9, <3>2, <3>3 DEF Reread
  <2>2. CASE bill[req[r].bill].status # "CONFIRMED"
    BY <1>1, <1>9, <2>2, IdleReads DEF Reread
  <2> QED
    BY <2>1, <2>2
<1>10. CASE RefuseCharge(r)
  BY <1>1, <1>10, IdleReads DEF RefuseCharge
<1>11. CASE QueryLink(r)
  <2>1. ReadStillHolds(OnPay(req[r].pay, "mark", "PAID"))
    BY <1>0, <1>4, <1>11 DEF QueryLink, ReadStillHolds
  <2>2. \/ req' = [req EXCEPT ![r] = OnPay(req[r].pay, "mark", "PAID")]
        \/ req' = [req EXCEPT ![r] = Idle]
    BY <1>11 DEF QueryLink
  <2>3. req[r].at # "settle" /\ UNCHANGED <<bill, orders, pay, tables, failures>>
    BY <1>11 DEF QueryLink
  <2> QED
    BY <1>1, <2>1, <2>2, <2>3, IdleReads
<1>12. CASE Fail(r)
  <2>1. failures' \in Nat /\ failures' > 0
    BY <1>0, <1>12 DEF Fail
  <2>2. req' = [req EXCEPT ![r] = Idle] /\ UNCHANGED <<bill, orders, pay, tables>>
    BY <1>12 DEF Fail
  <2> DEFINE h == Idle
  <2>3. ReadStillHolds(h)
    BY IdleReads
  <2> HIDE DEF h
  <2>4. req' = [req EXCEPT ![r] = h]
    BY <2>2 DEF h
  <2> QED
    BY <2>1, <2>2, <2>3, <2>4, SequentialSlot
<1>13. CASE RevokeLink(r)
  <2> DEFINE h == [req[r] EXCEPT !.at = "mark"]
  <2>1. h.at = "mark" /\ h.pay = req[r].pay
    BY <1>0 DEF Handler
  <2>2. req' = [req EXCEPT ![r] = h] \/ req' = [req EXCEPT ![r] = Idle]
    BY <1>13 DEF RevokeLink
  <2> HIDE DEF h
  <2>3. ReadStillHolds(h)
    BY <1>0, <1>13, <2>1 DEF ReadStillHolds, RevokeLink
  <2>4. req[r].at # "settle" /\ UNCHANGED <<bill, orders, pay, tables, failures>>
    BY <1>13 DEF RevokeLink
  <2> QED
    BY <1>1, <2>2, <2>3, <2>4, IdleReads
<1>14. CASE OpenLink(r)
  <2>1. PICK p \in Pays : req' = [req EXCEPT ![r].at = "insert", ![r].pay = p]
    BY <1>14 DEF OpenLink
  <2> DEFINE h == [req[r] EXCEPT !.at = "insert", !.pay = p]
  <2>2. h.at = "insert"
    BY <1>0 DEF Handler
  <2>3. req' = [req EXCEPT ![r] = h]
    BY <2>1 DEF TypeOK
  <2> HIDE DEF h
  <2>4. ReadStillHolds(h)
    BY <2>2 DEF ReadStillHolds
  <2> QED
    BY <1>1, <1>14, <2>3, <2>4 DEF OpenLink
<1> QED
  BY <1>2, <1>3, <1>6, <1>7, <1>8, <1>9, <1>10, <1>11, <1>12, <1>13, <1>14
     DEF Receive

\* The handler is the only one, so the bill still is PENDING.
LEMMA SequentialConfirm ==
  ASSUME OneAtATime, TypeOK, BackedInv, SequentialInv, NEW r \in Reqs, WriteConfirmed(r)
  PROVE  Kept
<1> DEFINE b == req[r].bill
<1>1. /\ req[r] \in Handler /\ req[r].at = "confirm" /\ b \in Bills /\ bill[b].status = "PENDING"
      /\ bill' = [bill EXCEPT ![b].status = "CONFIRMED"]
      /\ UNCHANGED <<orders, tables, pay, failures>>
  BY DEF WriteConfirmed, TypeOK, BackedInv, HandlersMatch, SlotMatches, SequentialInv, ReadStillHolds
<1>2. \A c \in Bills : bill'[c].status = "PAID" <=> bill[c].status = "PAID"
  BY <1>1 DEF TypeOK
<1>3. req'[r].at \in {"idle", "reread"} /\ \A s \in Reqs : s = r
  BY <1>1 DEF WriteConfirmed, TypeOK, OneAtATime, Handler, Idle
<1>4. \A s \in Reqs : ReadStillHolds(req[s])'
  BY <1>3 DEF ReadStillHolds
<1>5. PaidByPayment'
  BY <1>1, <1>2 DEF SequentialInv, PaidByPayment
<1>6. SettledOrAbout'
  <2>1. \A p \in Pays : pay[p].status = "PAID" => pay[p].bill \in Bills
    BY DEF BackedInv, RowsMatch, Exists
  <2> QED
    BY <1>1, <1>2, <1>3, <2>1 DEF SequentialInv, SettledOrAbout
<1>7. StaysPaid /\ ClearsOnce
  BY <1>1, <1>2 DEF StaysPaid, ClearsOnce
<1> QED
  BY <1>4, <1>5, <1>6, <1>7 DEF Kept, SequentialInv

\* A cash payment is new, and its bill not PAID yet.
LEMMA SequentialCash ==
  ASSUME OneAtATime, TypeOK, BackedInv, SequentialInv, NEW r \in Reqs, ChargeCash(r)
  PROVE  Kept
<1>1. PICK p \in Pays :
        /\ NewId(p)
        /\ pay' = [pay EXCEPT ![p] =
                     [status |-> "PAID", method |-> "CASH", bill |-> req[r].bill]]
        /\ req' = [req EXCEPT ![r] = OnPay(p, "settle", "PAID")]
  BY DEF ChargeCash
<1> DEFINE b == req[r].bill
<1>2. /\ req[r].at = "charge" /\ b \in Bills /\ bill[b].status = "CONFIRMED"
      /\ UNCHANGED <<bill, orders, tables, failures>>
  BY DEF ChargeCash, BackedInv, HandlersMatch, SlotMatches, SequentialInv, ReadStillHolds
<1>3. pay[p].status = "NONE"
  BY <1>1 DEF NewId, Free, Exists
<1>4. /\ pay'[p].status = "PAID" /\ pay'[p].bill = b
      /\ \A q \in Pays : q # p => pay'[q] = pay[q]
  BY <1>1 DEF TypeOK
<1>5. req'[r].at = "settle" /\ req'[r].pay = p /\ \A s \in Reqs : s = r
  BY <1>1 DEF TypeOK, OneAtATime, OnPay, Idle
<1>6. \A s \in Reqs : ReadStillHolds(req[s])'
  BY <1>2, <1>4, <1>5 DEF ReadStillHolds
<1>7. PaidByPayment'
  BY <1>2, <1>3, <1>4 DEF SequentialInv, PaidByPayment
<1>8. SettledOrAbout'
  BY <1>2, <1>4, <1>5 DEF SequentialInv, SettledOrAbout
<1>9. StaysPaid /\ ClearsOnce
  BY <1>2, <1>3, <1>4 DEF StaysPaid, ClearsOnce
<1> QED
  BY <1>6, <1>7, <1>8, <1>9 DEF Kept, SequentialInv

\* The row of a link is new, and PENDING.
LEMMA SequentialInsert ==
  ASSUME OneAtATime, TypeOK, BackedInv, SequentialInv, NEW r \in Reqs, InsertPending(r)
  PROVE  Kept
<1> DEFINE p == req[r].pay
<1>1. /\ req[r].at = "insert" /\ p \in Pays /\ pay[p].status = "NONE"
      /\ pay' = [pay EXCEPT ![p] =
                   [status |-> "PENDING", method |-> "BANK_TRANSFER", bill |-> req[r].bill]]
      /\ req' = [req EXCEPT ![r] = Idle]
      /\ UNCHANGED <<bill, orders, tables, failures>>
  BY DEF InsertPending, BackedInv, InsertsMatch, Exists
<1>2. pay'[p].status = "PENDING" /\ \A q \in Pays : q # p => pay'[q] = pay[q]
  BY <1>1 DEF TypeOK
<1>3. req'[r].at = "idle" /\ \A s \in Reqs : s = r
  BY <1>1 DEF TypeOK, OneAtATime, Idle
<1>4. \A s \in Reqs : ReadStillHolds(req[s])'
  BY <1>3 DEF ReadStillHolds
<1>5. PaidByPayment' /\ SettledOrAbout'
  BY <1>1, <1>2, <1>3 DEF SequentialInv, PaidByPayment, SettledOrAbout
<1>6. StaysPaid /\ ClearsOnce
  BY <1>1, <1>2 DEF StaysPaid, ClearsOnce
<1> QED
  BY <1>4, <1>5, <1>6 DEF Kept, SequentialInv

\* A payment is marked that was not PAID; if its bill is, another payment has settled it.
LEMMA SequentialMark ==
  ASSUME OneAtATime, TypeOK, BackedInv, SequentialInv, NEW r \in Reqs, MarkPayment(r)
  PROVE  Kept
<1> DEFINE p == req[r].pay
<1>0. /\ req[r].at = "mark" /\ p \in Pays
      /\ LinkSays(p, req[r].to) \/ SaidOnly(p, req[r].to)
  BY DEF MarkPayment, BackedInv, HandlersMatch, SlotMatches
<1>1. /\ req[r] \in Handler /\ req[r].at = "mark" /\ p \in Pays /\ pay[p].status # "PAID"
      /\ pay[p].bill \in Bills
      /\ pay' = [pay EXCEPT ![p].status = req[r].to]
      /\ UNCHANGED <<bill, orders, tables, failures>>
  <2>1. pay[p].bill \in Bills
    BY <1>0, HearsayIsOfTransfers DEF BackedInv, RowsMatch, LinkSays
  <2> QED
    BY <1>0, <2>1 DEF MarkPayment, TypeOK, SequentialInv, ReadStillHolds
<1>2. /\ pay'[p].status = req[r].to
      /\ \A q \in Pays : pay'[q].bill = pay[q].bill
      /\ \A q \in Pays : q # p => pay'[q] = pay[q]
  BY <1>1 DEF TypeOK, Payment
<1>3. /\ req[r].to = "PAID" => req'[r].at = "settle" /\ req'[r].pay = p
      /\ req[r].to # "PAID" => req'[r].at = "idle"
      /\ \A s \in Reqs : s = r
  BY <1>1 DEF MarkPayment, TypeOK, OneAtATime, Handler, Idle
<1>4. PaidByPayment'
  BY <1>1, <1>2 DEF SequentialInv, PaidByPayment
<1>5. req[r].to = "PAID" /\ bill[pay[p].bill].status = "PAID" =>
        \E q \in Pays \ {p} : pay'[q].status = "PAID" /\ pay'[q].bill = pay'[p].bill
  BY <1>1, <1>2 DEF SequentialInv, PaidByPayment
<1> HIDE DEF p
<1>6. \A s \in Reqs : ReadStillHolds(req[s])'
  BY <1>1, <1>2, <1>3, <1>5 DEF ReadStillHolds, AnotherPaid
<1>7. SettledOrAbout'
  BY <1>1, <1>2, <1>3 DEF SequentialInv, SettledOrAbout
<1>8. StaysPaid /\ ClearsOnce
  BY <1>1, <1>2 DEF StaysPaid, ClearsOnce
<1> QED
  BY <1>4, <1>6, <1>7, <1>8 DEF Kept, SequentialInv

\* A bill becomes PAID, or two payments have been collected for it.
LEMMA SequentialComplete ==
  ASSUME OneAtATime, TypeOK, BackedInv, SequentialInv, NEW r \in Reqs, CompleteBillPayment(r)
  PROVE  Kept
<1> DEFINE p == req[r].pay
           b == pay[p].bill
<1>1. /\ req[r].at = "settle" /\ p \in Pays /\ b \in Bills
      /\ pay[p].status = "PAID"
      /\ bill[b].status = "PAID" => AnotherPaid(p)
  BY DEF CompleteBillPayment, BackedInv, HandlersMatch, SlotMatches, RowsMatch,
         SequentialInv, ReadStillHolds
<1>2. /\ pay' = [pay EXCEPT ![p].status = "PAID"]
      /\ bill' = [bill EXCEPT ![b] = [status |-> "PAID", method |-> pay[p].method]]
      /\ orders' = [orders EXCEPT ![b] = "COMPLETED"]
      /\ tables' = [tables EXCEPT ![TableOf[b]] = "CLEANING"]
      /\ req' = [req EXCEPT ![r] = Idle]
      /\ UNCHANGED failures
  BY DEF CompleteBillPayment
<1> HIDE DEF p, b
<1>3. pay' = pay
  BY <1>1, <1>2 DEF TypeOK, Payment
<1>4. /\ bill'[b].status = "PAID" /\ orders'[b] = "COMPLETED"
      /\ \A c \in Bills : c # b => bill'[c] = bill[c] /\ orders'[c] = orders[c]
  BY <1>1, <1>2 DEF TypeOK
<1>5. req'[r].at = "idle" /\ \A s \in Reqs : s = r
  BY <1>2 DEF TypeOK, OneAtATime, Idle
<1>6. \A s \in Reqs : ReadStillHolds(req[s])'
  BY <1>5 DEF ReadStillHolds
<1>7. PaidByPayment'
  BY <1>1, <1>3, <1>4 DEF SequentialInv, PaidByPayment, b
<1>8. SettledOrAbout'
  <2> SUFFICES ASSUME NEW q \in Pays, pay[q].status = "PAID"
               PROVE  \/ bill'[pay[q].bill].status = "PAID" /\ orders'[pay[q].bill] = "COMPLETED"
                      \/ failures > 0
    BY <1>2, <1>3 DEF SettledOrAbout
  <2>1. pay[q].bill \in Bills
    BY DEF BackedInv, RowsMatch, Exists
  <2>2. CASE pay[q].bill = b
    BY <1>4, <2>2
  <2>3. CASE pay[q].bill # b
    <3>1. q # p
      BY <2>3 DEF b
    <3>2. \A s \in Reqs : req[s].pay # q
      BY <1>5, <3>1 DEF p
    <3> QED
      BY <1>4, <2>1, <2>3, <3>2 DEF SequentialInv, SettledOrAbout
  <2> QED
    BY <2>2, <2>3
<1>9. StaysPaid
  BY <1>3, <1>4 DEF StaysPaid
<1>10. ClearsOnce
  <2> SUFFICES ASSUME NEW t \in Tables, tables[t] = "OCCUPIED", tables'[t] = "CLEANING"
               PROVE  /\ TableOf[b] = t
                      /\ \/ bill[b].status # "PAID" /\ bill'[b].status = "PAID"
                         \/ PaidTwice(b)
    BY <1>1 DEF ClearsOnce
  <2>1. TableOf[b] = t
    BY <1>2 DEF TypeOK
  <2>2. bill[b].status = "PAID" => PaidTwice(b)
    BY <1>1 DEF AnotherPaid, PaidTwice, b
  <2> QED
    BY <1>4, <2>1, <2>2
<1> QED
  BY <1>6, <1>7, <1>8, <1>9, <1>10 DEF Kept, SequentialInv

\* The gateway, staff and guests write none of the rows.
LEMMA SequentialOthers ==
  ASSUME TypeOK, SequentialInv,
         \/ Gateway \/ (\E t \in Tables, s \in TableStatus : SetTable(t, s))
         \/ UNCHANGED vars
  PROVE  Kept
<1>1. UNCHANGED <<bill, orders, pay, req, failures>>
  BY DEF Gateway, GatewayPaid, GatewayAttemptFailed, GatewayGivenUp, SetTable, vars
<1>2. SequentialInv'
  BY <1>1 DEF SequentialInv, ReadStillHolds, AnotherPaid, PaidByPayment, SettledOrAbout
<1>3. StaysPaid
  BY <1>1 DEF StaysPaid
<1>4. ClearsOnce
  BY <1>1 DEF ClearsOnce
<1> QED
  BY <1>2, <1>3, <1>4 DEF Kept

LEMMA SequentialStep ==
  ASSUME OneAtATime, TypeOK, BackedInv, SequentialInv, [Next]_vars
  PROVE  Kept
<1>1. TypeOK'
  BY BackedStep
<1>2. ASSUME NEW r \in Reqs, Receive(r) \/ Continue(r) \/ Fail(r) PROVE Kept
  BY <1>1, <1>2, SequentialReads, SequentialConfirm, SequentialCash, SequentialInsert,
     SequentialMark, SequentialComplete DEF Continue
<1> QED
  BY <1>2, SequentialOthers DEF Next

\* When handlers do not overlap and none stops half-way, then whenever none is running
\* each PAID payment has its bill PAID and the orders COMPLETED.
THEOREM SettledWhenSequential ==
  ASSUME OneAtATime, MaxFailures = 0
  PROVE  Spec => []SettledAtRest
<1>1. TypeOK /\ BackedInv /\ SequentialInv /\ [Next]_vars =>
        (TypeOK /\ BackedInv /\ SequentialInv)'
  BY BackedStep, SequentialStep DEF Kept
<1>2. TypeOK /\ SequentialInv => SettledAtRest
  BY DEF TypeOK, SequentialInv, SettledOrAbout, SettledAtRest, AtRest
<1> QED
  BY <1>1, <1>2, InitBacked, SequentialInitially, PTL DEF Spec

\* When handlers do not overlap, neither a bill nor a payment that is PAID is ever made
\* anything else, whatever stops and whatever notices come late or twice.
THEOREM PaidStaysWhenSequential ==
  ASSUME OneAtATime
  PROVE  Spec => PaidStaysPaid
<1>1. ASSUME TypeOK, BackedInv, SequentialInv, [Next]_vars
      PROVE  /\ (TypeOK /\ BackedInv /\ SequentialInv)'
             /\ [ /\ \A b \in Bills : bill[b].status = "PAID" => bill'[b].status = "PAID"
                  /\ \A p \in Pays : pay[p].status = "PAID" => pay'[p].status = "PAID" ]_vars
  BY <1>1, BackedStep, SequentialStep DEF Kept, StaysPaid
<1> QED
  BY <1>1, InitBacked, SequentialInitially, PTL DEF Spec, PaidStaysPaid

\* And a handler clears guests from a table with the payment that settles its bill only,
\* or with the second one of a bill that was paid twice.
THEOREM TablesClearedOnceWhenSequential ==
  ASSUME OneAtATime
  PROVE  Spec => OccupiedTableClearedOnce
<1>1. ASSUME TypeOK, BackedInv, SequentialInv, [Next]_vars
      PROVE  /\ (TypeOK /\ BackedInv /\ SequentialInv)'
             /\ [\A t \in Tables :
                    tables[t] = "OCCUPIED" /\ tables'[t] = "CLEANING" /\ req' # req =>
                    \E b \in Bills : /\ TableOf[b] = t
                                     /\ \/ bill[b].status # "PAID" /\ bill'[b].status = "PAID"
                                        \/ PaidTwice(b)]_vars
  BY <1>1, BackedStep, SequentialStep DEF Kept, ClearsOnce
<1> QED
  BY <1>1, InitBacked, SequentialInitially, PTL DEF Spec, OccupiedTableClearedOnce
=============================================================================
