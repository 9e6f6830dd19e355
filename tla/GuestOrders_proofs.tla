------------------------ MODULE GuestOrders_proofs ------------------------
(***************************************************************************)
(* Proofs about the two components a guest's requests run through: what is *)
(* announced of the orders (OrderFeed), and the tokens of guests and what  *)
(* an order takes (GuestVisit), for any number of guests, tables, dishes,  *)
(* orders, tasks and requests.                                             *)
(***************************************************************************)
EXTENDS OrderFeed, GuestVisit, TLAPS

-----------------------------------------------------------------------------
(* OrderFeed                                                               *)

\* What every step keeps: types, and what FeedInv says of rows, tasks and what is told.
IInv == TypeOK /\ FeedInv

\* A free slot announces nothing and has read nothing.
LEMMA IdleTask ==
  /\ Idle \in Task /\ Idle.kind = "idle" /\ Idle.step = "read" /\ Idle.orders = {}
  /\ Idle.got = NothingRead /\ NothingRead \in [Orders -> Order \cup {None}]
  /\ \A o \in Orders : NothingRead[o] = None
BY DEF Idle, Task, NothingRead

\* Nobody has ordered, and nothing is to be told.
LEMMA InitFeed == Init => IInv
<1> SUFFICES ASSUME Init PROVE IInv
  OBVIOUS
<1> USE FeedAssumption DEF Init
<1>1. NoOrder \in Order /\ NoOrder.state = "ABSENT" /\ NoOrder.ver = 0
  BY DEF NoOrder, Order, OrderStatus, Writers
<1>2. Untold \in [ver: 0..MaxWrites, status: OrderStatus]
  BY DEF Untold, OrderStatus
<1>3. TypeOK
  <2>1. orders \in [Orders -> Order] /\ task \in [Tasks -> Task]
    BY <1>1, IdleTask
  <2>2. last \in [Audiences -> [Orders -> [ver: 0..MaxWrites, status: OrderStatus]]]
    BY <1>2
  <2>3. writes = 0 /\ sent = {} /\ silent = {} /\ clean \in BOOLEAN /\ crashed \in BOOLEAN
    OBVIOUS
  <2>4. writes \in 0..MaxWrites
    BY <2>3
  <2>5. sent \subseteq Event
    BY <2>3
  <2>6. QED
    BY <2>1, <2>2, <2>3, <2>4, <2>5 DEF TypeOK
<1>4. RowsMatch /\ ToldOrPending
  BY <1>1 DEF RowsMatch, ToldOrPending, Live
<1>5. TasksMatch /\ ReadsAreCurrent
  BY IdleTask DEF TasksMatch, ReadsAreCurrent
<1>6. QED
  BY <1>3, <1>4, <1>5 DEF IInv, FeedInv

\* Versions of rows are counted in writes.
LEMMA RowVersions ==
  ASSUME IInv
  PROVE  \A o \in Orders : orders[o].ver \in Nat /\ orders[o].ver <= writes
<1>1. \A o \in Orders : orders[o].ver \in 0..MaxWrites
  BY DEF IInv, TypeOK, Order
<1>2. \A o \in Orders : orders[o].ver <= writes
  BY DEF IInv, FeedInv, RowsMatch
<1>3. \A i \in 0..MaxWrites : i \in Nat
  OBVIOUS
<1>4. QED
  BY <1>1, <1>2, <1>3

\* What has been told of an order stays told while its row stays as it is and no stale
\* news of it reaches the staff's screen.
LEMMA ToldStays ==
  ASSUME NEW o \in Orders, orders'[o] = orders[o], sent \subseteq sent', clean' => clean,
         o \in silent => o \in silent',
         clean' /\ orders[o].by \in {"chef", "delivery"} =>
            \/ last'["staff"][o].status = last["staff"][o].status
            \/ last'["staff"][o].status = orders[o].status,
         Announced(o) /\ CalledOut(o) /\ Shown(o)
  PROVE  (Announced(o) /\ CalledOut(o) /\ Shown(o))'
BY DEF Announced, CalledOut, Shown, Told, ToldOfAll

-----------------------------------------------------------------------------
(* Writes                                                                  *)

\* One more write of a row: it is the task of that write that tells of it, or nobody is
\* to be told.
LEMMA PutStep ==
  ASSUME IInv, NEW o \in Orders, NEW status \in OrderStatus, NEW t \in Tables,
         NEW by \in {"chef", "staff", "desk", "delivery", "bill"},
         Put(o, status, t, by), UNCHANGED <<sent, last, crashed>>,
         \/ task' = task /\ by \in {"desk", "bill"}
         \/ \E k \in Tasks, kind \in {"changed", "delivered", "refresh"}, step \in {"read", "emit"} :
               /\ Start(k, kind, step, {o}, t) /\ Announces(kind, by)
               /\ step = "emit" => kind = "refresh"
  PROVE  IInv'
<1> DEFINE row == [state |-> "LIVE", status |-> status, table |-> t, ver |-> orders[o].ver + 1,
                   by |-> by]
<1>1. /\ Live(o) /\ orders' = [orders EXCEPT ![o] = row]
      /\ writes < MaxWrites /\ writes' = writes + 1 /\ clean' = (clean /\ ~Busy(o))
      /\ silent' = silent \ {o}
  BY DEF Put, Wrote, IInv, TypeOK
<1>2. /\ writes \in 0..MaxWrites /\ orders[o].ver \in 0..MaxWrites /\ orders[o].ver <= writes
      /\ MaxWrites \in Nat
  BY FeedAssumption DEF IInv, TypeOK, Order, FeedInv, RowsMatch
<1>3. /\ row \in Order /\ row.ver > 0 /\ row.ver <= writes + 1 /\ row.by = by
      /\ row.table = t /\ row.state = "LIVE" /\ row.status = status
  BY <1>1, <1>2 DEF Order, Writers
<1> HIDE DEF row
<1>4. orders'[o] = row /\ \A p \in Orders : p # o => orders'[p] = orders[p]
  BY <1>1 DEF IInv, TypeOK
<1>5. RowsMatch'
  BY <1>1, <1>2, <1>3, <1>4, RowVersions DEF IInv, FeedInv, RowsMatch
<1>6. /\ orders' \in [Orders -> Order] /\ writes' \in 0..MaxWrites /\ clean' \in BOOLEAN
      /\ silent' \subseteq Orders
  BY <1>1, <1>2, <1>3 DEF IInv, TypeOK
<1>7. \A k \in Tasks : clean' /\ task'[k] = task[k] => o \notin task[k].orders
  BY <1>1 DEF Busy
<1>7a. \A k \in Tasks : \A p \in task[k].orders :
         p \in Orders /\ orders'[p].state # "ABSENT"
  BY <1>3, <1>4 DEF IInv, TypeOK, Task, FeedInv, TasksMatch
<1>8. \A k \in Tasks, p \in Orders :
         p # o /\ task'[k] = task[k] /\ Pending(k, p) => Pending(k, p)'
  BY <1>4 DEF Pending
<1>9. \A p \in Orders : p # o /\ Announced(p) /\ CalledOut(p) /\ Shown(p) =>
                           (Announced(p) /\ CalledOut(p) /\ Shown(p))'
  BY <1>1, <1>4, ToldStays
<1>10. CASE task' = task /\ by \in {"desk", "bill"}
  <2>1. TypeOK'
    BY <1>6, <1>10 DEF IInv, TypeOK
  <2>1a. TasksMatch'
    BY <1>10, <1>7a DEF IInv, FeedInv, TasksMatch
  <2>2. ReadsAreCurrent'
    BY <1>1, <1>4, <1>7, <1>10 DEF IInv, TypeOK, Task, FeedInv, ReadsAreCurrent, Live
  <2>3. (Announced(o) /\ CalledOut(o) /\ Shown(o))'
    BY <1>3, <1>4, <1>10 DEF Announced, CalledOut, Shown, ToldOfAll
  <2>4. ToldOrPending'
    BY <1>4, <1>8, <1>9, <1>10, <2>3 DEF IInv, FeedInv, ToldOrPending, Live
  <2>5. QED
    BY <1>5, <2>1, <2>1a, <2>2, <2>4 DEF IInv, FeedInv
<1>11. CASE \E k \in Tasks, kind \in {"changed", "delivered", "refresh"}, step \in {"read", "emit"} :
               /\ Start(k, kind, step, {o}, t) /\ Announces(kind, by)
               /\ step = "emit" => kind = "refresh"
  <2>1. PICK k \in Tasks, kind \in {"changed", "delivered", "refresh"}, step \in {"read", "emit"} :
               /\ Start(k, kind, step, {o}, t) /\ Announces(kind, by)
               /\ step = "emit" => kind = "refresh"
    BY <1>11
  <2> DEFINE h == [kind |-> kind, step |-> step, orders |-> {o}, table |-> t,
                   got |-> NothingRead]
  <2>2. task[k].kind = "idle" /\ task' = [task EXCEPT ![k] = h]
    BY <2>1 DEF Start
  <2>3. /\ h \in Task /\ h.kind = kind /\ h.step = step /\ h.orders = {o} /\ h.table = t
        /\ h.got = NothingRead
    BY IdleTask DEF Task
  <2> HIDE DEF h
  <2>4. task'[k] = h /\ \A j \in Tasks : j # k => task'[j] = task[j]
    BY <2>2 DEF IInv, TypeOK
  <2>5. TypeOK'
    BY <1>6, <2>2, <2>3 DEF IInv, TypeOK
  <2>6. TasksMatch'
    BY <1>3, <1>4, <1>7a, <2>1, <2>3, <2>4, IdleTask DEF IInv, FeedInv, TasksMatch
  <2>7. ReadsAreCurrent'
    BY <1>1, <1>4, <1>7, <2>1, <2>3, <2>4
       DEF IInv, TypeOK, Task, FeedInv, ReadsAreCurrent, Live
  <2>8. Pending(k, o)'
    BY <1>3, <1>4, <2>1, <2>3, <2>4 DEF Pending
  <2>9. \A p \in Orders : ~Pending(k, p)
    BY <2>2 DEF Pending, Announces
  <2>10. ToldOrPending'
    BY <1>4, <1>8, <1>9, <2>4, <2>8, <2>9 DEF IInv, FeedInv, ToldOrPending, Live
  <2>11. QED
    BY <1>5, <2>5, <2>6, <2>7, <2>10 DEF IInv, FeedInv
<1>12. QED
  BY <1>10, <1>11

\* New orders: their task tells the kitchen.
LEMMA CreateManyStep ==
  ASSUME IInv, NEW k \in Tasks, NEW os \in SUBSET Orders, NEW t \in Tables,
         CreateMany(k, os, t)
  PROVE  IInv'
<1>1. PICK inactive \in SUBSET os :
        orders' = [o \in Orders |->
            IF o \in os
            THEN [state |-> "LIVE", status |-> IF o \in inactive THEN "CANCELLED" ELSE "PENDING",
                  table |-> t, ver |-> 1, by |-> "guest"]
            ELSE orders[o]]
  BY DEF CreateMany
<1>2. /\ \A o \in os : orders[o].state = "ABSENT"
      /\ writes < MaxWrites /\ writes' = writes + 1
      /\ clean' = (clean /\ \A o \in os : ~Busy(o))
      /\ UNCHANGED <<sent, last, silent, crashed>>
  BY DEF CreateMany, Wrote
<1>3. writes \in 0..MaxWrites /\ MaxWrites \in Nat
  BY FeedAssumption DEF IInv, TypeOK
<1>4. /\ orders' \in [Orders -> Order]
      /\ \A o \in os : /\ orders'[o].state = "LIVE" /\ orders'[o].table = t
                       /\ orders'[o].ver = 1 /\ orders'[o].by = "guest"
      /\ \A o \in Orders : o \notin os => orders'[o] = orders[o]
  <2>1. \A o \in os : [state |-> "LIVE", status |-> IF o \in inactive THEN "CANCELLED" ELSE "PENDING",
                       table |-> t, ver |-> 1, by |-> "guest"] \in Order
    BY <1>2, <1>3 DEF Order, OrderStatus, Writers
  <2>2. orders' \in [Orders -> Order]
    BY <1>1, <2>1 DEF IInv, TypeOK
  <2>3. QED
    BY <1>1, <2>2
<1> DEFINE h == [kind |-> "created", step |-> "read", orders |-> os, table |-> t,
                 got |-> NothingRead]
<1>5. task[k].kind = "idle" /\ task' = [task EXCEPT ![k] = h]
  BY DEF CreateMany, Start
<1>6. /\ h \in Task /\ h.kind = "created" /\ h.step = "read" /\ h.orders = os /\ h.table = t
      /\ h.got = NothingRead
  BY IdleTask DEF Task
<1> HIDE DEF h
<1>7. task'[k] = h /\ \A j \in Tasks : j # k => task'[j] = task[j]
  BY <1>5 DEF IInv, TypeOK
<1>8. TypeOK'
  BY <1>2, <1>3, <1>4, <1>5, <1>6 DEF IInv, TypeOK
<1>9. RowsMatch'
  BY <1>2, <1>3, <1>4, RowVersions DEF IInv, FeedInv, RowsMatch
<1>10. \A j \in Tasks : \A o \in task[j].orders : o \in Orders /\ o \notin os
  BY <1>2 DEF IInv, TypeOK, Task, FeedInv, TasksMatch
<1>11. TasksMatch'
  BY <1>4, <1>6, <1>7, <1>10, IdleTask DEF IInv, FeedInv, TasksMatch
<1>12. ReadsAreCurrent'
  <2>1. clean' => clean
    BY <1>2
  <2>2. \A j \in Tasks, o \in Orders : o \in task[j].orders => orders'[o] = orders[o]
    BY <1>4, <1>10
  <2>3. QED
    BY <1>6, <1>7, <1>10, <2>1, <2>2 DEF IInv, FeedInv, ReadsAreCurrent, Live
<1>13. ToldOrPending'
  <2>1. \A o \in os : Pending(k, o)'
    BY <1>4, <1>6, <1>7 DEF Pending, Announces
  <2>2. \A o \in Orders : ~Pending(k, o)
    BY <1>5 DEF Pending, Announces
  <2>3. \A j \in Tasks, o \in Orders : Pending(j, o) => Pending(j, o)'
    BY <1>4, <1>7, <1>10, <2>2 DEF Pending
  <2>4. \A o \in Orders : o \notin os /\ Announced(o) /\ CalledOut(o) /\ Shown(o) =>
                             (Announced(o) /\ CalledOut(o) /\ Shown(o))'
    BY <1>2, <1>4, ToldStays
  <2>5. QED
    BY <1>2, <1>4, <2>1, <2>3, <2>4 DEF IInv, FeedInv, ToldOrPending, Live
<1>14. QED
  BY <1>8, <1>9, <1>11, <1>12, <1>13 DEF IInv, FeedInv

\* A write of an order, and whom the role of its writer tells.
LEMMA UpdateSteps ==
  ASSUME IInv, NEW k \in Tasks, NEW o \in Orders, NEW s \in OrderStatus, NEW t \in Tables,
         NEW by \in {"chef", "staff", "desk"},
         Put(o, s, t, by), Announce(k, o, t, by), UNCHANGED <<sent, last, crashed>>
  PROVE  IInv'
<1>1. CASE by = "desk"
  BY <1>1, PutStep DEF Announce
<1>2. CASE by = "chef"
  <2>1. Start(k, "changed", "read", {o}, t) /\ Announces("changed", by)
    BY <1>2 DEF Announce, Announces
  <2>2. QED
    BY <2>1, PutStep
<1>3. CASE by = "staff"
  <2>1. Start(k, "refresh", "emit", {o}, t) /\ Announces("refresh", by)
    BY <1>3 DEF Announce, Announces
  <2>2. QED
    BY <2>1, PutStep
<1>4. QED
  BY <1>1, <1>2, <1>3

\* Whatever a request writes, what is not told yet has a task.
LEMMA WriteStep ==
  ASSUME IInv, NEW k \in Tasks, Write(k)
  PROVE  IInv'
<1>1. \A o \in Orders : Live(o) => orders[o].table \in Tables
  BY DEF IInv, FeedInv, RowsMatch, Live
<1>2. CASE \E o \in Orders, s \in Asked, by \in {"chef", "staff", "desk"} :
             updateStatus(k, o, s, by) \/ \E t \in Tables : Update(k, o, s, t, by)
  BY <1>1, <1>2, UpdateSteps, FeedAssumption DEF updateStatus, Update, Put
<1>3. ASSUME NEW o \in Orders, deliverOrderByStaff(k, o) PROVE IInv'
  <2>1. Start(k, "delivered", "read", {o}, orders[o].table) /\ Announces("delivered", "delivery")
    BY <1>3 DEF deliverOrderByStaff, Announces
  <2>2. /\ Put(o, "DELIVERED", orders[o].table, "delivery") /\ orders[o].table \in Tables
        /\ UNCHANGED <<sent, last, crashed>> /\ "DELIVERED" \in OrderStatus
    BY <1>1, <1>3 DEF deliverOrderByStaff, Put, OrderStatus
  <2>3. QED
    BY <2>1, <2>2, PutStep
<1>4. QED
  BY <1>2, <1>3, CreateManyStep DEF Write

\* The payment of the bill writes an order and tells nobody.
LEMMA CompleteStep ==
  ASSUME IInv, NEW o \in Orders, CompleteBillPayment(o)
  PROVE  IInv'
<1>1. /\ Put(o, "COMPLETED", orders[o].table, "bill") /\ orders[o].table \in Tables
      /\ UNCHANGED <<task, sent, last, crashed>> /\ "COMPLETED" \in OrderStatus
  BY DEF CompleteBillPayment, Put, OrderStatus, IInv, FeedInv, RowsMatch, Live
<1>2. QED
  BY <1>1, PutStep

\* What is deleted needs no telling.
LEMMA DeleteStep ==
  ASSUME IInv, NEW o \in Orders, Delete(o)
  PROVE  IInv'
<1>1. /\ orders[o].state = "LIVE" /\ orders' = [orders EXCEPT ![o].state = "DELETED"]
      /\ UNCHANGED <<writes, task, sent, last, silent, clean, crashed>>
  BY DEF Delete, Live
<1>2. /\ orders' \in [Orders -> Order]
      /\ orders'[o].state = "DELETED" /\ orders'[o].ver = orders[o].ver
      /\ orders'[o].table = orders[o].table
      /\ \A p \in Orders : p # o => orders'[p] = orders[p]
  BY <1>1 DEF IInv, TypeOK, Order
<1>3. TypeOK'
  BY <1>1, <1>2 DEF IInv, TypeOK
<1>4. RowsMatch'
  BY <1>1, <1>2 DEF IInv, FeedInv, RowsMatch
<1>5. TasksMatch'
  <2>1. \A k \in Tasks : task[k].orders \subseteq Orders
    BY DEF IInv, TypeOK, Task
  <2>2. QED
    BY <1>1, <1>2, <2>1 DEF IInv, FeedInv, TasksMatch
<1>6. ReadsAreCurrent'
  <2>1. \A k \in Tasks : task[k].orders \subseteq Orders
    BY DEF IInv, TypeOK, Task
  <2>2. QED
    BY <1>1, <1>2, <2>1 DEF IInv, FeedInv, ReadsAreCurrent, Live
<1>7. ToldOrPending'
  <2>1. \A p \in Orders, k \in Tasks : p # o /\ Pending(k, p) => Pending(k, p)'
    BY <1>1, <1>2 DEF Pending
  <2>2. \A p \in Orders : p # o /\ Announced(p) /\ CalledOut(p) /\ Shown(p) =>
                             (Announced(p) /\ CalledOut(p) /\ Shown(p))'
    BY <1>1, <1>2, ToldStays
  <2>3. QED
    BY <1>1, <1>2, <2>1, <2>2 DEF IInv, FeedInv, ToldOrPending, Live
<1>8. QED
  BY <1>3, <1>4, <1>5, <1>6, <1>7 DEF IInv, FeedInv

-----------------------------------------------------------------------------
(* Tasks                                                                   *)

\* If the server goes down, the tasks are gone, and with them the promise.
LEMMA GoDownStep == ASSUME IInv, GoDown PROVE IInv'
<1>1. /\ task' = [k \in Tasks |-> Idle] /\ crashed' = TRUE
      /\ UNCHANGED <<orders, writes, sent, last, silent, clean>>
  BY DEF GoDown
<1>2. TypeOK'
  BY <1>1, IdleTask DEF IInv, TypeOK
<1>3. (RowsMatch /\ TasksMatch /\ ReadsAreCurrent /\ ToldOrPending)'
  BY <1>1, IdleTask DEF IInv, FeedInv, RowsMatch, TasksMatch, ReadsAreCurrent, ToldOrPending
<1>4. QED
  BY <1>2, <1>3 DEF IInv, FeedInv

\* What a task reads of an order that is still there is the row its last write left.
LEMMA ReadAgainStep ==
  ASSUME IInv, NEW k \in Tasks, ReadAgain(k)
  PROVE  IInv'
<1> DEFINE os == task[k].orders
           kind == task[k].kind
           got == [o \in Orders |-> IF o \in os THEN IF kind = "created" \/ Live(o) THEN orders[o]
                                                     ELSE None
                                    ELSE None]
           h == [task[k] EXCEPT !.step = "emit", !.got = got]
<1>1. CASE GoDown
  BY <1>1, GoDownStep
<1>2. CASE /\ task' = [task EXCEPT ![k] = h]
           /\ UNCHANGED <<orders, writes, sent, last, silent, clean, crashed>>
  <2>1. kind \in {"created", "changed", "delivered"} /\ task[k].step = "read"
    BY DEF ReadAgain
  <2>2. /\ task[k] \in Task /\ os \subseteq Orders
        /\ kind = "changed" => \E o \in Orders : os = {o}
        /\ \A o \in os : orders[o].state # "ABSENT"
        /\ task[k].table \in Tables
    BY <2>1 DEF IInv, TypeOK, Task, FeedInv, TasksMatch
  <2>3. /\ got \in [Orders -> Order \cup {None}]
        /\ \A o \in os : Live(o) => got[o] = orders[o]
        /\ \A o \in Orders : got[o] # None => o \in os /\ got[o] = orders[o]
    BY <2>2 DEF IInv, TypeOK
  <2> HIDE DEF got
  <2>4. /\ h \in Task /\ h.step = "emit" /\ h.kind = kind /\ h.orders = os
        /\ h.table = task[k].table /\ h.got = got
    BY <2>2, <2>3 DEF Task
  <2> HIDE DEF h
  <2>5. task'[k] = h /\ \A j \in Tasks : j # k => task'[j] = task[j]
    BY <1>2 DEF IInv, TypeOK
  <2>6. TypeOK'
    BY <1>2, <2>4 DEF IInv, TypeOK
  <2>7. RowsMatch'
    BY <1>2 DEF IInv, FeedInv, RowsMatch
  <2>8. \A o \in os : got[o] # None => got[o].ver > 0
    BY <2>2, <2>3 DEF IInv, FeedInv, RowsMatch
  <2>9. TasksMatch'
    <3>1. /\ h.table \in Tables
          /\ h.kind = "changed" => \E o \in Orders : h.orders = {o}
          /\ \A o \in h.orders : orders[o].state # "ABSENT"
          /\ \A o \in Orders : h.got[o] # None => h.got[o].ver > 0
      BY <2>2, <2>3, <2>4, <2>8
    <3>2. QED
      BY <1>2, <2>5, <3>1 DEF IInv, FeedInv, TasksMatch
  <2>10. ReadsAreCurrent'
    <3>1. \A o \in h.orders : Live(o) => h.got[o] = orders[o]
      BY <2>3, <2>4
    <3>2. QED
      BY <1>2, <2>5, <3>1 DEF IInv, FeedInv, ReadsAreCurrent, Live
  <2>11. ToldOrPending'
    <3>1. ASSUME NEW o \in Orders, Live(o), Pending(k, o) PROVE Pending(k, o)'
      <4>1. o \in os /\ got[o] = orders[o]
        BY <2>3, <3>1 DEF Pending
      <4>2. QED
        BY <1>2, <2>4, <2>5, <3>1, <4>1 DEF Pending
    <3>2. \A o \in Orders, j \in Tasks : Live(o) /\ Pending(j, o) => Pending(j, o)'
      BY <1>2, <2>5, <3>1 DEF Pending
    <3>3. \A o \in Orders : Announced(o) /\ CalledOut(o) /\ Shown(o) =>
                               (Announced(o) /\ CalledOut(o) /\ Shown(o))'
      BY <1>2, ToldStays
    <3>4. QED
      BY <1>2, <3>2, <3>3 DEF IInv, FeedInv, ToldOrPending, Live
  <2>12. QED
    BY <2>6, <2>7, <2>9, <2>10, <2>11 DEF IInv, FeedInv
<1>3. QED
  BY <1>1, <1>2 DEF ReadAgain, IInv, TypeOK

\* A delivery that cannot be read again is one nobody promises to tell of.
LEMMA FailToReadStep ==
  ASSUME IInv, NEW k \in Tasks, FailToReadDelivered(k)
  PROVE  IInv'
<1>1. /\ task[k].kind = "delivered"
      /\ task' = [task EXCEPT ![k] = Idle] /\ silent' = silent \cup task[k].orders
      /\ UNCHANGED <<orders, writes, sent, last, clean, crashed>>
  BY DEF FailToReadDelivered
<1>2. /\ task'[k] = Idle /\ \A j \in Tasks : j # k => task'[j] = task[j]
      /\ task[k].orders \subseteq Orders
  BY <1>1 DEF IInv, TypeOK, Task
<1>3. TypeOK'
  BY <1>1, <1>2, IdleTask DEF IInv, TypeOK
<1>4. RowsMatch'
  BY <1>1 DEF IInv, FeedInv, RowsMatch
<1>5. TasksMatch' /\ ReadsAreCurrent'
  BY <1>1, <1>2, IdleTask DEF IInv, FeedInv, TasksMatch, ReadsAreCurrent, Live
<1>6. ToldOrPending'
  <2>1. \A o \in Orders, j \in Tasks : j # k /\ Pending(j, o) => Pending(j, o)'
    BY <1>1, <1>2 DEF Pending
  <2>2. \A o \in Orders : Announced(o) /\ CalledOut(o) /\ Shown(o) =>
                             (Announced(o) /\ CalledOut(o) /\ Shown(o))'
    BY <1>1, ToldStays
  <2>3. ASSUME NEW o \in Orders, Pending(k, o)
        PROVE  (Announced(o) /\ CalledOut(o) /\ Shown(o))'
    <3>1. orders'[o].by = "delivery" /\ o \in silent'
      BY <1>1, <2>3 DEF Pending, Announces
    <3>2. QED
      BY <3>1 DEF Announced, CalledOut, Shown, ToldOfAll
  <2>4. QED
    BY <1>1, <2>1, <2>2, <2>3 DEF IInv, FeedInv, ToldOrPending, Live
<1>7. QED
  BY <1>3, <1>4, <1>5, <1>6 DEF IInv, FeedInv

\* A task that is done has told what was pending with it, and what it puts on the staff's
\* screen is how the order stands, if no write overlapped.
LEMMA TellStep ==
  ASSUME IInv, NEW k \in Tasks, Done(k), sent \subseteq sent', sent' \subseteq Event,
         last' \in [Audiences -> [Orders -> [ver: 0..MaxWrites, status: OrderStatus]]],
         \A o \in Orders : Live(o) /\ Pending(k, o) =>
            (Announced(o) /\ CalledOut(o) /\ Shown(o))',
         \A o \in Orders : Live(o) /\ clean =>
            \/ last'["staff"][o].status = last["staff"][o].status
            \/ last'["staff"][o].status = orders[o].status
  PROVE  IInv'
<1>1. task' = [task EXCEPT ![k] = Idle] /\ UNCHANGED <<orders, writes, silent, clean, crashed>>
  BY DEF Done
<1>2. task'[k] = Idle /\ \A j \in Tasks : j # k => task'[j] = task[j]
  BY <1>1 DEF IInv, TypeOK
<1>3. TypeOK'
  BY <1>1, IdleTask DEF IInv, TypeOK
<1>4. RowsMatch'
  BY <1>1 DEF IInv, FeedInv, RowsMatch
<1>5. TasksMatch' /\ ReadsAreCurrent'
  BY <1>1, <1>2, IdleTask DEF IInv, FeedInv, TasksMatch, ReadsAreCurrent, Live
<1>6. ToldOrPending'
  <2>1. \A o \in Orders, j \in Tasks : j # k /\ Pending(j, o) => Pending(j, o)'
    BY <1>1, <1>2 DEF Pending
  <2>2. \A o \in Orders : Live(o) /\ Announced(o) /\ CalledOut(o) /\ Shown(o) =>
                             (Announced(o) /\ CalledOut(o) /\ Shown(o))'
    BY <1>1, ToldStays
  <2>3. QED
    BY <1>1, <2>1, <2>2 DEF IInv, FeedInv, ToldOrPending, Live
<1>7. QED
  BY <1>3, <1>4, <1>5, <1>6 DEF IInv, FeedInv

\* Tables are rooms; chef and staff are none of them.
LEMMA AudienceTypes ==
  /\ Tables \subseteq Audiences /\ "chef" \in Audiences /\ "staff" \in Audiences
  /\ "staff" \notin Tables /\ "staff" # "chef"
BY FeedAssumption DEF Audiences

\* What a task has got is a row it was to read.
LEMMA GotRows ==
  ASSUME IInv, NEW k \in Tasks
  PROVE  /\ Got(k) \subseteq Orders
         /\ \A o \in Got(k) : /\ task[k].got[o] \in Order /\ task[k].got[o].ver \in 1..MaxWrites
                              /\ task[k].got[o].status \in OrderStatus
<1>1. /\ task[k].got \in [Orders -> Order \cup {None}] /\ task[k].orders \subseteq Orders
      /\ \A o \in Orders : task[k].got[o] # None => task[k].got[o].ver > 0
  BY DEF IInv, TypeOK, Task, FeedInv, TasksMatch
<1>2. \A row \in Order : row.ver > 0 => row.ver \in 1..MaxWrites /\ row.status \in OrderStatus
  BY FeedAssumption DEF Order
<1>3. QED
  BY <1>1, <1>2 DEF Got

\* The events Emit is used with, one of them, and all of those about some orders.
EventNames == {"send-order-to-chef", "update-order", "order-delivered"}
News(e, a, o, v) == [event |-> e, to |-> a, order |-> o, ver |-> v]
AllNews(E, A, O, v) == {News(e, a, o, v[o].ver) : e \in E, a \in A, o \in O}

\* What emitting an event about os adds, with what row says of them.
Emitted(events, as, os, row) ==
    /\ sent \subseteq sent' /\ sent' \subseteq Event
    /\ last' \in [Audiences -> [Orders -> [ver: 0..MaxWrites, status: OrderStatus]]]
    /\ \A e \in events, a \in as, o \in os : News(e, a, o, row[o].ver) \in sent'
    /\ \A a \in Audiences, o \in Orders : last'[a][o].status =
          IF a \in as /\ o \in os THEN row[o].status ELSE last[a][o].status

\* What the set of those events contains, and what contains it.
LEMMA NewsOf ==
  ASSUME NEW E, NEW A, NEW O, NEW v, NEW S
  PROVE  /\ \A e \in E, a \in A, o \in O : News(e, a, o, v[o].ver) \in AllNews(E, A, O, v)
         /\ (\A e \in E, a \in A, o \in O : News(e, a, o, v[o].ver) \in S) =>
               AllNews(E, A, O, v) \subseteq S
BY DEF AllNews

\* An event that is emitted about os, with what row says of them.
LEMMA EmitTypes ==
  ASSUME IInv,
         NEW events, events \subseteq EventNames, NEW as, as \subseteq Audiences,
         NEW os, os \subseteq Orders, NEW row,
         \A o \in os : row[o].ver \in 1..MaxWrites /\ row[o].status \in OrderStatus,
         Emit(events, as, os, row)
  PROVE  Emitted(events, as, os, row)
<1> DEFINE new == AllNews(events, as, os, row)
<1>1. sent' = sent \cup new
  BY DEF Emit, AllNews, News
<1>2. new \subseteq Event
  <2>1. \A e \in events, a \in as, o \in os : News(e, a, o, row[o].ver) \in Event
    BY DEF Event, News, EventNames
  <2>2. QED
    BY <2>1, NewsOf
<1>3. /\ sent \subseteq Event
      /\ last \in [Audiences -> [Orders -> [ver: 0..MaxWrites, status: OrderStatus]]]
  BY DEF IInv, TypeOK
<1>4. \A o \in os : [ver |-> row[o].ver, status |-> row[o].status]
                       \in [ver: 0..MaxWrites, status: OrderStatus]
  <2>1. \A i \in 1..MaxWrites : i \in 0..MaxWrites
    BY FeedAssumption
  <2>2. QED
    BY <2>1
<1>5. \A e \in events, a \in as, o \in os : News(e, a, o, row[o].ver) \in new
  BY NewsOf
<1> HIDE DEF new
<1>6. last' = [a \in Audiences |-> [o \in Orders |->
                 IF a \in as /\ o \in os THEN [ver |-> row[o].ver, status |-> row[o].status]
                 ELSE last[a][o]]]
  BY DEF Emit
<1>7. last' \in [Audiences -> [Orders -> [ver: 0..MaxWrites, status: OrderStatus]]]
  BY <1>3, <1>4, <1>6
<1>8. \A a \in Audiences, o \in Orders :
         last'[a][o].status = IF a \in as /\ o \in os THEN row[o].status ELSE last[a][o].status
  BY <1>6
<1>9. QED
  BY <1>1, <1>2, <1>3, <1>5, <1>7, <1>8 DEF Emitted

\* sendOrderToChef tells the kitchen of new orders.
LEMMA ChefStep ==
  ASSUME IInv, NEW k \in Tasks, sendOrderToChef(k)
  PROVE  IInv'
<1> DEFINE row == task[k].got
           to == {"chef"}
           es == {"send-order-to-chef"}
<1>1. /\ task[k].kind = "created" /\ task[k].step = "emit" /\ Done(k)
      /\ Emit(es, to, Got(k), row)
  BY DEF sendOrderToChef
<1>2. Got(k) \subseteq Orders /\ \A o \in Got(k) : row[o].ver \in 1..MaxWrites /\ row[o].status \in OrderStatus
  BY GotRows
<1>3. to \subseteq Audiences /\ es \subseteq EventNames
  BY AudienceTypes DEF EventNames
<1> HIDE DEF row, to, es
<1>4. Emitted(es, to, Got(k), row)
  BY <1>1, <1>2, <1>3, EmitTypes
<1>5. /\ \A o \in Got(k) : News("send-order-to-chef", "chef", o, row[o].ver) \in sent'
      /\ \A o \in Orders : last'["staff"][o].status = last["staff"][o].status
  BY <1>4, AudienceTypes DEF Emitted, to, es
<1>6. ASSUME NEW o \in Orders, Live(o), Pending(k, o)
      PROVE  (Announced(o) /\ CalledOut(o) /\ Shown(o))'
  <2>1. orders[o].by = "guest" /\ o \in task[k].orders /\ row[o] = orders[o] /\ orders' = orders
    BY <1>1, <1>6 DEF Pending, Announces, row, Done
  <2>2. o \in Got(k)
    BY <2>1, FeedAssumption DEF Got, row, IInv, TypeOK
  <2>3. QED
    BY <1>5, <2>1, <2>2 DEF Announced, CalledOut, Shown, Told, ToldOfAll, News
<1>7. QED
  BY <1>1, <1>4, <1>5, <1>6, TellStep DEF Emitted

\* notifyOrderDeliveredToGuest and handleUpdateOrder tell room and staff of a delivery.
LEMMA DeliveredStep ==
  ASSUME IInv, NEW k \in Tasks, notifyOrderDelivered(k)
  PROVE  IInv'
<1> DEFINE row == task[k].got
           to == {task[k].table, "staff"}
           es == {"order-delivered", "update-order"}
<1>1. /\ task[k].kind = "delivered" /\ task[k].step = "emit" /\ Done(k)
      /\ Emit(es, to, Got(k), row)
  BY DEF notifyOrderDelivered
<1>2. /\ Got(k) \subseteq Orders
      /\ \A o \in Got(k) : row[o].ver \in 1..MaxWrites /\ row[o].status \in OrderStatus
  BY GotRows
<1>3. task[k].table \in Audiences /\ task[k].table # "chef"
  BY <1>1, AudienceTypes, FeedAssumption DEF IInv, FeedInv, TasksMatch
<1>4. to \subseteq Audiences /\ es \subseteq EventNames
  BY <1>3, AudienceTypes DEF EventNames
<1> HIDE DEF row, to, es
<1>5. Emitted(es, to, Got(k), row)
  BY <1>1, <1>2, <1>4, EmitTypes
<1>6. /\ \A o \in Got(k) : /\ News("update-order", task[k].table, o, row[o].ver) \in sent'
                           /\ News("update-order", "staff", o, row[o].ver) \in sent'
      /\ \A o \in Orders : last'["staff"][o].status =
                             IF o \in Got(k) THEN row[o].status ELSE last["staff"][o].status
  BY <1>5, AudienceTypes DEF Emitted, to, es
<1>7. ASSUME NEW o \in Orders, Live(o), Pending(k, o)
      PROVE  (Announced(o) /\ CalledOut(o) /\ Shown(o))'
  <2>1. /\ orders[o].by = "delivery" /\ o \in task[k].orders /\ row[o] = orders[o]
        /\ orders' = orders /\ orders[o].table = task[k].table
    BY <1>1, <1>7 DEF Pending, Announces, row, Done
  <2>2. o \in Got(k)
    BY <2>1, FeedAssumption DEF Got, row, IInv, TypeOK
  <2>3. QED
    BY <1>6, <2>1, <2>2 DEF Announced, CalledOut, Shown, Told, ToldOfAll, News
<1>8. \A o \in Orders : Live(o) /\ clean =>
            \/ last'["staff"][o].status = last["staff"][o].status
            \/ last'["staff"][o].status = orders[o].status
  <2>1. \A o \in Got(k) : Live(o) /\ clean => row[o] = orders[o]
    BY <1>1 DEF Got, row, IInv, FeedInv, ReadsAreCurrent
  <2>2. QED
    BY <1>6, <2>1
<1>9. QED
  BY <1>1, <1>5, <1>7, <1>8, TellStep DEF Emitted

\* handleUpdateOrder tells room and staff of a chef's change, and calls the staff for a
\* dish that is ready.
LEMMA ChangedStep ==
  ASSUME IInv, NEW k \in Tasks, handleUpdateOrder(k)
  PROVE  IInv'
<1> DEFINE row == task[k].got
           to == {task[k].table, "staff"}
<1>1. task[k].kind = "changed" /\ task[k].step = "emit" /\ Done(k)
  BY DEF handleUpdateOrder
<1>2. PICK o \in Got(k) :
        /\ sent' = sent \cup {[event |-> "update-order", to |-> a, order |-> o,
                               ver |-> row[o].ver] : a \in to}
                        \cup Ready(o, row)
        /\ last' = [a \in Audiences |->
             IF a \in to
             THEN [last[a] EXCEPT ![o] = [ver |-> row[o].ver, status |-> row[o].status]]
             ELSE last[a]]
  BY DEF handleUpdateOrder
<1>3. o \in Orders /\ row[o].ver \in 1..MaxWrites /\ row[o].status \in OrderStatus
  BY GotRows
<1>4. to \subseteq Audiences /\ "staff" \in to /\ task[k].table \in to
  BY <1>1, AudienceTypes DEF IInv, FeedInv, TasksMatch
<1>5. task[k].orders = {o} /\ row[o] = task[k].got[o]
  BY <1>1 DEF IInv, FeedInv, TasksMatch, Got
<1> HIDE DEF row, to
<1> DEFINE v == row[o].ver
           s == row[o].status
           new == {News("update-order", a, o, v) : a \in to}
           ready == IF s = "SHIPPED" THEN {News("order-ready-for-delivery", "staff", o, v)} ELSE {}
<1>6. sent' = sent \cup new \cup ready
  BY <1>2 DEF News, Ready
<1>7. last' = [a \in Audiences |->
          IF a \in to THEN [last[a] EXCEPT ![o] = [ver |-> v, status |-> s]] ELSE last[a]]
  BY <1>2
<1>8. v \in 1..MaxWrites /\ s \in OrderStatus
  BY <1>3
<1> HIDE DEF v, s
<1>9. new \subseteq Event /\ ready \subseteq Event
  <2>1. /\ \A a \in to : News("update-order", a, o, v) \in Event
        /\ News("order-ready-for-delivery", "staff", o, v) \in Event
    BY <1>3, <1>4, <1>8, AudienceTypes DEF News, Event
  <2>2. QED
    BY <2>1
<1>10. /\ News("update-order", "staff", o, v) \in new
       /\ News("update-order", task[k].table, o, v) \in new
       /\ s = "SHIPPED" => News("order-ready-for-delivery", "staff", o, v) \in ready
  BY <1>4
<1> HIDE DEF new, ready
<1>11. sent \subseteq sent' /\ sent' \subseteq Event
  BY <1>6, <1>9 DEF IInv, TypeOK
<1>12. /\ last' \in [Audiences -> [Orders -> [ver: 0..MaxWrites, status: OrderStatus]]]
       /\ \A p \in Orders : last'["staff"][p].status = IF p = o THEN s ELSE last["staff"][p].status
  <2>1. [ver |-> v, status |-> s] \in [ver: 0..MaxWrites, status: OrderStatus]
    BY <1>8, FeedAssumption
  <2>2. last \in [Audiences -> [Orders -> [ver: 0..MaxWrites, status: OrderStatus]]]
    BY DEF IInv, TypeOK
  <2>3. last' \in [Audiences -> [Orders -> [ver: 0..MaxWrites, status: OrderStatus]]]
    BY <1>7, <2>1, <2>2
  <2>4. last'["staff"] = [last["staff"] EXCEPT ![o] = [ver |-> v, status |-> s]]
    BY <1>4, <1>7, AudienceTypes
  <2>5. last["staff"] \in [Orders -> [ver: 0..MaxWrites, status: OrderStatus]]
    BY <2>2, AudienceTypes
  <2>6. QED
    BY <1>3, <2>3, <2>4, <2>5
<1>13. ASSUME NEW p \in Orders, Live(p), Pending(k, p)
       PROVE  (Announced(p) /\ CalledOut(p) /\ Shown(p))'
  <2>1. /\ p = o /\ orders[p].by = "chef" /\ row[o] = orders[o] /\ orders' = orders
        /\ orders[o].table = task[k].table
    BY <1>1, <1>5, <1>13 DEF Pending, Announces, Done
  <2>2. v = orders[o].ver /\ s = orders[o].status
    BY <2>1 DEF v, s
  <2>3. /\ News("update-order", "staff", o, v) \in sent'
        /\ News("update-order", task[k].table, o, v) \in sent'
        /\ s = "SHIPPED" => News("order-ready-for-delivery", "staff", o, v) \in sent'
    BY <1>6, <1>10
  <2>4. QED
    BY <1>12, <2>1, <2>2, <2>3 DEF Announced, CalledOut, Shown, Told, ToldOfAll, News
<1>14. \A p \in Orders : Live(p) /\ clean =>
          \/ last'["staff"][p].status = last["staff"][p].status
          \/ last'["staff"][p].status = orders[p].status
  <2>1. Live(o) /\ clean => row[o] = orders[o]
    BY <1>1, <1>5 DEF IInv, FeedInv, ReadsAreCurrent
  <2>2. QED
    BY <1>12, <2>1 DEF s
<1>15. QED
  BY <1>1, <1>11, <1>12, <1>13, <1>14, TellStep

\* sendOrderToGuest makes the table's guests read the list again.
LEMMA RefreshStep ==
  ASSUME IInv, NEW k \in Tasks, sendOrderToGuest(k)
  PROVE  IInv'
<1> DEFINE t == task[k].table
           to == {t}
           es == {"update-order"}
           os == findByTableNumber(t)
<1>1. task[k].kind = "refresh" /\ Done(k) /\ Emit(es, to, os, orders)
  BY DEF sendOrderToGuest
<1>2. t \in Tables
  BY <1>1 DEF IInv, FeedInv, TasksMatch
<1>3. to \subseteq Audiences /\ es \subseteq EventNames /\ os \subseteq Orders
  BY <1>2, AudienceTypes DEF EventNames, findByTableNumber
<1>4. \A o \in os : orders[o].ver \in 1..MaxWrites /\ orders[o].status \in OrderStatus
  <2>1. \A o \in os : o \in Orders /\ orders[o].ver > 0
    BY DEF findByTableNumber, Live, IInv, FeedInv, RowsMatch
  <2>2. \A o \in Orders : orders[o].ver \in 0..MaxWrites /\ orders[o].status \in OrderStatus
    BY DEF IInv, TypeOK, Order
  <2> HIDE DEF os
  <2>3. \A i \in 0..MaxWrites : i > 0 => i \in 1..MaxWrites
    OBVIOUS
  <2>4. QED
    BY <2>1, <2>2, <2>3
<1> HIDE DEF to, es, os
<1>5. Emitted(es, to, os, orders)
  BY <1>1, <1>3, <1>4, EmitTypes
<1>6. /\ \A o \in os : News("update-order", t, o, orders[o].ver) \in sent'
      /\ \A o \in Orders : last'["staff"][o].status = last["staff"][o].status
  BY <1>2, <1>5, AudienceTypes DEF Emitted, to, es
<1>7. ASSUME NEW o \in Orders, Live(o), Pending(k, o)
      PROVE  (Announced(o) /\ CalledOut(o) /\ Shown(o))'
  <2>1. orders[o].by = "staff" /\ orders' = orders /\ orders[o].table = t
    BY <1>1, <1>7 DEF Pending, Announces, Done
  <2>2. orders[o].status # "COMPLETED" => o \in os
    BY <1>7, <2>1 DEF os, findByTableNumber
  <2>3. QED
    BY <1>6, <2>1, <2>2 DEF Announced, CalledOut, Shown, Told, ToldOfAll, News
<1>8. QED
  BY <1>1, <1>5, <1>6, <1>7, TellStep DEF Emitted

-----------------------------------------------------------------------------
(* What holds of every behaviour                                           *)

\* The invariant is inductive.
LEMMA FeedStep == IInv /\ [Next]_vars => IInv'
<1> SUFFICES ASSUME IInv, [Next]_vars PROVE IInv'
  OBVIOUS
<1>1. ASSUME NEW k \in Tasks, Tell(k) PROVE IInv'
  BY <1>1, ReadAgainStep, FailToReadStep, ChefStep, ChangedStep, DeliveredStep, RefreshStep
     DEF Tell
<1>2. CASE UNCHANGED vars
  BY <1>2, ZenonT(30) DEF vars, IInv, TypeOK, FeedInv, RowsMatch, TasksMatch, ReadsAreCurrent,
     ToldOrPending, Announced, CalledOut, Shown, Pending, Live, Told, ToldOfAll
<1>3. QED
  BY <1>1, <1>2, WriteStep, DeleteStep, CompleteStep, GoDownStep DEF Next, Crash

\* IInv holds in every state.
LEMMA Inductive == Spec => []IInv
  BY InitFeed, FeedStep, PTL DEF Spec

\* Rows, tasks, events and screens keep their types, for any number of each.
THEOREM TypeCorrect == Spec => []TypeOK
<1>1. IInv => TypeOK
  BY DEF IInv
<1>2. QED
  BY <1>1, Inductive, PTL

\* When nothing is under way any more, everything has been told or nothing is to be.
LEMMA ToldAtRest ==
  ASSUME IInv, AtRest, NEW o \in Orders, Live(o)
  PROVE  Announced(o) /\ CalledOut(o) /\ Shown(o)
<1>1. \A k \in Tasks : ~Pending(k, o)
  BY DEF AtRest, Pending, Announces
<1>2. QED
  BY <1>1 DEF AtRest, IInv, FeedInv, ToldOrPending

\* Unless the server goes down, or the delivery that left it so could not be read again, the
\* state an order is left in is announced to those its last writer tells, however requests
\* and what they announce overlap.
THEOREM ChangesAreAnnounced == Spec => []ChangeIsAnnounced
<1>1. IInv => ChangeIsAnnounced
  BY ToldAtRest DEF ChangeIsAnnounced, Announced, findByTableNumber
<1>2. QED
  BY <1>1, Inductive, PTL

\* What the kitchen leaves SHIPPED has been called out to the staff as ready.
THEOREM ShippedIsCalledOut == Spec => []ShippedIsReady
<1>1. IInv => ShippedIsReady
  BY ToldAtRest DEF ShippedIsReady, CalledOut, staffDeliveryList
<1>2. QED
  BY <1>1, Inductive, PTL

\* A screen that follows the events agrees with staffDeliveryList on the orders whose last
\* write was read again, if none was written while an earlier write of it was being told.
THEOREM ScreensShowTheList == Spec => []ScreenShowsTheList
<1>1. IInv => ScreenShowsTheList
  BY ToldAtRest DEF ScreenShowsTheList, Shown, staffDeliveryList
<1>2. QED
  BY <1>1, Inductive, PTL

-----------------------------------------------------------------------------
(* GuestVisit                                                              *)

\* The awaits a request stops at, and what it may hold meanwhile.
VisitStage == {"idle", "create", "sign", "update", "occupy", "dish", "many",
               "granted", "refused", "failed"}
Token      == Nat \cup {Null}
Offers     == [dish: Dishes, price: Prices \cup {0}, status: {"ACTIVE", "INACTIVE"}]

\* A request: what a slot holds.
Visit == [at: VisitStage, kind: {"none", "login", "refresh", "order"},
          guest: Guests \cup {NoId}, token: Token, items: Seq(Dishes), taken: Seq(Offers),
          orders: SUBSET [snapshot: Nat, status: {"PENDING", "CANCELLED"}],
          before: SUBSET Token, menu: SUBSET Offers]

\* A Dish row.
DishRow == [state: {"NONE", "LIVE", "DELETED"}, price: Prices \cup {0},
            status: {"ACTIVE", "INACTIVE"}, category: Categories \cup {NoId}]

\* The types of the rows, tokens and requests.
VisitTypeOK ==
    /\ table \in TableStatus
    /\ guest \in [Guests -> [exists: BOOLEAN, refreshToken: Token]]
    /\ held \in [Guests -> SUBSET Token] /\ written \in [Guests -> SUBSET Token]
    /\ outdated \in [Guests -> SUBSET Token]
    /\ signed \in Nat
    /\ category \in [Categories -> {"NONE", "LIVE", "DELETED"}]
    /\ dish \in [Dishes -> DishRow]
    /\ req \in [Reqs -> Visit]

\* Only logins and refreshes sign tokens, only orders take dishes, from the front of the
\* items: there is one to take at "dish", and none is left at "many".
StageFits(q) ==
    /\ q.at = "idle" <=> q.guest = NoId
    /\ q.at \in {"create", "sign", "update"} => q.kind # "order"
    /\ q.at \in {"occupy", "dish", "many"} => q.kind = "order"
    /\ q.at \in {"occupy", "dish"} => Len(q.taken) < Len(q.items)
    /\ q.at = "many" => Len(q.taken) = Len(q.items)

\* Types and stages, which every later proof builds on.
VisitInv == VisitTypeOK /\ \A r \in Reqs : StageFits(req[r])

-----------------------------------------------------------------------------
(* Requests                                                                *)

\* A slot no request is in.
LEMMA FreeSlot ==
  /\ NoRequest \in Visit /\ NoRequest.at = "idle" /\ NoRequest.kind = "none"
  /\ NoRequest.guest = NoId /\ NoRequest.items = <<>> /\ NoRequest.taken = <<>>
  /\ NoRequest.before = {}
BY DEF NoRequest, Visit, VisitStage, Token

\* What is on the menu has a price and a status.
LEMMA MenuTyped == VisitTypeOK => Menu \subseteq Offers
BY DEF VisitTypeOK, Menu, Offer, Offers, DishRow

\* A request has just begun in slot r.
Begun(r, at, kind, g, items, before) ==
    /\ req' \in [Reqs -> Visit] /\ \A s \in Reqs \ {r} : req'[s] = req[s]
    /\ req'[r].at = at /\ req'[r].kind = kind /\ req'[r].guest = g
    /\ req'[r].items = items /\ req'[r].taken = <<>> /\ req'[r].before = before
    /\ req'[r].menu = {o \in Menu : o.dish \in Wanted(req'[r])}

\* A request that begins has seen the menu of what it asks for as it is.
LEMMA BeginStep ==
  ASSUME VisitTypeOK, NEW r \in Reqs, NEW q \in Visit, Begin(r, q), q.taken = <<>>
  PROVE  Begun(r, q.at, q.kind, q.guest, q.items, q.before)
<1>1. Menu \subseteq Offers /\ req \in [Reqs -> Visit]
  BY MenuTyped DEF VisitTypeOK
<1> DEFINE menu == {o \in Menu : o.dish \in Wanted(q)}
           n == [q EXCEPT !.menu = menu]
<1>2. req' = [req EXCEPT ![r] = n]
  BY DEF Begin
<1>3. menu \subseteq Offers
  BY <1>1
<1> HIDE DEF menu
<1>4. /\ n \in Visit /\ n.at = q.at /\ n.kind = q.kind /\ n.guest = q.guest
      /\ n.items = q.items /\ n.taken = q.taken /\ n.before = q.before /\ n.menu = menu
  BY <1>3 DEF Visit
<1> HIDE DEF n
<1>5. req' \in [Reqs -> Visit] /\ req'[r] = n /\ \A s \in Reqs \ {r} : req'[s] = req[s]
  BY <1>1, <1>2, <1>4
<1>6. Wanted(n) = Wanted(q)
  BY <1>4 DEF Wanted
<1>7. n.menu = {o \in Menu : o.dish \in Wanted(n)}
  BY <1>4, <1>6 DEF menu
<1>8. QED
  BY <1>4, <1>5, <1>7 DEF Begun

\* login goes on to create the guest, or refuses, by the table it read.
LEMMA LoginStep ==
  ASSUME VisitTypeOK, NEW r \in Reqs, NEW g \in Guests, NEW valid \in BOOLEAN,
         login(r, g, valid)
  PROVE  \E at \in {"create", "refused"} : Begun(r, at, "login", g, <<>>, {})
<1> DEFINE at == IF valid /\ TableInUse THEN "create" ELSE "refused"
           q == [NoRequest EXCEPT !.at = at, !.kind = "login", !.guest = g]
<1>1. at \in VisitStage /\ at \in {"create", "refused"}
  BY DEF VisitStage
<1>2. Begin(r, q)
  BY DEF login
<1> HIDE DEF at
<1>3. /\ q \in Visit /\ q.at = at /\ q.kind = "login" /\ q.guest = g
      /\ q.items = <<>> /\ q.taken = <<>> /\ q.before = {}
  BY <1>1, FreeSlot DEF Visit
<1> HIDE DEF q
<1>4. Begun(r, at, "login", g, <<>>, {})
  BY <1>2, <1>3, BeginStep
<1>5. QED
  BY <1>1, <1>4

\* refreshToken goes on to sign, or refuses; it remembers what the row has had.
LEMMA RefreshBegins ==
  ASSUME VisitTypeOK, NEW r \in Reqs, NEW g \in Guests, refreshToken(r, g)
  PROVE  \E at \in {"sign", "refused"} : Begun(r, at, "refresh", g, <<>>, written[g])
<1> DEFINE at == IF TableInUse THEN "sign" ELSE "refused"
           q == [NoRequest EXCEPT !.at = at, !.kind = "refresh", !.guest = g,
                                  !.before = written[g]]
<1>1. at \in VisitStage /\ at \in {"sign", "refused"} /\ written[g] \in SUBSET Token
  BY DEF VisitStage, VisitTypeOK
<1>2. Begin(r, q)
  BY DEF refreshToken
<1> HIDE DEF at
<1>3. /\ q \in Visit /\ q.at = at /\ q.kind = "refresh" /\ q.guest = g
      /\ q.items = <<>> /\ q.taken = <<>> /\ q.before = written[g]
  BY <1>1, FreeSlot DEF Visit
<1> HIDE DEF q
<1>4. Begun(r, at, "refresh", g, <<>>, written[g])
  BY <1>2, <1>3, BeginStep
<1>5. QED
  BY <1>1, <1>4

\* create goes on to occupy the table or to the first dish, or refuses.
LEMMA OrderStep ==
  ASSUME VisitTypeOK, NEW r \in Reqs, NEW g \in Guests, NEW items \in Seq(Dishes),
         CreateOrder(r, g, items)
  PROVE  \E at \in {"dish", "occupy", "refused"} : Begun(r, at, "order", g, items, {})
<1> DEFINE at == CASE table = "OCCUPIED"  -> "dish"
                   [] table = "AVAILABLE" -> "occupy"
                   [] OTHER               -> "refused"
           q == [NoRequest EXCEPT !.kind = "order", !.guest = g, !.items = items, !.at = at]
<1>1. at \in VisitStage /\ at \in {"dish", "occupy", "refused"}
  <2>1. CASE table = "OCCUPIED"
    BY <2>1 DEF VisitStage
  <2>2. CASE table = "AVAILABLE"
    <3>1. at = "occupy"
      BY <2>2
    <3>2. QED
      BY <3>1 DEF VisitStage
  <2>3. CASE table # "OCCUPIED" /\ table # "AVAILABLE"
    <3>1. at = "refused"
      BY <2>3, Zenon
    <3>2. QED
      BY <3>1 DEF VisitStage
  <2>4. QED
    BY <2>1, <2>2, <2>3
<1>2. Begin(r, q)
  BY DEF CreateOrder
<1> HIDE DEF at
<1>3. /\ q \in Visit /\ q.at = at /\ q.kind = "order" /\ q.guest = g
      /\ q.items = items /\ q.taken = <<>> /\ q.before = {}
  BY <1>1, FreeSlot DEF Visit
<1> HIDE DEF q
<1>4. Begun(r, at, "order", g, items, {})
  BY <1>2, <1>3, BeginStep
<1>5. QED
  BY <1>1, <1>4

\* q is the request p some time later, no step of its own between them.
Later(p, q) ==
    /\ q.at = p.at /\ q.kind = p.kind /\ q.guest = p.guest /\ q.token = p.token
    /\ q.items = p.items /\ q.taken = p.taken /\ q.orders = p.orders /\ q.before = p.before
    /\ p.menu \subseteq q.menu

\* Learning of a change changes nothing else of a request.
LEMMA SeesStep ==
  ASSUME NEW q \in Visit, Menu' \subseteq Offers
  PROVE  /\ Sees(q) \in Visit /\ Later(q, Sees(q))
         /\ q.at # "idle" => \A o \in Menu' : o.dish \in Wanted(q) => o \in Sees(q).menu
<1>1. CASE q.at = "idle"
  BY <1>1 DEF Sees, Later
<1>2. CASE q.at # "idle"
  <2> DEFINE menu == q.menu \cup {o \in Menu' : o.dish \in Wanted(q)}
             n == [q EXCEPT !.menu = menu]
  <2>1. Sees(q) = n
    BY <1>2 DEF Sees
  <2>2. /\ menu \in SUBSET Offers /\ q.menu \subseteq menu
        /\ \A o \in Menu' : o.dish \in Wanted(q) => o \in menu
    BY DEF Visit
  <2> HIDE DEF menu
  <2>3. /\ n \in Visit /\ n.menu = menu
        /\ n.at = q.at /\ n.kind = q.kind /\ n.guest = q.guest /\ n.token = q.token
        /\ n.items = q.items /\ n.taken = q.taken /\ n.orders = q.orders
        /\ n.before = q.before
    BY <2>2 DEF Visit
  <2> HIDE DEF n
  <2>4. QED
    BY <2>1, <2>2, <2>3 DEF Later
<1>3. QED
  BY <1>1, <1>2

\* All requests under way learn of a change.
Noticed == /\ req' \in [Reqs -> Visit]
           /\ \A s \in Reqs : req[s].at # "idle" =>
                 \A o \in Menu' : o.dish \in Wanted(req'[s]) => o \in req'[s].menu

\* What a request asks for stays the same.
LEMMA WantedLater == ASSUME NEW p, NEW q, Later(p, q) PROVE Wanted(q) = Wanted(p)
BY DEF Later, Wanted

\* A change of the menu is learned of by every request.
LEMMA NoticeStep ==
  ASSUME VisitTypeOK, Menu' \subseteq Offers, EveryoneSees
  PROVE  Noticed /\ \A s \in Reqs : Later(req[s], req'[s])
<1>1. \A s \in Reqs : req[s] \in Visit /\ req'[s] = Sees(req[s])
  BY DEF VisitTypeOK, EveryoneSees
<1>2. \A s \in Reqs : req'[s] \in Visit /\ Later(req[s], req'[s])
  BY <1>1, SeesStep
<1>3. req' \in [Reqs -> Visit]
  BY <1>2 DEF EveryoneSees
<1>4. ASSUME NEW s \in Reqs, req[s].at # "idle",
             NEW o \in Menu', o.dish \in Wanted(req'[s])
      PROVE  o \in req'[s].menu
  BY <1>1, <1>2, <1>4, WantedLater, SeesStep
<1>5. QED
  BY <1>2, <1>3, <1>4 DEF Noticed

\* The request in slot r goes on to the stage at, its items, dishes and sightings unchanged.
Moves(r, at) ==
    /\ req' \in [Reqs -> Visit] /\ \A s \in Reqs \ {r} : req'[s] = req[s]
    /\ req'[r].at = at /\ req'[r].kind = req[r].kind /\ req'[r].guest = req[r].guest
    /\ req'[r].items = req[r].items /\ req'[r].taken = req[r].taken
    /\ req'[r].before = req[r].before
    /\ req'[r].menu = req[r].menu

\* Setting the stage alone is such a move.
LEMMA MoveStep ==
  ASSUME VisitTypeOK, NEW r \in Reqs, NEW at \in VisitStage, req' = [req EXCEPT ![r].at = at]
  PROVE  Moves(r, at) /\ req'[r].token = req[r].token
<1> DEFINE n == [req[r] EXCEPT !.at = at]
<1>1. req \in [Reqs -> Visit] /\ req[r] \in Visit
  BY DEF VisitTypeOK
<1>2. /\ n \in Visit /\ n.at = at /\ n.kind = req[r].kind /\ n.guest = req[r].guest
      /\ n.items = req[r].items /\ n.taken = req[r].taken /\ n.before = req[r].before
      /\ n.menu = req[r].menu /\ n.token = req[r].token
  BY <1>1 DEF Visit
<1>3. req' = [req EXCEPT ![r] = n]
  OBVIOUS
<1> HIDE DEF n
<1>4. QED
  BY <1>1, <1>2, <1>3 DEF Moves

\* generateTokens gives the request the next token, and changes nothing else of it.
LEMMA SignStep ==
  ASSUME VisitTypeOK, NEW r \in Reqs, generateTokens(r)
  PROVE  Moves(r, "update") /\ req'[r].token = signed + 1
<1> DEFINE n == [req[r] EXCEPT !.at = "update", !.token = signed + 1]
<1>1. /\ req \in [Reqs -> Visit] /\ req[r] \in Visit /\ "update" \in VisitStage
      /\ signed + 1 \in Token
  BY DEF VisitTypeOK, VisitStage, Token
<1>2. /\ n \in Visit /\ n.at = "update" /\ n.kind = req[r].kind /\ n.guest = req[r].guest
      /\ n.items = req[r].items /\ n.taken = req[r].taken /\ n.before = req[r].before
      /\ n.menu = req[r].menu /\ n.token = signed + 1
  BY <1>1 DEF Visit
<1>3. req' = [req EXCEPT ![r] = n]
  BY <1>1 DEF generateTokens
<1> HIDE DEF n
<1>4. QED
  BY <1>1, <1>2, <1>3 DEF Moves

\* The last call of create: one order per dish taken, PENDING if the dish was ACTIVE.
LEMMA InsertStep ==
  ASSUME VisitTypeOK, NEW r \in Reqs, InsertOrders(r)
  PROVE  /\ Moves(r, "granted")
         /\ req'[r].orders =
               {[snapshot |-> i, status |-> IF req[r].taken[i].status = "ACTIVE"
                                            THEN "PENDING" ELSE "CANCELLED"] :
                   i \in DOMAIN req[r].taken}
<1> DEFINE inserted == {[snapshot |-> i, status |-> IF req[r].taken[i].status = "ACTIVE"
                                                    THEN "PENDING" ELSE "CANCELLED"] :
                           i \in DOMAIN req[r].taken}
           n == [req[r] EXCEPT !.at = "granted", !.orders = inserted]
<1>1. req \in [Reqs -> Visit] /\ req[r] \in Visit /\ "granted" \in VisitStage
  BY DEF VisitTypeOK, VisitStage
<1>2. DOMAIN req[r].taken \subseteq Nat
  BY <1>1 DEF Visit
<1>3. inserted \subseteq [snapshot: Nat, status: {"PENDING", "CANCELLED"}]
  BY <1>2
<1>4. req' = [req EXCEPT ![r] = n]
  BY <1>1 DEF InsertOrders
<1> HIDE DEF inserted
<1>5. /\ n \in Visit /\ n.at = "granted" /\ n.kind = req[r].kind /\ n.guest = req[r].guest
      /\ n.items = req[r].items /\ n.taken = req[r].taken /\ n.before = req[r].before
      /\ n.menu = req[r].menu /\ n.orders = inserted
  BY <1>1, <1>3 DEF Visit
<1> HIDE DEF n
<1>6. Moves(r, "granted") /\ req'[r].orders = inserted
  BY <1>1, <1>4, <1>5 DEF Moves
<1>7. QED
  BY <1>6 DEF inserted

\* The next dish in slot r is taken as it is on the menu.
Takes(r) ==
    /\ req' \in [Reqs -> Visit] /\ \A s \in Reqs \ {r} : req'[s] = req[s]
    /\ Item(r) \in Dishes /\ Item(r) \in Wanted(req[r]) /\ Offer(Item(r)) \in Menu
    /\ req'[r].at = IF Len(req[r].taken) + 1 = Len(req[r].items) THEN "many" ELSE "dish"
    /\ req'[r].kind = req[r].kind /\ req'[r].guest = req[r].guest
    /\ req'[r].items = req[r].items
    /\ req'[r].taken = Append(req[r].taken, Offer(Item(r)))
    /\ req'[r].before = req[r].before
    /\ req'[r].menu = req[r].menu

\* CreateSnapshot fails on a dish that is gone and takes any other.
LEMMA SnapshotStep ==
  ASSUME VisitInv, NEW r \in Reqs, CreateSnapshot(r)
  PROVE  Moves(r, "failed") \/ Takes(r)
<1>1. VisitTypeOK /\ req \in [Reqs -> Visit] /\ req[r] \in Visit /\ StageFits(req[r])
  BY DEF VisitInv, VisitTypeOK
<1>2. CASE dish[Item(r)].state # "LIVE"
  <2>1. req' = [req EXCEPT ![r].at = "failed"] /\ "failed" \in VisitStage
    BY <1>2 DEF CreateSnapshot, VisitStage
  <2>2. QED
    BY <1>1, <2>1, MoveStep
<1>3. CASE dish[Item(r)].state = "LIVE"
  <2> DEFINE at == IF Len(req[r].taken) + 1 = Len(req[r].items) THEN "many" ELSE "dish"
             taken == Append(req[r].taken, Offer(Item(r)))
             n == [req[r] EXCEPT !.taken = taken, !.at = at]
  <2>1. /\ req[r].taken \in Seq(Offers) /\ req[r].items \in Seq(Dishes)
        /\ Len(req[r].taken) < Len(req[r].items)
    BY <1>1 DEF Visit, StageFits, CreateSnapshot
  <2>2. Len(req[r].taken) + 1 \in DOMAIN req[r].items
    BY <2>1
  <2>3. Item(r) \in Dishes /\ Item(r) \in Wanted(req[r])
    BY <2>1, <2>2 DEF Item, Wanted
  <2>4. Offer(Item(r)) \in Menu
    BY <1>3, <2>3 DEF Menu
  <2>5. taken \in Seq(Offers) /\ at \in VisitStage
    BY <1>1, <2>1, <2>4, MenuTyped DEF VisitStage
  <2>6. req' = [req EXCEPT ![r] = n]
    BY <1>1, <1>3 DEF CreateSnapshot, Take
  <2> HIDE DEF at, taken
  <2>7. /\ n \in Visit /\ n.at = at /\ n.kind = req[r].kind /\ n.guest = req[r].guest
        /\ n.items = req[r].items /\ n.taken = taken /\ n.before = req[r].before
        /\ n.menu = req[r].menu
    BY <1>1, <2>5 DEF Visit
  <2> HIDE DEF n
  <2>8. req' \in [Reqs -> Visit] /\ req'[r] = n /\ \A s \in Reqs \ {r} : req'[s] = req[s]
    BY <1>1, <2>6, <2>7
  <2>9. QED
    BY <2>3, <2>4, <2>7, <2>8 DEF Takes, at, taken
<1>4. QED
  BY <1>2, <1>3

-----------------------------------------------------------------------------
(* Types and stages                                                        *)

\* An order is a sequence of at least one dish.
LEMMA SomeItems ==
  ASSUME NEW n \in 1..MaxItems, NEW items \in [1..MaxItems -> Dishes]
  PROVE  SubSeq(items, 1, n) \in Seq(Dishes) /\ Len(SubSeq(items, 1, n)) > 0
<1>1. items \in Seq(Dishes) /\ Len(items) = MaxItems /\ n \in Nat /\ n >= 1 /\ n <= MaxItems
  BY VisitAssumption
<1>2. QED
  BY <1>1

\* Guest g orders something, from slot r.
PlacesOrder(r, g) == \E items \in Seq(Dishes) : Len(items) > 0 /\ CreateOrder(r, g, items)

\* A guest who will be g comes with a token of a table, valid or not, from slot r.
LogsIn(r, g) == \E valid \in BOOLEAN : login(r, g, valid)

\* The steps of a request, an order being any sequence of dishes that is not empty.
LEMMA StepsOfARequest ==
  ASSUME NEW r \in Reqs, Handle(r)
  PROVE  \/ CreateGuest(r) \/ generateTokens(r) \/ UpdateGuest(r)
         \/ \E g \in Guests : LogsIn(r, g) \/ refreshToken(r, g) \/ PlacesOrder(r, g)
         \/ OccupyTable(r) \/ CreateSnapshot(r) \/ InsertOrders(r)
         \/ Answer(r) \/ Stop(r)
<1>1. ASSUME NEW g \in Guests, NEW n \in 1..MaxItems, NEW items \in [1..MaxItems -> Dishes],
             CreateOrder(r, g, SubSeq(items, 1, n))
      PROVE  PlacesOrder(r, g)
  BY <1>1, SomeItems DEF PlacesOrder
<1>2. QED
  BY <1>1 DEF Handle, LogsIn

\* Dishes' rows of their type give a menu of offers.
LEMMA NewMenuTyped == dish' \in [Dishes -> DishRow] => Menu' \subseteq Offers
BY DEF Menu, Offer, Offers, DishRow

\* A request that has just begun fits its stage.
LEMMA BegunFits ==
  ASSUME VisitInv, NEW r \in Reqs, NEW at, NEW kind, NEW g \in Guests, NEW items, NEW before,
         Begun(r, at, kind, g, items, before), at \notin {"idle", "update", "many"},
         at \in {"create", "sign"} => kind # "order",
         at \in {"occupy", "dish"} => kind = "order" /\ Len(items) > 0
  PROVE  \A s \in Reqs : StageFits(req'[s])
<1>1. StageFits(req'[r])
  <2>1. g # NoId /\ Len(req'[r].taken) = 0
    BY VisitAssumption DEF Begun
  <2>2. QED
    BY <2>1 DEF Begun, StageFits
<1>2. QED
  BY <1>1 DEF VisitInv, Begun

\* So does one that goes on without taking a dish.
LEMMA MovesFits ==
  ASSUME VisitInv, NEW r \in Reqs, NEW at, Moves(r, at), req[r].at # "idle",
         at \in {"sign", "update", "dish", "granted", "failed"},
         at \in {"sign", "update"} => req[r].kind # "order",
         at = "dish" => req[r].at = "occupy"
  PROVE  \A s \in Reqs : StageFits(req'[s])
<1>1. StageFits(req'[r])
  BY DEF VisitInv, Moves, StageFits
<1>2. QED
  BY <1>1 DEF VisitInv, Moves

\* Learning of a change keeps a request in its stage.
LEMMA LaterFits ==
  ASSUME NEW p, NEW q, Later(p, q), StageFits(p)
  PROVE  StageFits(q)
BY DEF Later, StageFits

\* Answered or not, a request that is over frees the slot.
LEMMA EndStep ==
  ASSUME VisitTypeOK, NEW r \in Reqs, End(r)
  PROVE  /\ req' \in [Reqs -> Visit] /\ \A s \in Reqs \ {r} : req'[s] = req[s]
         /\ req'[r] = NoRequest
BY FreeSlot DEF End, VisitTypeOK

\* The rest of the state.
RowsTyped ==
    /\ table \in TableStatus
    /\ guest \in [Guests -> [exists: BOOLEAN, refreshToken: Token]]
    /\ held \in [Guests -> SUBSET Token] /\ written \in [Guests -> SUBSET Token]
    /\ outdated \in [Guests -> SUBSET Token]
    /\ signed \in Nat
    /\ category \in [Categories -> {"NONE", "LIVE", "DELETED"}]
    /\ dish \in [Dishes -> DishRow]

\* Types are those of the requests and of the rest.
LEMMA RowsTypedDef == VisitTypeOK <=> RowsTyped /\ req \in [Reqs -> Visit]
BY DEF VisitTypeOK, RowsTyped

\* No request is under way at the start.
LEMMA InitVisit == VisitInit => VisitInv
<1> SUFFICES ASSUME VisitInit PROVE VisitInv
  OBVIOUS
<1>1. NoGuest \in [exists: BOOLEAN, refreshToken: Token] /\ NoDish \in DishRow
  BY DEF NoGuest, NoDish, DishRow, Token
<1>2. RowsTyped
  BY <1>1 DEF VisitInit, RowsTyped, TableStatus, InUse
<1>3. req \in [Reqs -> Visit] /\ \A r \in Reqs : req[r] = NoRequest
  BY FreeSlot DEF VisitInit
<1>4. StageFits(NoRequest)
  BY FreeSlot DEF StageFits
<1>5. QED
  BY <1>2, <1>3, <1>4, RowsTypedDef DEF VisitInv

\* Every step keeps the types of the rows and tokens.
LEMMA RowsStep ==
  ASSUME VisitTypeOK, VisitNext
  PROVE  RowsTyped'
<1> USE DEF VisitTypeOK, RowsTyped
<1>1. ASSUME NEW r \in Reqs, NEW g \in Guests,
             LogsIn(r, g) \/ refreshToken(r, g) \/ PlacesOrder(r, g)
      PROVE  RowsTyped'
  BY <1>1 DEF LogsIn, login, refreshToken, PlacesOrder, CreateOrder
<1>2. ASSUME NEW r \in Reqs, CreateGuest(r)
      PROVE  RowsTyped'
  <2>1. [NoGuest EXCEPT !.exists = TRUE] \in [exists: BOOLEAN, refreshToken: Token]
    BY DEF NoGuest, Token
  <2>2. QED
    BY <1>2, <2>1 DEF CreateGuest
<1>3. ASSUME NEW r \in Reqs, generateTokens(r) \/ OccupyTable(r) \/ CreateSnapshot(r) \/ InsertOrders(r)
      PROVE  RowsTyped'
  BY <1>3 DEF generateTokens, OccupyTable, CreateSnapshot, InsertOrders, TableStatus
<1>4. ASSUME NEW r \in Reqs, UpdateGuest(r)
      PROVE  RowsTyped'
  <2>1. req[r].token \in Token
    BY DEF Visit
  <2>2. QED
    BY <1>4, <2>1 DEF UpdateGuest
<1>5. ASSUME NEW r \in Reqs, Answer(r) \/ Stop(r)
      PROVE  RowsTyped'
  <2> DEFINE given(g) == held[g] \cup {req[r].token}
             wrote(g) == written[g] \cup {req[r].token}
             replaced(g) == outdated[g] \cup req[r].before
  <2>1. req[r].token \in Token /\ req[r].before \in SUBSET Token
    BY DEF Visit
  <2>2. \A g \in Guests : /\ given(g) \in SUBSET Token /\ wrote(g) \in SUBSET Token
                          /\ replaced(g) \in SUBSET Token
    BY <2>1
  <2>3. held' \in [Guests -> SUBSET Token]
    <3>1. held' = held \/ held' = [held EXCEPT ![req[r].guest] = given(req[r].guest)]
      BY <1>5 DEF Answer, Stop
    <3> HIDE DEF given
    <3>2. QED
      BY <2>2, <3>1
  <2>4. written' \in [Guests -> SUBSET Token] /\ outdated' \in [Guests -> SUBSET Token]
    <3>1. \/ written' = written /\ outdated' = outdated
          \/ /\ written' = [written EXCEPT ![req[r].guest] = wrote(req[r].guest)]
             /\ outdated' = [outdated EXCEPT ![req[r].guest] = replaced(req[r].guest)]
      BY <1>5 DEF Answer, Stop, End
    <3> HIDE DEF wrote, replaced
    <3>2. QED
      BY <2>2, <3>1
  <2>5. QED
    BY <1>5, <2>3, <2>4 DEF Answer, Stop, End
<1>6. ASSUME NEW g \in Guests, logout(g)
      PROVE  RowsTyped'
  BY <1>6 DEF logout, LoggedOut, Token
<1>7. ASSUME Staff
      PROVE  RowsTyped'
  <2>1. Body \subseteq DishRow
    BY DEF Body, DishRow
  <2>2. ASSUME NEW c \in Categories, CreateCategory(c) \/ DeleteCategory(c)
        PROVE  RowsTyped'
    BY <2>2 DEF CreateCategory, DeleteCategory
  <2>3. ASSUME NEW d \in Dishes, NEW body \in Body, CreateDish(d, body) \/ UpdateDish(d, body)
        PROVE  RowsTyped'
    BY <2>1, <2>3 DEF CreateDish, UpdateDish
  <2>4. ASSUME NEW d \in Dishes, DeleteDish(d)
        PROVE  RowsTyped'
    <3>1. [dish[d] EXCEPT !.state = "DELETED"] \in DishRow
      BY DEF DishRow
    <3>2. dish' = [dish EXCEPT ![d] = [dish[d] EXCEPT !.state = "DELETED"]]
      BY <2>4 DEF DeleteDish
    <3>3. QED
      BY <2>4, <3>1, <3>2 DEF DeleteDish
  <2>5. ASSUME NEW s \in TableStatus, SetTable(s)
        PROVE  RowsTyped'
    BY <2>5 DEF SetTable
  <2>6. QED
    BY <1>7, <2>2, <2>3, <2>4, <2>5 DEF Staff
<1>8. QED
  <2>1. ASSUME NEW r \in Reqs, Handle(r) PROVE RowsTyped'
    BY <1>1, <1>2, <1>3, <1>4, <1>5, <2>1, StepsOfARequest
  <2>2. QED
    BY <1>6, <1>7, <2>1 DEF VisitNext

\* Every step keeps types and stages.
LEMMA VisitStep ==
  ASSUME VisitInv, VisitNext
  PROVE  VisitInv'
<1> DEFINE Goal == req' \in [Reqs -> Visit] /\ \A s \in Reqs : StageFits(req'[s])
<1>1. VisitTypeOK /\ RowsTyped' /\ \A s \in Reqs : req[s] \in Visit /\ StageFits(req[s])
  BY RowsStep DEF VisitInv, VisitTypeOK
<1>2. SUFFICES Goal
  BY <1>1, RowsTypedDef DEF VisitInv, VisitTypeOK, RowsTyped
<1>3. Menu' \subseteq Offers
  BY <1>1, NewMenuTyped DEF RowsTyped
<1>4. ASSUME NEW r \in Reqs, NEW g \in Guests, LogsIn(r, g)
      PROVE  Goal
  <2>1. PICK at \in {"create", "refused"} : Begun(r, at, "login", g, <<>>, {})
    BY <1>1, <1>4, LoginStep DEF LogsIn
  <2>2. QED
    BY <2>1, BegunFits DEF Begun
<1>5. ASSUME NEW r \in Reqs, NEW g \in Guests, refreshToken(r, g)
      PROVE  Goal
  <2>1. PICK at \in {"sign", "refused"} : Begun(r, at, "refresh", g, <<>>, written[g])
    BY <1>1, <1>5, RefreshBegins
  <2>2. QED
    BY <2>1, BegunFits DEF Begun
<1>6. ASSUME NEW r \in Reqs, NEW g \in Guests, PlacesOrder(r, g)
      PROVE  Goal
  <2>1. PICK items \in Seq(Dishes) : Len(items) > 0 /\ CreateOrder(r, g, items)
    BY <1>6 DEF PlacesOrder
  <2>2. PICK at \in {"dish", "occupy", "refused"} : Begun(r, at, "order", g, items, {})
    BY <1>1, <2>1, OrderStep
  <2>3. QED
    BY <2>1, <2>2, BegunFits DEF Begun
<1>7. ASSUME NEW r \in Reqs, NEW at \in {"sign", "update", "dish", "granted", "failed"},
             Moves(r, at), req[r].at # "idle",
             at \in {"sign", "update"} => req[r].kind # "order",
             at = "dish" => req[r].at = "occupy"
      PROVE  Goal
  BY <1>7, MovesFits DEF Moves
<1>8. ASSUME NEW r \in Reqs, CreateGuest(r) \/ UpdateGuest(r)
      PROVE  \E at \in {"sign", "granted"} : Moves(r, at)
  <2>1. "sign" \in VisitStage /\ "granted" \in VisitStage
    BY DEF VisitStage
  <2>2. QED
    BY <1>1, <1>8, <2>1, MoveStep DEF CreateGuest, UpdateGuest
<1>9. ASSUME NEW r \in Reqs, CreateGuest(r) \/ generateTokens(r) \/ UpdateGuest(r) \/ InsertOrders(r)
      PROVE  Goal
  <2>1. req[r].at # "idle" /\ (req[r].at # "many" => req[r].kind # "order")
    BY <1>1, <1>9 DEF StageFits, CreateGuest, generateTokens, UpdateGuest, InsertOrders
  <2>2. req[r].at # "many" \/ InsertOrders(r)
    BY <1>9 DEF CreateGuest, generateTokens, UpdateGuest
  <2>3. CASE InsertOrders(r)
    BY <1>1, <1>7, <2>1, <2>3, InsertStep
  <2>4. CASE ~InsertOrders(r)
    BY <1>1, <1>7, <1>8, <1>9, <2>1, <2>2, <2>4, SignStep
  <2>5. QED
    BY <2>3, <2>4
<1>10. ASSUME NEW r \in Reqs, OccupyTable(r)
       PROVE  Goal
  <2>1. Moves(r, "dish") /\ req[r].at = "occupy"
    BY <1>1, <1>10, MoveStep DEF OccupyTable, VisitStage
  <2>2. QED
    BY <1>7, <2>1
<1>11. ASSUME NEW r \in Reqs, CreateSnapshot(r)
       PROVE  Goal
  <2>1. req[r].at = "dish" /\ req[r].at # "idle"
    BY <1>11 DEF CreateSnapshot
  <2>2. CASE Moves(r, "failed")
    BY <1>7, <2>1, <2>2
  <2>3. CASE Takes(r)
    <3>1. /\ Len(req[r].taken) \in Nat /\ Len(req[r].items) \in Nat
          /\ Len(req'[r].taken) = Len(req[r].taken) + 1
      BY <1>1, <2>3, MenuTyped DEF Visit, Takes
    <3>2. StageFits(req'[r])
      BY <1>1, <2>1, <2>3, <3>1 DEF StageFits, Takes
    <3>3. QED
      BY <1>1, <2>3, <3>2 DEF Takes
  <2>4. QED
    BY <1>11, <2>2, <2>3, SnapshotStep
<1>12. ASSUME NEW r \in Reqs, Answer(r) \/ Stop(r)
       PROVE  Goal
  <2>1. StageFits(NoRequest)
    BY FreeSlot DEF StageFits
  <2>2. QED
    BY <1>1, <1>12, <2>1, EndStep DEF Answer, Stop
<1>13. ASSUME EveryoneSees
       PROVE  Goal
  BY <1>1, <1>3, <1>13, NoticeStep, LaterFits DEF Noticed
<1>14. ASSUME UNCHANGED req
       PROVE  Goal
  BY <1>1, <1>14 DEF VisitTypeOK
<1>15. ASSUME Staff
       PROVE  UNCHANGED req \/ EveryoneSees
  BY <1>15 DEF Staff, CreateCategory, DeleteCategory, CreateDish, UpdateDish, DeleteDish, SetTable
<1>16. ASSUME NEW g \in Guests, logout(g)
       PROVE  UNCHANGED req
  BY <1>16 DEF logout
<1>17. ASSUME NEW r \in Reqs, Handle(r)
       PROVE  Goal
  BY <1>4, <1>5, <1>6, <1>9, <1>10, <1>11, <1>12, <1>17, StepsOfARequest
<1>18. QED
  BY <1>13, <1>14, <1>15, <1>16, <1>17 DEF VisitNext

-----------------------------------------------------------------------------
(* What orders take                                                        *)

\* Dishes are taken in the order of the items, each as it was offered, and each has its
\* order once the orders are in.
Ordered(q) ==
    /\ \A i \in DOMAIN q.taken : q.taken[i].dish = q.items[i] /\ q.taken[i] \in q.menu
    /\ q.kind = "order" /\ q.at = "granted" =>
          \A i \in DOMAIN q.items : \E o \in q.orders :
              o.snapshot = i /\ (o.status = "PENDING" <=> q.taken[i].status = "ACTIVE")

\* What is offered now of the dishes asked for has been noticed.
UpToDate(q) == q.at # "idle" => \A o \in Menu : o.dish \in Wanted(q) => o \in q.menu

\* What the proof about dishes maintains.
HonestInv == \A r \in Reqs : Ordered(req[r]) /\ UpToDate(req[r])

\* The same, after a step, of one request.
Honest(s) == Ordered(req'[s]) /\ UpToDate(req[s])'

\* The invariant after a step is that of each request.
LEMMA HonestDef == HonestInv' <=> \A s \in Reqs : Honest(s)
BY DEF HonestInv, Honest, Ordered, UpToDate

\* The menu is the dishes' rows.
LEMMA SameMenu == UNCHANGED dish => Menu' = Menu
BY DEF Menu, Offer

\* Requests that a step leaves alone stay as they were, if the menu does.
LEMMA HonestStays ==
  ASSUME HonestInv, Menu' = Menu, NEW s \in Reqs, req'[s] = req[s]
  PROVE  Honest(s)
BY DEF HonestInv, Honest, UpToDate, Wanted

\* A request that begins has taken nothing.
LEMMA BegunHonest ==
  ASSUME HonestInv, UNCHANGED dish, NEW r \in Reqs, NEW at, NEW kind, NEW g, NEW items, NEW before,
         Begun(r, at, kind, g, items, before), at # "granted"
  PROVE  \A s \in Reqs : Honest(s)
<1>1. Menu' = Menu
  BY SameMenu
<1>2. Ordered(req'[r])
  BY DEF Begun, Ordered
<1>3. UpToDate(req[r])'
  BY <1>1 DEF Begun, UpToDate, Wanted
<1>4. \A s \in Reqs \ {r} : Honest(s)
  BY <1>1, HonestStays DEF Begun
<1>5. QED
  BY <1>2, <1>3, <1>4 DEF Honest

\* Going on without a dish keeps the dishes taken.
LEMMA MovesHonest ==
  ASSUME HonestInv, UNCHANGED dish, NEW r \in Reqs, NEW at, Moves(r, at),
         at # "idle", req[r].at \notin {"idle", "granted"},
         at = "granted" /\ req[r].kind = "order" => Ordered(req'[r])
  PROVE  \A s \in Reqs : Honest(s)
<1>1. Menu' = Menu
  BY SameMenu
<1>2. Ordered(req[r]) /\ UpToDate(req[r])
  BY DEF HonestInv
<1>3. Ordered(req'[r])
  BY <1>2 DEF Moves, Ordered
<1>4. UpToDate(req[r])'
  BY <1>1, <1>2 DEF Moves, UpToDate, Wanted
<1>5. \A s \in Reqs \ {r} : Honest(s)
  BY <1>1, HonestStays DEF Moves
<1>6. QED
  BY <1>3, <1>4, <1>5 DEF Honest

\* Seeing more takes nothing back.
LEMMA LaterHonest ==
  ASSUME NEW p, NEW q, Later(p, q), Ordered(p)
  PROVE  Ordered(q)
BY DEF Later, Ordered

\* Who learns of a change is up to date.
LEMMA NoticedHonest ==
  ASSUME Noticed, NEW s \in Reqs, Ordered(req'[s]),
         req'[s].at = "idle" <=> req[s].at = "idle"
  PROVE  Honest(s)
BY DEF Noticed, Honest, UpToDate

\* One transaction inserts an order for every item, since a dish has been taken for each.
LEMMA InsertedAreOrdered ==
  ASSUME VisitInv, HonestInv, NEW r \in Reqs, InsertOrders(r)
  PROVE  Ordered(req'[r])
<1> DEFINE q == req[r]
           o(i) == [snapshot |-> i, status |-> IF q.taken[i].status = "ACTIVE"
                                               THEN "PENDING" ELSE "CANCELLED"]
<1>1. q \in Visit /\ StageFits(q) /\ Ordered(q) /\ q.at = "many" /\ VisitTypeOK
  BY DEF VisitInv, VisitTypeOK, HonestInv, InsertOrders
<1>2. DOMAIN q.taken = DOMAIN q.items
  BY <1>1 DEF Visit, StageFits
<1>3. Moves(r, "granted") /\ req'[r].orders = {o(i) : i \in DOMAIN q.taken}
  BY <1>1, InsertStep
<1>4. ASSUME NEW i \in DOMAIN q.items
      PROVE  \E x \in req'[r].orders :
                x.snapshot = i /\ (x.status = "PENDING" <=> q.taken[i].status = "ACTIVE")
  <2>1. o(i) \in req'[r].orders
    BY <1>2, <1>3
  <2>2. o(i).snapshot = i /\ (o(i).status = "PENDING" <=> q.taken[i].status = "ACTIVE")
    OBVIOUS
  <2>3. QED
    BY <2>1, <2>2
<1>5. req'[r].taken = q.taken /\ req'[r].items = q.items /\ req'[r].menu = q.menu
  BY <1>3 DEF Moves
<1> HIDE DEF q, o
<1>6. QED
  BY <1>1, <1>4, <1>5 DEF Ordered

\* Every step keeps HonestInv, an edit of a dish between two items of an order too.
LEMMA HonestStep ==
  ASSUME VisitInv, HonestInv, VisitNext
  PROVE  HonestInv'
<1> DEFINE Goal == \A s \in Reqs : Honest(s)
<1>1. /\ VisitTypeOK /\ Menu \subseteq Offers /\ RowsTyped'
      /\ \A s \in Reqs : req[s] \in Visit /\ StageFits(req[s]) /\ Ordered(req[s])
  BY RowsStep, MenuTyped DEF VisitInv, VisitTypeOK, HonestInv
<1>2. SUFFICES Goal
  BY HonestDef
<1>3. Menu' \subseteq Offers
  BY <1>1, NewMenuTyped DEF RowsTyped
<1>4. ASSUME NEW r \in Reqs, NEW g \in Guests, LogsIn(r, g)
      PROVE  Goal
  <2>1. PICK at \in {"create", "refused"} : Begun(r, at, "login", g, <<>>, {})
    BY <1>1, <1>4, LoginStep DEF LogsIn
  <2>2. UNCHANGED dish
    BY <1>4 DEF LogsIn, login
  <2>3. QED
    BY <2>1, <2>2, BegunHonest
<1>5. ASSUME NEW r \in Reqs, NEW g \in Guests, refreshToken(r, g)
      PROVE  Goal
  <2>1. PICK at \in {"sign", "refused"} : Begun(r, at, "refresh", g, <<>>, written[g])
    BY <1>1, <1>5, RefreshBegins
  <2>2. UNCHANGED dish
    BY <1>5 DEF refreshToken
  <2>3. QED
    BY <2>1, <2>2, BegunHonest
<1>6. ASSUME NEW r \in Reqs, NEW g \in Guests, PlacesOrder(r, g)
      PROVE  Goal
  <2>1. PICK items \in Seq(Dishes) : CreateOrder(r, g, items)
    BY <1>6 DEF PlacesOrder
  <2>2. PICK at \in {"dish", "occupy", "refused"} : Begun(r, at, "order", g, items, {})
    BY <1>1, <2>1, OrderStep
  <2>3. UNCHANGED dish
    BY <2>1 DEF CreateOrder
  <2>4. QED
    BY <2>2, <2>3, BegunHonest
<1>7. ASSUME NEW r \in Reqs, CreateGuest(r) \/ generateTokens(r) \/ UpdateGuest(r) \/ InsertOrders(r)
      PROVE  Goal
  <2>1. UNCHANGED dish /\ req[r].at \notin {"idle", "granted"}
    BY <1>7 DEF CreateGuest, generateTokens, UpdateGuest, InsertOrders
  <2>2. CASE InsertOrders(r)
    BY <1>1, <2>1, <2>2, InsertStep, InsertedAreOrdered, MovesHonest
  <2>3. CASE CreateGuest(r)
    <3>1. Moves(r, "sign")
      BY <1>1, <2>3, MoveStep DEF CreateGuest, VisitStage
    <3>2. QED
      BY <2>1, <3>1, MovesHonest
  <2>4. CASE generateTokens(r)
    BY <1>1, <2>1, <2>4, SignStep, MovesHonest
  <2>5. CASE UpdateGuest(r)
    <3>1. Moves(r, "granted")
      BY <1>1, <2>5, MoveStep DEF UpdateGuest, VisitStage
    <3>2. req[r].kind # "order"
      BY <1>1, <2>5 DEF UpdateGuest, StageFits
    <3>3. QED
      BY <2>1, <3>1, <3>2, MovesHonest
  <2>6. QED
    BY <1>7, <2>2, <2>3, <2>4, <2>5
<1>8. ASSUME NEW r \in Reqs, OccupyTable(r)
      PROVE  Goal
  <2>1. Moves(r, "dish") /\ UNCHANGED dish /\ req[r].at = "occupy"
    BY <1>1, <1>8, MoveStep DEF OccupyTable, VisitStage
  <2>2. QED
    BY <2>1, MovesHonest
<1>9. ASSUME NEW r \in Reqs, CreateSnapshot(r)
      PROVE  Goal
  <2>1. req[r].at = "dish" /\ UNCHANGED dish
    BY <1>9 DEF CreateSnapshot
  <2>2. CASE Moves(r, "failed")
    BY <2>1, <2>2, MovesHonest
  <2>3. CASE Takes(r)
    <3> DEFINE q == req[r]
               n == Len(q.taken) + 1
               x == Offer(Item(r))
    <3>1. q.taken \in Seq(Offers) /\ q.items \in Seq(Dishes) /\ n \in Nat /\ x \in Offers
      BY <1>1, <2>3 DEF Visit, Takes
    <3>2. x \in q.menu /\ x.dish = q.items[n]
      <4>1. UpToDate(q)
        BY DEF HonestInv
      <4>2. x.dish = Item(r) /\ Item(r) = q.items[n]
        BY DEF Offer, Item
      <4>3. QED
        BY <2>1, <2>3, <4>1, <4>2 DEF UpToDate, Takes
    <3> HIDE DEF x
    <3>3. /\ req'[r].taken = Append(q.taken, x) /\ req'[r].items = q.items
          /\ req'[r].menu = q.menu
      BY <2>3 DEF Takes, x
    <3>4. ASSUME NEW i \in DOMAIN req'[r].taken
          PROVE  req'[r].taken[i].dish = q.items[i] /\ req'[r].taken[i] \in q.menu
      <4>1. CASE i = n
        <5>1. req'[r].taken[i] = x
          BY <3>1, <3>3, <4>1
        <5>2. QED
          BY <3>2, <4>1, <5>1
      <4>2. CASE i # n
        <5>1. i \in DOMAIN q.taken /\ req'[r].taken[i] = q.taken[i]
          BY <3>1, <3>3, <4>2
        <5>2. QED
          BY <1>1, <5>1 DEF Ordered
      <4>3. QED
        BY <4>1, <4>2
    <3>5. Ordered(req'[r])
      BY <2>3, <3>3, <3>4 DEF Ordered, Takes
    <3>6. UpToDate(req[r])'
      <4>1. Menu' = Menu /\ UpToDate(q)
        BY <2>1, SameMenu DEF HonestInv
      <4>2. QED
        BY <2>1, <3>3, <4>1 DEF UpToDate, Wanted
    <3>7. \A s \in Reqs \ {r} : Honest(s)
      BY <2>1, <2>3, SameMenu, HonestStays DEF Takes
    <3>8. QED
      BY <3>5, <3>6, <3>7 DEF Honest
  <2>4. QED
    BY <1>9, <2>2, <2>3, SnapshotStep
<1>10. ASSUME NEW r \in Reqs, Answer(r) \/ Stop(r)
       PROVE  Goal
  <2>1. /\ UNCHANGED dish /\ req'[r] = NoRequest /\ \A s \in Reqs \ {r} : req'[s] = req[s]
    BY <1>1, <1>10, EndStep DEF Answer, Stop, End
  <2>2. Ordered(NoRequest)
    BY FreeSlot DEF Ordered
  <2>3. UpToDate(req[r])'
    BY <2>1, FreeSlot DEF UpToDate
  <2>4. QED
    BY <2>1, <2>2, <2>3, SameMenu, HonestStays DEF Honest
<1>11. ASSUME EveryoneSees
       PROVE  Goal
  <2>1. Noticed /\ \A s \in Reqs : Later(req[s], req'[s])
    BY <1>1, <1>3, <1>11, NoticeStep
  <2>2. QED
    BY <1>1, <2>1, LaterHonest, NoticedHonest DEF Later
<1>12. ASSUME UNCHANGED <<req, dish>>
       PROVE  Goal
  BY <1>12, SameMenu, HonestStays
<1>13. ASSUME Staff
       PROVE  UNCHANGED <<req, dish>> \/ EveryoneSees
  BY <1>13 DEF Staff, CreateCategory, DeleteCategory, CreateDish, UpdateDish, DeleteDish, SetTable
<1>14. ASSUME NEW g \in Guests, logout(g)
       PROVE  UNCHANGED <<req, dish>>
  BY <1>14 DEF logout
<1>15. ASSUME NEW r \in Reqs, Handle(r)
       PROVE  Goal
  BY <1>4, <1>5, <1>6, <1>7, <1>8, <1>9, <1>10, <1>15, StepsOfARequest
<1>16. QED
  BY <1>11, <1>12, <1>13, <1>14, <1>15 DEF VisitNext

\* It holds at the start, when nothing is asked.
LEMMA InitHonest == VisitInit => HonestInv
<1>1. Ordered(NoRequest) /\ UpToDate(NoRequest)
  BY FreeSlot DEF Ordered, UpToDate
<1>2. QED
  BY <1>1 DEF VisitInit, HonestInv

-----------------------------------------------------------------------------
(* Tokens                                                                  *)

\* The request has written its token to the row and has not been answered.
Granted(q) == q.at = "granted" /\ q.kind # "order"

\* It has a token that nobody has been given.
HasToken(q) == q.at = "update" \/ Granted(q)

\* Tokens are signed before they are written, written before they are held or replaced, to
\* the rows of guests who exist.
HeldFits(g) == /\ held[g] \subseteq written[g] /\ outdated[g] \subseteq written[g]
               /\ written[g] \subseteq 1..signed
               /\ written[g] # {} => guest[g].exists

\* The token of a request under way was signed once and is with nobody else.
TokenFits(r) ==
    HasToken(req[r]) =>
        /\ req[r].token \in 1..signed
        /\ \A g \in Guests : req[r].token \notin written[g]
        /\ \A s \in Reqs \ {r} : HasToken(req[s]) => req[s].token # req[r].token

\* A refresh that has written the row replaced all the tokens it had had when it began;
\* a guest about to be created is known to no other request.
SessionFits(r) ==
    LET q == req[r] IN
    /\ q.at # "idle" => q.before \subseteq written[q.guest]
    /\ q.at = "create" => /\ ~guest[q.guest].exists
                          /\ \A s \in Reqs \ {r} : req[s].guest # q.guest
    /\ q.at = "sign" \/ HasToken(q) => guest[q.guest].exists
    /\ Granted(q) => guest[q.guest].refreshToken \notin q.before

\* The row's token is current, or of a request that is not over, or there has never been one.
RowFits(g) ==
    \/ guest[g].refreshToken \in (written[g] \ outdated[g]) \cup {LoggedOut}
    \/ \E r \in Reqs : /\ Granted(req[r]) /\ req[r].guest = g
                       /\ req[r].token = guest[g].refreshToken
    \/ /\ guest[g].refreshToken = Null /\ written[g] = {}
       /\ \A r \in Reqs : Granted(req[r]) => req[r].guest # g

\* What the proof about tokens maintains.
TokenInv == /\ \A g \in Guests : HeldFits(g) /\ RowFits(g)
            /\ \A r \in Reqs : TokenFits(r) /\ SessionFits(r)

\* What tokens depend on besides the requests.
Rows == <<guest, held, written, outdated, signed>>

\* Nothing happens to the session of a slot between the requests p and q in it.
SameSession(p, q) ==
    /\ q.guest = p.guest /\ q.before = p.before
    /\ HasToken(p) => q.token = p.token
    /\ HasToken(q) <=> HasToken(p)
    /\ Granted(q) <=> Granted(p)
    /\ \A at \in {"idle", "create", "sign"} : q.at = at <=> p.at = at

\* Leaving a request alone is such a step.
LEMMA SameRequest == ASSUME NEW p PROVE SameSession(p, p)
BY DEF SameSession

\* Slot s has no token after this step, and had not written one.
Quiet(s) == ~Granted(req[s]) /\ ~HasToken(req'[s]) /\ SessionFits(s)'

\* A step that touches no token and lets nobody new know a guest about to be created.
LEMMA QuietStep ==
  ASSUME TokenInv, UNCHANGED Rows,
         \A s \in Reqs : SameSession(req[s], req'[s]) \/ Quiet(s),
         \A s, u \in Reqs : s # u /\ req[s].at = "create" =>
            SameSession(req[u], req'[u]) \/ req'[u].guest # req[s].guest
  PROVE  TokenInv'
<1>1. guest' = guest /\ held' = held /\ written' = written /\ outdated' = outdated /\ signed' = signed
  BY DEF Rows
<1>2. \A s \in Reqs : /\ HasToken(req'[s]) => HasToken(req[s])
                      /\ HasToken(req'[s]) => req'[s].token = req[s].token
                      /\ Granted(req'[s]) <=> Granted(req[s])
                      /\ Granted(req[s]) => req'[s].guest = req[s].guest
  BY DEF SameSession, Quiet, HasToken
<1>3. ASSUME NEW g \in Guests PROVE (HeldFits(g) /\ RowFits(g))'
  <2>1. HeldFits(g)'
    BY <1>1 DEF TokenInv, HeldFits
  <2>2. \A s \in Reqs : Granted(req'[s]) => HasToken(req'[s])
    BY DEF HasToken
  <2>3. RowFits(g)
    BY DEF TokenInv
  <2>4. CASE guest[g].refreshToken \in (written[g] \ outdated[g]) \cup {LoggedOut}
    BY <1>1, <2>1, <2>4 DEF RowFits
  <2>5. ASSUME NEW s \in Reqs, Granted(req[s]), req[s].guest = g,
               req[s].token = guest[g].refreshToken
        PROVE  RowFits(g)'
    <3>1. /\ Granted(req'[s]) /\ req'[s].guest = g /\ req'[s].token = guest'[g].refreshToken
      BY <1>1, <1>2, <2>2, <2>5
    <3>2. QED
      BY <3>1 DEF RowFits, Granted
  <2>6. CASE /\ guest[g].refreshToken = Null /\ written[g] = {}
             /\ \A s \in Reqs : Granted(req[s]) => req[s].guest # g
    <3>1. \A s \in Reqs : Granted(req'[s]) => req'[s].guest # g
      BY <1>2, <2>6
    <3>2. QED
      BY <1>1, <2>1, <2>6, <3>1 DEF RowFits, Granted
  <2>7. QED
    BY <2>1, <2>3, <2>4, <2>5, <2>6 DEF RowFits
<1>4. ASSUME NEW s \in Reqs PROVE (TokenFits(s) /\ SessionFits(s))'
  <2>1. TokenFits(s)'
    <3>1. TokenFits(s)
      BY DEF TokenInv
    <3>2. HasToken(req'[s]) =>
             /\ req'[s].token \in 1..signed
             /\ \A g \in Guests : req'[s].token \notin written[g]
             /\ \A u \in Reqs \ {s} : HasToken(req'[u]) => req'[u].token # req'[s].token
      BY <1>2, <3>1 DEF TokenFits
    <3>3. QED
      BY <1>1, <3>2 DEF TokenFits, HasToken, Granted
  <2>2. CASE SameSession(req[s], req'[s])
    <3>1. SessionFits(s)
      BY DEF TokenInv
    <3>2. req'[s].at = "create" => \A u \in Reqs \ {s} : req'[u].guest # req'[s].guest
      <4>1. \A u \in Reqs : SameSession(req[u], req'[u]) => req'[u].guest = req[u].guest
        BY DEF SameSession
      <4>2. req'[s].at = "create" => req[s].at = "create" /\ req'[s].guest = req[s].guest
        BY <2>2 DEF SameSession
      <4>3. QED
        BY <3>1, <4>1, <4>2 DEF SessionFits
    <3>3. SessionFits(s)'
      BY <1>1, <2>2, <3>1, <3>2 DEF SessionFits, SameSession, HasToken, Granted
    <3>4. QED
      BY <2>1, <3>3
  <2>3. QED
    BY <2>1, <2>2 DEF Quiet
<1>5. QED
  BY <1>3, <1>4 DEF TokenInv

\* A request begins: for a guest who exists, or a login for one who does not and whom no
\* other request knows.
LEMMA BegunTokens ==
  ASSUME VisitInv, TokenInv, UNCHANGED Rows, NEW r \in Reqs, req[r].at = "idle",
         NEW at, NEW kind, NEW g \in Guests, NEW items, NEW before,
         Begun(r, at, kind, g, items, before), at \notin {"idle", "update", "granted"},
         before \subseteq written[g],
         \/ guest[g].exists /\ at # "create"
         \/ ~guest[g].exists /\ at # "sign" /\ \A s \in Reqs : req[s].guest # g
  PROVE  TokenInv'
<1>1. \A s \in Reqs \ {r} : req'[s] = req[s]
  BY DEF Begun
<1>2. ~HasToken(req[r]) /\ ~HasToken(req'[r])
  BY DEF HasToken, Granted, Begun
<1>3. SessionFits(r)'
  <2>1. /\ req'[r].before \subseteq written[g] /\ req'[r].guest = g /\ written' = written
        /\ guest' = guest /\ req'[r].at = at
    BY DEF Begun, Rows
  <2>2. at = "create" => ~guest[g].exists /\ \A s \in Reqs \ {r} : req'[s].guest # g
    BY <1>1
  <2>3. at = "sign" => guest[g].exists
    OBVIOUS
  <2>4. ~Granted(req'[r])
    BY <1>2 DEF HasToken
  <2>5. QED
    BY <1>2, <2>1, <2>2, <2>3, <2>4 DEF SessionFits, HasToken, Granted
<1>4. ASSUME NEW s \in Reqs, s # r, req[s].at = "create" PROVE req'[r].guest # req[s].guest
  <2>1. ~guest[req[s].guest].exists /\ req'[r].guest = g
    BY <1>4 DEF TokenInv, SessionFits, Begun
  <2>2. QED
    BY <2>1
<1>5. \A s \in Reqs \ {r} : SameSession(req[s], req'[s])
  BY <1>1, SameRequest
<1>6. Quiet(r)
  BY <1>2, <1>3 DEF Quiet, HasToken
<1>7. QED
  BY <1>4, <1>5, <1>6, QuietStep

\* The row of a new guest has no token, and no request but this login knows the guest.
LEMMA CreateGuestTokens ==
  ASSUME VisitInv, TokenInv, NEW r \in Reqs, CreateGuest(r)
  PROVE  TokenInv'
<1> DEFINE g == req[r].guest
<1>1. /\ VisitTypeOK /\ req[r].at = "create" /\ req[r] \in Visit /\ StageFits(req[r])
      /\ SessionFits(r)
  BY DEF VisitInv, VisitTypeOK, TokenInv, CreateGuest
<1>2. g \in Guests /\ ~guest[g].exists /\ \A s \in Reqs \ {r} : req[s].guest # g
  BY <1>1 DEF SessionFits, StageFits, Visit
<1>3. HeldFits(g) /\ written[g] = {} /\ outdated[g] = {}
  BY <1>2 DEF TokenInv, HeldFits
<1>4. Moves(r, "sign")
  BY <1>1, MoveStep DEF CreateGuest, VisitStage
<1>5. /\ held' = held /\ written' = written /\ outdated' = outdated /\ signed' = signed
      /\ guest'[g].exists = TRUE /\ guest'[g].refreshToken = Null
      /\ \A h \in Guests \ {g} : guest'[h] = guest[h]
  BY <1>1, <1>2 DEF CreateGuest, NoGuest, VisitTypeOK
<1>6. \A s \in Reqs \ {r} : req'[s] = req[s]
  BY <1>4 DEF Moves
<1>7. ~HasToken(req[r]) /\ ~HasToken(req'[r]) /\ req'[r].at = "sign" /\ req'[r].guest = g
  BY <1>1, <1>4 DEF HasToken, Granted, Moves
<1>8. ~Granted(req[r]) /\ ~Granted(req'[r])
  BY <1>7 DEF HasToken
<1>9. ASSUME NEW h \in Guests PROVE (HeldFits(h) /\ RowFits(h))'
  <2>1. HeldFits(h)'
    BY <1>3, <1>5 DEF TokenInv, HeldFits
  <2>2. CASE h = g
    <3>1. \A s \in Reqs : Granted(req'[s]) => req'[s].guest # g
      BY <1>2, <1>6, <1>8
    <3>2. QED
      BY <1>3, <1>5, <2>1, <2>2, <3>1 DEF RowFits, Granted
  <2>3. CASE h # g
    <3>1. RowFits(h) /\ guest'[h] = guest[h]
      BY <1>5, <2>3 DEF TokenInv
    <3>2. \A s \in Reqs : Granted(req'[s]) => Granted(req[s]) /\ req'[s] = req[s]
      BY <1>6, <1>8
    <3>3. \A s \in Reqs : Granted(req[s]) => Granted(req'[s]) /\ req'[s] = req[s]
      BY <1>6, <1>8
    <3>4. RowFits(h)'
      BY <1>5, <3>1, <3>2, <3>3 DEF RowFits, Granted
    <3>5. QED
      BY <2>1, <3>4
  <2>4. QED
    BY <2>2, <2>3
<1>10. ASSUME NEW s \in Reqs PROVE (TokenFits(s) /\ SessionFits(s))'
  <2>1. TokenFits(s)'
    BY <1>5, <1>6, <1>7 DEF TokenInv, TokenFits, HasToken, Granted
  <2>2. CASE s = r
    <3>1. req'[r].before \subseteq written[g]
      BY <1>1, <1>4 DEF Moves, SessionFits
    <3>2. SessionFits(r)'
      BY <1>5, <1>7, <1>8, <3>1 DEF SessionFits, HasToken, Granted
    <3>3. QED
      BY <2>1, <2>2, <3>2
  <2>3. CASE s # r
    <3>1. SessionFits(s) /\ req'[s] = req[s] /\ req[s].guest # g
      BY <1>2, <1>6, <2>3 DEF TokenInv
    <3>2. req[s].at # "idle" => guest'[req[s].guest] = guest[req[s].guest]
      <4>1. req[s].at # "idle" => req[s].guest \in Guests
        BY DEF VisitInv, VisitTypeOK, Visit, StageFits
      <4>2. QED
        BY <1>5, <3>1, <4>1
    <3>3. SessionFits(s)'
      BY <1>5, <1>6, <1>7, <3>1, <3>2 DEF SessionFits, HasToken, Granted
    <3>4. QED
      BY <2>1, <3>3
  <2>4. QED
    BY <2>2, <2>3
<1>11. QED
  BY <1>9, <1>10 DEF TokenInv

\* The token that is signed is one nobody has.
LEMMA SignTokens ==
  ASSUME VisitInv, TokenInv, NEW r \in Reqs, generateTokens(r)
  PROVE  TokenInv'
<1> DEFINE g == req[r].guest
<1>1. /\ VisitTypeOK /\ req[r].at = "sign" /\ req[r] \in Visit /\ StageFits(req[r])
      /\ SessionFits(r) /\ signed \in Nat /\ signed' = signed + 1
  BY DEF VisitInv, VisitTypeOK, TokenInv, generateTokens
<1>2. g \in Guests /\ guest[g].exists
  BY <1>1 DEF SessionFits, StageFits, Visit
<1>3. guest' = guest /\ held' = held /\ written' = written /\ outdated' = outdated
  BY DEF generateTokens
<1>4. Moves(r, "update") /\ req'[r].token = signed + 1
  BY <1>1, SignStep
<1>5. \A s \in Reqs \ {r} : req'[s] = req[s]
  BY <1>4 DEF Moves
<1>6. /\ ~HasToken(req[r]) /\ HasToken(req'[r]) /\ req'[r].guest = g /\ req'[r].at = "update"
      /\ ~Granted(req[r]) /\ ~Granted(req'[r])
  BY <1>1, <1>4 DEF HasToken, Granted, Moves
<1>7. 1..signed \subseteq 1..signed + 1 /\ signed + 1 \in 1..signed + 1 /\ signed + 1 \notin 1..signed
  BY <1>1
<1>8. ASSUME NEW h \in Guests PROVE (HeldFits(h) /\ RowFits(h))'
  <2>1. HeldFits(h) /\ RowFits(h)
    BY DEF TokenInv
  <2>2. HeldFits(h)'
    BY <1>1, <1>3, <1>7, <2>1 DEF HeldFits
  <2>3. \A s \in Reqs : Granted(req'[s]) => Granted(req[s]) /\ req'[s] = req[s]
    BY <1>5, <1>6
  <2>4. \A s \in Reqs : Granted(req[s]) => Granted(req'[s]) /\ req'[s] = req[s]
    BY <1>5, <1>6
  <2>5. RowFits(h)'
    BY <1>3, <2>1, <2>3, <2>4 DEF RowFits, Granted
  <2>6. QED
    BY <2>2, <2>5
<1>9. ASSUME NEW s \in Reqs PROVE (TokenFits(s) /\ SessionFits(s))'
  <2>1. \A u \in Reqs \ {r} : HasToken(req[u]) => req[u].token \in 1..signed
    BY DEF TokenInv, TokenFits
  <2>2. \A h \in Guests : written[h] \subseteq 1..signed
    BY DEF TokenInv, HeldFits
  <2>3. CASE s = r
    <3>1. /\ req'[r].token \in 1..signed'
          /\ \A h \in Guests : req'[r].token \notin written'[h]
          /\ \A u \in Reqs \ {r} : HasToken(req'[u]) => req'[u].token # req'[r].token
      BY <1>1, <1>3, <1>4, <1>5, <1>7, <2>1, <2>2
    <3>2. TokenFits(r)'
      BY <3>1 DEF TokenFits, HasToken, Granted
    <3>3. req'[r].before \subseteq written[g]
      BY <1>1, <1>4 DEF Moves, SessionFits
    <3>4. SessionFits(r)'
      BY <1>2, <1>3, <1>6, <3>3 DEF SessionFits, HasToken, Granted
    <3>5. QED
      BY <2>3, <3>2, <3>4
  <2>4. CASE s # r
    <3>1. TokenFits(s) /\ SessionFits(s) /\ req'[s] = req[s]
      BY <1>5, <2>4 DEF TokenInv
    <3>2. HasToken(req[s]) =>
             /\ req[s].token \in 1..signed'
             /\ \A h \in Guests : req[s].token \notin written'[h]
             /\ \A u \in Reqs \ {s} : HasToken(req'[u]) => req'[u].token # req[s].token
      BY <1>1, <1>3, <1>4, <1>5, <1>7, <3>1 DEF TokenFits
    <3>3. TokenFits(s)'
      BY <3>1, <3>2 DEF TokenFits, HasToken, Granted
    <3>4. \A u \in Reqs : req'[u].guest = req[u].guest
      BY <1>5, <1>6
    <3>5. SessionFits(s)'
      BY <1>3, <3>1, <3>4 DEF SessionFits, HasToken, Granted
    <3>6. QED
      BY <3>3, <3>5
  <2>5. QED
    BY <2>3, <2>4
<1>10. QED
  BY <1>8, <1>9 DEF TokenInv

\* What is written to the row is in nobody's before, having been given to nobody.
LEMMA UpdateTokens ==
  ASSUME VisitInv, TokenInv, NEW r \in Reqs, UpdateGuest(r)
  PROVE  TokenInv'
<1> DEFINE g == req[r].guest
<1>1. /\ VisitTypeOK /\ req[r].at = "update" /\ req[r] \in Visit /\ StageFits(req[r])
      /\ SessionFits(r) /\ TokenFits(r) /\ HasToken(req[r])
  BY DEF VisitInv, VisitTypeOK, TokenInv, UpdateGuest, HasToken
<1>2. g \in Guests /\ guest[g].exists /\ req[r].kind # "order"
  BY <1>1 DEF SessionFits, StageFits, Visit
<1>3. /\ held' = held /\ written' = written /\ outdated' = outdated /\ signed' = signed
      /\ \A h \in Guests : guest'[h].exists = guest[h].exists
      /\ \A h \in Guests \ {g} : guest'[h] = guest[h]
      /\ guest'[g].refreshToken = req[r].token
  BY <1>1, <1>2 DEF UpdateGuest, VisitTypeOK
<1>4. Moves(r, "granted") /\ req'[r].token = req[r].token
  BY <1>1, MoveStep DEF UpdateGuest, VisitStage
<1>5. \A s \in Reqs \ {r} : req'[s] = req[s]
  BY <1>4 DEF Moves
<1>6. /\ HasToken(req'[r]) /\ Granted(req'[r]) /\ ~Granted(req[r])
      /\ req'[r].guest = g /\ req'[r].at = "granted" /\ req'[r].before = req[r].before
  BY <1>1, <1>2, <1>4 DEF HasToken, Granted, Moves
<1>7. \A h \in Guests : req[r].token \notin written[h]
  BY <1>1 DEF TokenFits
<1>8. ASSUME NEW h \in Guests PROVE (HeldFits(h) /\ RowFits(h))'
  <2>1. HeldFits(h) /\ RowFits(h)
    BY DEF TokenInv
  <2>2. HeldFits(h)'
    BY <1>3, <2>1 DEF HeldFits
  <2>3. CASE h = g
    <3>1. /\ Granted(req'[r]) /\ req'[r].guest = h /\ req'[r].token = guest'[h].refreshToken
      BY <1>3, <1>4, <1>6, <2>3
    <3>2. QED
      BY <2>2, <3>1 DEF RowFits, Granted
  <2>4. CASE h # g
    <3>1. guest'[h] = guest[h]
      BY <1>3, <2>4
    <3>2. \A s \in Reqs : Granted(req[s]) => Granted(req'[s]) /\ req'[s] = req[s]
      BY <1>5, <1>6
    <3>3. \A s \in Reqs : Granted(req'[s]) /\ req'[s].guest = h => Granted(req[s]) /\ req'[s] = req[s]
      BY <1>5, <1>6, <2>4
    <3>4. RowFits(h)'
      BY <1>3, <2>1, <3>1, <3>2, <3>3 DEF RowFits, Granted
    <3>5. QED
      BY <2>2, <3>4
  <2>5. QED
    BY <2>3, <2>4
<1>9. ASSUME NEW s \in Reqs PROVE (TokenFits(s) /\ SessionFits(s))'
  <2>1. /\ TokenFits(s) /\ SessionFits(s)
        /\ \A u \in Reqs : /\ HasToken(req'[u]) <=> HasToken(req[u])
                           /\ req'[u].token = req[u].token /\ req'[u].guest = req[u].guest
                           /\ req'[u].before = req[u].before
    BY <1>1, <1>4, <1>5, <1>6 DEF TokenInv
  <2>2. HasToken(req'[s]) =>
           /\ req'[s].token \in 1..signed
           /\ \A h \in Guests : req'[s].token \notin written[h]
           /\ \A u \in Reqs \ {s} : HasToken(req'[u]) => req'[u].token # req'[s].token
    BY <2>1 DEF TokenFits
  <2>3. TokenFits(s)'
    BY <1>3, <2>2 DEF TokenFits, HasToken, Granted
  <2>4. req'[s].at # "idle" => req'[s].guest \in Guests /\ req'[s].before \subseteq written[req'[s].guest]
    <3>1. req[s].at # "idle" => req[s].guest \in Guests
      BY DEF VisitInv, VisitTypeOK, Visit, StageFits
    <3>2. req'[s].at # "idle" => req[s].at # "idle"
      BY <1>1, <1>5
    <3>3. req[s].at # "idle" => req[s].before \subseteq written[req[s].guest]
      BY <2>1 DEF SessionFits
    <3>4. req'[s].guest = req[s].guest /\ req'[s].before = req[s].before
      BY <2>1
    <3>5. QED
      BY <3>1, <3>2, <3>3, <3>4
  <2>5. Granted(req'[s]) => guest'[req'[s].guest].refreshToken \notin req'[s].before
    <3> SUFFICES ASSUME Granted(req'[s])
                 PROVE  guest'[req'[s].guest].refreshToken \notin req'[s].before
      OBVIOUS
    <3>1. req'[s].at # "idle"
      BY DEF Granted
    <3>2. CASE req'[s].guest = g
      BY <1>2, <1>3, <1>7, <2>4, <3>1, <3>2
    <3>3. CASE req'[s].guest # g
      <4>1. s # r /\ req'[s] = req[s] /\ Granted(req[s])
        BY <1>5, <1>6, <3>3
      <4>2. QED
        BY <1>3, <2>1, <2>4, <3>1, <3>3, <4>1 DEF SessionFits
    <3>4. QED
      BY <3>2, <3>3
  <2>6. /\ req'[s].at = "create" =>
              ~guest'[req'[s].guest].exists /\ \A u \in Reqs \ {s} : req'[u].guest # req'[s].guest
        /\ req'[s].at = "sign" \/ HasToken(req'[s]) => guest'[req'[s].guest].exists
    <3>1. CASE s = r
      BY <1>2, <1>3, <1>6, <3>1
    <3>2. CASE s # r
      <4>1. req'[s] = req[s] /\ (HasToken(req[s]) => req[s].at # "idle")
        BY <1>5, <3>2 DEF HasToken, Granted
      <4>2. req[s].at # "idle" => guest'[req[s].guest].exists = guest[req[s].guest].exists
        BY <1>3, <2>4, <4>1
      <4>3. \A u \in Reqs : req'[u].guest = req[u].guest
        BY <2>1
      <4>4. QED
        BY <2>1, <4>1, <4>2, <4>3 DEF SessionFits
    <3>3. QED
      BY <3>1, <3>2
  <2>7. SessionFits(s)'
    BY <1>3, <2>4, <2>5, <2>6 DEF SessionFits, HasToken, Granted
  <2>8. QED
    BY <2>3, <2>7
<1>10. QED
  BY <1>8, <1>9 DEF TokenInv

\* A request that has written the row is over, answered or not.  If the row has its token,
\* that is current: it had not been written when any refresh began.  If the row has an older
\* one, this refresh did not replace it, or the row would have changed.
LEMMA EndTokens ==
  ASSUME VisitInv, TokenInv, NEW r \in Reqs, Answer(r) \/ Stop(r), Granted(req[r])
  PROVE  TokenInv'
<1> DEFINE g == req[r].guest
           t == req[r].token
           before == req[r].before
<1>1. /\ VisitTypeOK /\ req[r] \in Visit /\ StageFits(req[r]) /\ SessionFits(r) /\ TokenFits(r)
      /\ HasToken(req[r]) /\ req[r].at = "granted" /\ req[r].kind # "order"
  BY DEF VisitInv, VisitTypeOK, TokenInv, HasToken, Granted
<1>2. /\ g \in Guests /\ guest[g].exists /\ before \subseteq written[g]
      /\ guest[g].refreshToken \notin before
      /\ t \in 1..signed /\ \A h \in Guests : t \notin written[h]
  BY <1>1 DEF SessionFits, TokenFits, StageFits, Visit
<1>3. /\ guest' = guest /\ signed' = signed /\ held'[g] \subseteq held[g] \cup {t}
      /\ written'[g] = written[g] \cup {t} /\ outdated'[g] = outdated[g] \cup before
      /\ \A h \in Guests \ {g} : /\ held'[h] = held[h] /\ written'[h] = written[h]
                                 /\ outdated'[h] = outdated[h]
  <2>1. HasWritten(r)
    BY DEF HasWritten, Granted
  <2>2. /\ written' = [written EXCEPT ![g] = written[g] \cup {t}]
        /\ outdated' = [outdated EXCEPT ![g] = outdated[g] \cup before]
        /\ guest' = guest /\ signed' = signed
        /\ held' = held \/ held' = [held EXCEPT ![g] = held[g] \cup {t}]
    BY <2>1 DEF Answer, Stop, End
  <2> HIDE DEF t, before, g
  <2>3. QED
    BY <1>1, <1>2, <2>2 DEF VisitTypeOK
<1>4. req'[r] = NoRequest /\ \A s \in Reqs \ {r} : req'[s] = req[s]
  BY <1>1, EndStep DEF Answer, Stop
<1>5. ~HasToken(req'[r]) /\ ~Granted(req'[r]) /\ req'[r].at = "idle" /\ req'[r].guest = NoId
  BY <1>4, FreeSlot DEF HasToken, Granted
<1>6. \A h \in Guests : written[h] \subseteq written'[h]
  BY <1>3
<1>7. ASSUME NEW h \in Guests PROVE (HeldFits(h) /\ RowFits(h))'
  <2>1. HeldFits(h) /\ RowFits(h)
    BY DEF TokenInv
  <2>2. HeldFits(h)'
    BY <1>2, <1>3, <2>1 DEF HeldFits
  <2>3. \A s \in Reqs : Granted(req'[s]) => Granted(req[s]) /\ req'[s] = req[s]
    BY <1>4, <1>5
  <2>4. \A s \in Reqs \ {r} : Granted(req[s]) => Granted(req'[s]) /\ req'[s] = req[s]
    BY <1>4
  <2>5. CASE h # g
    <3>1. written'[h] = written[h] /\ outdated'[h] = outdated[h]
      BY <1>3, <2>5
    <3>2. \A s \in Reqs : Granted(req[s]) /\ req[s].guest = h => Granted(req'[s]) /\ req'[s] = req[s]
      BY <2>4, <2>5
    <3>3. RowFits(h)'
      BY <1>3, <2>1, <2>3, <3>1, <3>2 DEF RowFits, Granted
    <3>4. QED
      BY <2>2, <3>3
  <2>6. CASE h = g
    <3>1. CASE guest[h].refreshToken \in (written[h] \ outdated[h]) \cup {LoggedOut}
      <4>1. guest'[h].refreshToken \in (written'[h] \ outdated'[h]) \cup {LoggedOut}
        BY <1>2, <1>3, <2>6, <3>1
      <4>2. QED
        BY <2>2, <4>1 DEF RowFits
    <3>2. ASSUME NEW s \in Reqs, Granted(req[s]), req[s].guest = h,
                 req[s].token = guest[h].refreshToken
          PROVE  RowFits(h)'
      <4>1. CASE s = r
        <5>1. t \notin outdated[h] /\ t \notin before
          BY <1>2, <2>1, <2>6 DEF HeldFits
        <5>2. guest'[h].refreshToken \in written'[h] \ outdated'[h]
          BY <1>3, <2>6, <3>2, <4>1, <5>1
        <5>3. QED
          BY <5>2 DEF RowFits
      <4>2. CASE s # r
        <5>1. /\ Granted(req'[s]) /\ req'[s].guest = h
              /\ req'[s].token = guest'[h].refreshToken
          BY <1>3, <2>4, <3>2, <4>2
        <5>2. QED
          BY <5>1 DEF RowFits, Granted
      <4>3. QED
        BY <4>1, <4>2
    <3>3. QED
      BY <2>1, <2>2, <2>6, <3>1, <3>2 DEF RowFits
  <2>7. QED
    BY <2>5, <2>6
<1>8. ASSUME NEW s \in Reqs PROVE (TokenFits(s) /\ SessionFits(s))'
  <2>1. CASE s = r
    BY <1>5, <2>1 DEF TokenFits, SessionFits, HasToken, Granted
  <2>2. CASE s # r
    <3>1. TokenFits(s) /\ SessionFits(s) /\ req'[s] = req[s]
      BY <1>4, <2>2 DEF TokenInv
    <3>2. HasToken(req[s]) =>
             /\ req[s].token \in 1..signed
             /\ \A h \in Guests : req[s].token \notin written'[h]
             /\ \A u \in Reqs \ {s} : HasToken(req'[u]) => req'[u].token # req[s].token
      <4> SUFFICES ASSUME HasToken(req[s])
                   PROVE  /\ req[s].token \in 1..signed
                          /\ \A h \in Guests : req[s].token \notin written'[h]
                          /\ \A u \in Reqs \ {s} : HasToken(req'[u]) => req'[u].token # req[s].token
        OBVIOUS
      <4>1. /\ req[s].token \in 1..signed /\ req[s].token # t
            /\ \A h \in Guests : req[s].token \notin written[h]
            /\ \A u \in Reqs \ {s} : HasToken(req[u]) => req[u].token # req[s].token
        BY <1>1, <2>2, <3>1 DEF TokenFits
      <4>2. ASSUME NEW h \in Guests PROVE req[s].token \notin written'[h]
        BY <1>3, <4>1
      <4>3. QED
        BY <1>4, <1>5, <4>1, <4>2
    <3>3. TokenFits(s)'
      BY <1>3, <3>1, <3>2 DEF TokenFits, HasToken, Granted
    <3>4. req[s].at # "idle" => req[s].guest \in Guests
      BY DEF VisitInv, VisitTypeOK, Visit, StageFits
    <3>5. req[s].at # "idle" => req[s].before \subseteq written'[req[s].guest]
      BY <1>6, <3>1, <3>4 DEF SessionFits
    <3>6. req[s].at = "create" => \A u \in Reqs \ {s} : req'[u].guest # req[s].guest
      <4>1. NoId \notin Guests
        BY VisitAssumption
      <4>2. QED
        BY <1>4, <1>5, <3>1, <3>4, <4>1 DEF SessionFits
    <3>7. SessionFits(s)'
      BY <1>3, <3>1, <3>5, <3>6 DEF SessionFits, HasToken, Granted
    <3>8. QED
      BY <3>3, <3>7
  <2>3. QED
    BY <2>1, <2>2
<1>9. QED
  BY <1>7, <1>8 DEF TokenInv

\* logout leaves the row without a token and all that the guest holds replaced.
LEMMA LogoutTokens ==
  ASSUME VisitInv, TokenInv, NEW g \in Guests, logout(g)
  PROVE  TokenInv'
<1>1. /\ req' = req /\ held' = held /\ written' = written /\ signed' = signed
      /\ guest'[g].refreshToken = LoggedOut /\ outdated'[g] = written[g]
      /\ \A h \in Guests : guest'[h].exists = guest[h].exists
      /\ \A h \in Guests \ {g} : guest'[h] = guest[h] /\ outdated'[h] = outdated[h]
  BY DEF logout, VisitInv, VisitTypeOK
<1>2. \A h \in Guests : LoggedOut \notin written[h]
  <2>1. LoggedOut \notin 1..signed
    BY DEF LoggedOut, VisitInv, VisitTypeOK
  <2>2. QED
    BY <2>1 DEF TokenInv, HeldFits
<1>3. ASSUME NEW h \in Guests PROVE (HeldFits(h) /\ RowFits(h))'
  <2>1. HeldFits(h) /\ RowFits(h)
    BY DEF TokenInv
  <2>2. HeldFits(h)'
    BY <1>1, <2>1 DEF HeldFits
  <2>3. CASE h = g
    BY <1>1, <2>2, <2>3 DEF RowFits
  <2>4. CASE h # g
    BY <1>1, <2>1, <2>2, <2>4 DEF RowFits, Granted
  <2>5. QED
    BY <2>3, <2>4
<1>4. ASSUME NEW s \in Reqs PROVE (TokenFits(s) /\ SessionFits(s))'
  <2>1. TokenFits(s) /\ SessionFits(s)
    BY DEF TokenInv
  <2>2. TokenFits(s)'
    BY <1>1, <2>1 DEF TokenFits, HasToken, Granted
  <2>3. req[s].at # "idle" => req[s].guest \in Guests
    BY DEF VisitInv, VisitTypeOK, Visit, StageFits
  <2>4. Granted(req[s]) => guest'[req[s].guest].refreshToken \notin req[s].before
    <3> SUFFICES ASSUME Granted(req[s])
                 PROVE  guest'[req[s].guest].refreshToken \notin req[s].before
      OBVIOUS
    <3>1. req[s].guest \in Guests /\ req[s].before \subseteq written[req[s].guest]
      BY <2>1, <2>3 DEF SessionFits, Granted
    <3>2. CASE req[s].guest = g
      BY <1>1, <1>2, <3>1, <3>2
    <3>3. CASE req[s].guest # g
      BY <1>1, <2>1, <3>1, <3>3 DEF SessionFits
    <3>4. QED
      BY <3>2, <3>3
  <2>5. HasToken(req[s]) => req[s].at # "idle"
    BY DEF HasToken, Granted
  <2>6. req[s].at # "idle" => guest'[req[s].guest].exists = guest[req[s].guest].exists
    BY <1>1, <2>3
  <2>7. SessionFits(s)'
    BY <1>1, <2>1, <2>4, <2>5, <2>6 DEF SessionFits, HasToken, Granted
  <2>8. QED
    BY <2>2, <2>7
<1>5. QED
  BY <1>3, <1>4 DEF TokenInv

\* Every step keeps TokenInv.
LEMMA TokenStep ==
  ASSUME VisitInv, TokenInv, VisitNext
  PROVE  TokenInv'
<1>1. /\ VisitTypeOK /\ Menu \subseteq Offers /\ RowsTyped'
      /\ \A s \in Reqs : req[s] \in Visit /\ StageFits(req[s])
  BY RowsStep, MenuTyped DEF VisitInv, VisitTypeOK
<1>2. Menu' \subseteq Offers
  BY <1>1, NewMenuTyped DEF RowsTyped
<1>3. \A g \in Guests : held[g] # {} => guest[g].exists
  BY DEF TokenInv, HeldFits
<1>4. ASSUME NEW r \in Reqs, NEW g \in Guests, LogsIn(r, g)
      PROVE  TokenInv'
  <2>1. PICK at \in {"create", "refused"} : Begun(r, at, "login", g, <<>>, {})
    BY <1>1, <1>4, LoginStep DEF LogsIn
  <2>2. /\ UNCHANGED Rows /\ req[r].at = "idle"
        /\ ~guest[g].exists /\ \A s \in Reqs : req[s].guest # g
    BY <1>4 DEF LogsIn, login, Rows
  <2>3. QED
    BY <2>1, <2>2, BegunTokens
<1>5. ASSUME NEW r \in Reqs, NEW g \in Guests, refreshToken(r, g)
      PROVE  TokenInv'
  <2>1. PICK at \in {"sign", "refused"} : Begun(r, at, "refresh", g, <<>>, written[g])
    BY <1>1, <1>5, RefreshBegins
  <2>2. UNCHANGED Rows /\ req[r].at = "idle" /\ guest[g].exists
    BY <1>3, <1>5 DEF refreshToken, Rows
  <2>3. QED
    BY <2>1, <2>2, BegunTokens
<1>6. ASSUME NEW r \in Reqs, NEW g \in Guests, PlacesOrder(r, g)
      PROVE  TokenInv'
  <2>1. PICK items \in Seq(Dishes) : CreateOrder(r, g, items)
    BY <1>6 DEF PlacesOrder
  <2>2. PICK at \in {"dish", "occupy", "refused"} : Begun(r, at, "order", g, items, {})
    BY <1>1, <2>1, OrderStep
  <2>3. UNCHANGED Rows /\ req[r].at = "idle" /\ guest[g].exists
    BY <2>1 DEF CreateOrder, Rows
  <2>4. QED
    BY <2>2, <2>3, BegunTokens
<1>7. ASSUME UNCHANGED Rows, \A s \in Reqs : SameSession(req[s], req'[s])
      PROVE  TokenInv'
  BY <1>7, QuietStep
<1>8. \A p, q : Later(p, q) => SameSession(p, q)
  BY DEF Later, SameSession, HasToken, Granted
<1>9. ASSUME NEW r \in Reqs, InsertOrders(r)
      PROVE  TokenInv'
  <2>1. Moves(r, "granted") /\ UNCHANGED Rows /\ req[r].at = "many" /\ req[r].kind = "order"
    BY <1>1, <1>9, InsertStep DEF InsertOrders, Rows, StageFits
  <2>2. SameSession(req[r], req'[r])
    BY <2>1 DEF Moves, SameSession, HasToken, Granted
  <2>3. QED
    BY <1>7, <2>1, <2>2, SameRequest DEF Moves
<1>10. ASSUME NEW r \in Reqs, CreateSnapshot(r)
       PROVE  TokenInv'
  <2>1. UNCHANGED Rows /\ req[r].at = "dish" /\ req[r].kind = "order"
    BY <1>1, <1>10 DEF CreateSnapshot, Rows, StageFits
  <2>2. /\ \A s \in Reqs \ {r} : req'[s] = req[s]
        /\ req'[r].at \in {"failed", "many", "dish"} /\ req'[r].kind = req[r].kind
        /\ req'[r].guest = req[r].guest /\ req'[r].before = req[r].before
    BY <1>10, SnapshotStep DEF Moves, Takes
  <2>3. SameSession(req[r], req'[r])
    BY <2>1, <2>2 DEF SameSession, HasToken, Granted
  <2>4. QED
    BY <1>7, <2>1, <2>2, <2>3, SameRequest
<1>11. ASSUME NEW r \in Reqs, OccupyTable(r)
       PROVE  TokenInv'
  <2>1. UNCHANGED Rows /\ req[r].at = "occupy" /\ req[r].kind = "order"
    BY <1>1, <1>11 DEF OccupyTable, Rows, StageFits
  <2>2. Moves(r, "dish")
    BY <1>1, <1>11, MoveStep DEF OccupyTable, VisitStage
  <2>3. SameSession(req[r], req'[r])
    BY <2>1, <2>2 DEF Moves, SameSession, HasToken, Granted
  <2>4. QED
    BY <1>7, <2>1, <2>2, <2>3, SameRequest DEF Moves
<1>12. ASSUME NEW r \in Reqs, Answer(r) \/ Stop(r), ~Granted(req[r])
       PROVE  TokenInv'
  <2>1. End(r) /\ ~HasWritten(r)
    BY <1>12 DEF Answer, Stop, HasWritten, Granted
  <2>2. /\ UNCHANGED Rows /\ req'[r] = NoRequest
        /\ \A s \in Reqs \ {r} : req'[s] = req[s]
    BY <1>1, <1>12, <2>1, EndStep DEF Answer, Stop, End, Rows
  <2>3. ~HasToken(req'[r])
    BY <2>2, FreeSlot DEF HasToken, Granted
  <2>4. SessionFits(r)'
    BY <2>2, FreeSlot DEF SessionFits, HasToken, Granted
  <2>5. ASSUME NEW s \in Reqs, req[s].at = "create" PROVE req'[r].guest # req[s].guest
    <3>1. req[s].guest \in Guests
      BY <1>1, <2>5 DEF StageFits, Visit
    <3>2. QED
      BY <2>2, <3>1, FreeSlot, VisitAssumption
  <2>6. QED
    BY <1>12, <2>2, <2>3, <2>4, <2>5, SameRequest, QuietStep DEF Quiet
<1>13. ASSUME Staff
       PROVE  TokenInv'
  <2>1. UNCHANGED Rows /\ (UNCHANGED req \/ EveryoneSees)
    BY <1>13 DEF Staff, CreateCategory, DeleteCategory, CreateDish, UpdateDish, DeleteDish,
                SetTable, Rows
  <2>2. \A s \in Reqs : SameSession(req[s], req'[s])
    BY <1>1, <1>2, <1>8, <2>1, NoticeStep, SameRequest
  <2>3. QED
    BY <1>7, <2>1, <2>2
<1>14. ASSUME NEW r \in Reqs, Handle(r)
       PROVE  TokenInv'
  BY <1>4, <1>5, <1>6, <1>9, <1>10, <1>11, <1>12, <1>14, StepsOfARequest,
     CreateGuestTokens, SignTokens, UpdateTokens, EndTokens
<1>15. QED
  BY <1>13, <1>14, LogoutTokens DEF VisitNext

\* It holds at the start, before any token is signed.
LEMMA InitTokens == VisitInit => TokenInv
<1> SUFFICES ASSUME VisitInit PROVE TokenInv
  OBVIOUS
<1>1. /\ \A g \in Guests : /\ held[g] = {} /\ written[g] = {} /\ outdated[g] = {} /\ guest[g] = NoGuest
      /\ \A r \in Reqs : req[r] = NoRequest
  BY DEF VisitInit
<1>2. ~HasToken(NoRequest) /\ ~Granted(NoRequest) /\ NoGuest.refreshToken = Null
  BY FreeSlot DEF HasToken, Granted, NoGuest
<1>3. \A g \in Guests : HeldFits(g) /\ RowFits(g)
  BY <1>1, <1>2 DEF HeldFits, RowFits
<1>4. \A r \in Reqs : TokenFits(r) /\ SessionFits(r)
  BY <1>1, <1>2, FreeSlot DEF TokenFits, SessionFits
<1>5. QED
  BY <1>3, <1>4 DEF TokenInv

-----------------------------------------------------------------------------
(* Theorems                                                                *)

\* The three invariants do not depend on anything else.
LEMMA VisitStutter ==
  ASSUME VisitInv, UNCHANGED visitVars
  PROVE  VisitInv' /\ (HonestInv => HonestInv') /\ (TokenInv => TokenInv')
<1> USE DEF visitVars
<1>1. VisitInv'
  BY DEF VisitInv, VisitTypeOK, StageFits
<1>2. HonestInv => HonestInv'
  BY SameMenu, HonestStays, HonestDef
<1>3. TokenInv => TokenInv'
  BY SameRequest, QuietStep DEF Rows
<1>4. QED
  BY <1>1, <1>2, <1>3

\* Rows, tokens and requests keep their types, and a request has what its await needs: only
\* a login or a refresh signs a token, and an order that is about to snapshot a dish has one
\* left to take, one that inserts its orders none.
THEOREM VisitTypeCorrect == VisitSpec => []VisitInv
<1>1. VisitInit => VisitInv
  BY InitVisit
<1>2. VisitInv /\ [VisitNext]_visitVars => VisitInv'
  BY VisitStep, VisitStutter
<1>3. QED
  BY <1>1, <1>2, PTL DEF VisitSpec

\* HonestInv holds in every state.
LEMMA HonestInvariant == VisitSpec => []HonestInv
<1>1. VisitInit => HonestInv
  BY InitHonest
<1>2. VisitInv /\ HonestInv /\ [VisitNext]_visitVars => HonestInv'
  BY HonestStep, VisitStutter
<1>3. QED
  BY <1>1, <1>2, VisitTypeCorrect, PTL DEF VisitSpec

\* For orders of any length and any edits of dishes between their items: createSnapshot takes
\* each dish as it was on the menu during the request, in the order of the items, and create
\* inserts an order for each, CANCELLED exactly if its dish was not being served.
THEOREM OrdersTakeWhatIsOffered == VisitSpec => []OrdersAreOffered
<1>1. HonestInv => OrdersAreOffered
  BY DEF HonestInv, Ordered, OrdersAreOffered
<1>2. QED
  BY <1>1, HonestInvariant, PTL

\* For any number of logins, refreshes and logouts that overlap, stop and lose their answers:
\* between requests the row of a guest has a token a request wrote to it and that nothing
\* later replaced, or none after logout.
THEOREM RowTokensAreCurrent == VisitSpec => []RowTokenIsCurrent
<1>1. VisitInit => TokenInv
  BY InitTokens
<1>2. VisitInv /\ TokenInv /\ [VisitNext]_visitVars => TokenInv'
  BY TokenStep, VisitStutter
<1>3. TokenInv => RowTokenIsCurrent
  BY DEF TokenInv, RowFits, RowTokenIsCurrent
<1>4. QED
  BY <1>1, <1>2, <1>3, VisitTypeCorrect, PTL DEF VisitSpec
=============================================================================
