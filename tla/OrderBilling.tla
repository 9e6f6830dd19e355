---------------------------- MODULE OrderBilling ----------------------------
(***************************************************************************)
(* From an order at a table to a bill for it: OrderService and OrderRepo   *)
(* (with the dish snapshots they take and the table they occupy), and      *)
(* BillService.createBill with BillRepository.createBillWithOrders.        *)
(*                                                                         *)
(* Creating orders and creating a bill take several awaits, one action     *)
(* each, with what was read kept in the request's slot; updating, serving, *)
(* deleting an order and setting a table are one database call each.  How  *)
(* a bill gets paid is BillPayment's subject: here its last transaction,   *)
(* completeBillPayment, is one step.                                       *)
(***************************************************************************)
EXTENDS Naturals, FiniteSets, Functions

CONSTANTS
    Orders,      \* ids an order can get, a bound on the orders made
    Tables,      \* table numbers
    Bills,       \* ids a bill can get, a bound on the bills made
    Reqs,        \* request slots
    Amounts,     \* line totals (snapshot price times quantity)
    None         \* no table, no bill

ASSUME NoneAssumption == None \notin Tables /\ None \notin Bills
ASSUME AmountsAssumption == Amounts \subseteq Nat
ASSUME OrdersAssumption == IsFiniteSet(Orders)

VARIABLES
    order,   \* order[o]: the Order row, NoOrder before it is inserted
    snap,    \* snap[o]: the status of the DishSnapshot row taken for o
    table,   \* table[t]: the Table row's status
    bill,    \* bill[b]: the Bill row, NoBill before it is inserted
    req,     \* req[r]: where the request in slot r stands
    served,  \* history: the orders that have been DELIVERED at some time
    calm     \* history: requests came one at a time, staff left served orders alone

vars == <<order, snap, table, bill, req, served, calm>>

-----------------------------------------------------------------------------
\* PENDING stands for CONFIRMED and SHIPPED as well: nothing here tells them apart.
OrderStatus == {"PENDING", "DELIVERED", "COMPLETED", "CANCELLED"}
TableStatus == {"AVAILABLE", "OCCUPIED", "CLEANING", "UNAVAILABLE"}

NoOrder == [status |-> "NONE", table |-> None, bill |-> None, amount |-> 0, deleted |-> FALSE]
Order   == [status: OrderStatus \cup {"NONE"}, table: Tables \cup {None},
            bill: Bills \cup {None}, amount: Amounts \cup {0}, deleted: BOOLEAN]

NoBill == [status |-> "NONE", table |-> None, subtotal |-> 0]
Bill   == [status: {"NONE", "PENDING", "PAID"}, table: Tables \cup {None}, subtotal: Nat]

\* items: the snapshots taken so far, or the orders the bill is for.
Request == [at: {"idle", "occupy", "items", "bill"}, table: Tables \cup {None},
            items: SUBSET Orders, subtotal: Nat]
Idle    == [at |-> "idle", table |-> None, items |-> {}, subtotal |-> 0]

Placed(o)   == order[o].status # "NONE"
Live(o)     == Placed(o) /\ ~order[o].deleted
OnBill(b)   == {o \in Orders : order[o].bill = b}
Subtotal(rows, S) == SumFunction([o \in S |-> rows[o].amount])

\* The orders nothing stands for yet: no row, no snapshot.
Fresh == {o \in Orders : ~Placed(o) /\ snap[o] = "NONE"}

TypeOK ==
    /\ order \in [Orders -> Order]
    /\ snap \in [Orders -> {"NONE", "ACTIVE", "INACTIVE"}]
    /\ table \in [Tables -> TableStatus]
    /\ bill \in [Bills -> Bill]
    /\ req \in [Reqs -> Request]
    /\ served \subseteq Orders /\ calm \in BOOLEAN

Init ==
    /\ order = [o \in Orders |-> NoOrder]
    /\ snap = [o \in Orders |-> "NONE"]
    /\ table = [t \in Tables |-> "AVAILABLE"]
    /\ bill = [b \in Bills |-> NoBill]
    /\ req = [r \in Reqs |-> Idle]
    /\ served = {} /\ calm = TRUE

\* A request comes in: it is not overlapped if no other is under way.
Begin == calm' = (calm /\ \A r \in Reqs : req[r].at = "idle")

-----------------------------------------------------------------------------
(* OrderService.create                                                     *)

\* The table and the guest are read; a table being cleaned or out of use is refused.
ReadTable(r, t) ==
    /\ req[r].at = "idle"
    /\ Begin
    /\ table[t] \in {"AVAILABLE", "OCCUPIED"}
    /\ req' = [req EXCEPT ![r] =
                 [at |-> IF table[t] = "OCCUPIED" THEN "items" ELSE "occupy", table |-> t,
                  items |-> {}, subtotal |-> 0]]
    /\ UNCHANGED <<order, snap, table, bill, served>>

OccupyTable(r) ==
    /\ req[r].at = "occupy"
    /\ table' = [table EXCEPT ![req[r].table] = "OCCUPIED"]
    /\ req' = [req EXCEPT ![r].at = "items"]
    /\ UNCHANGED <<order, snap, bill, served, calm>>

\* dishSnapshotService.create copies the dish as it is now, ACTIVE or not.
TakeSnapshot(r) ==
    /\ req[r].at = "items"
    /\ \E o \in Fresh, s \in {"ACTIVE", "INACTIVE"} :
        /\ snap' = [snap EXCEPT ![o] = s]
        /\ req' = [req EXCEPT ![r].items = @ \cup {o}]
    /\ UNCHANGED <<order, table, bill, served, calm>>

\* Mutant of InitialStatus: the dish's status is copied into the order.
CopiedStatus(o) == snap[o]

\* createMany: one row per snapshot, in one transaction.  An inactive dish gives an
\* order that is CANCELLED from the start.
InitialStatus(o) == IF snap[o] = "ACTIVE" THEN "PENDING" ELSE "CANCELLED"

CreateMany(r) ==
    /\ req[r].at = "items"
    /\ \E amount \in [req[r].items -> Amounts] :
        order' = [o \in Orders |->
            IF o \in req[r].items
            THEN [NoOrder EXCEPT !.status = InitialStatus(o), !.table = req[r].table,
                                 !.amount = amount[o]]
            ELSE order[o]]
    /\ req' = [req EXCEPT ![r] = Idle]
    /\ UNCHANGED <<snap, table, bill, served, calm>>

\* A dish that does not exist, a failed call or a crash: what was written stays.
Abandon(r) ==
    /\ req[r].at # "idle"
    /\ req' = [req EXCEPT ![r] = Idle]
    /\ UNCHANGED <<order, snap, table, bill, served, calm>>

-----------------------------------------------------------------------------
(* OrderService.update, updateStatus, deliverOrderByStaff, delete          *)

\* The code's only guard is deletedAt: what has been served can be edited, too.
Editable(o) == /\ Live(o)
               /\ calm' = (calm /\ order[o].status \notin {"DELIVERED", "COMPLETED"})

\* Any status can follow any other.
Serve(o, status) == served' = IF status = "DELIVERED" THEN served \cup {o} ELSE served

\* The body replaces table, quantity, snapshot and status; a status left out is PENDING.
\* Quantity and snapshot show here as the line total they give.
Update(o, t, amount, status) ==
    /\ Editable(o)
    /\ order' = [order EXCEPT ![o] = [status |-> status, table |-> t, bill |-> order[o].bill,
                                      amount |-> amount, deleted |-> FALSE]]
    /\ Serve(o, status)
    /\ UNCHANGED <<snap, table, bill, req>>

\* deliverOrderByStaff is the status DELIVERED.
UpdateStatus(o, status) ==
    /\ Editable(o)
    /\ order' = [order EXCEPT ![o].status = status]
    /\ Serve(o, status)
    /\ UNCHANGED <<snap, table, bill, req>>

Delete(o) ==
    /\ Editable(o)
    /\ order' = [order EXCEPT ![o].deleted = TRUE]
    /\ UNCHANGED <<snap, table, bill, req, served>>

-----------------------------------------------------------------------------
(* BillService.createBill                                                  *)

\* Mutants of Billable: the status, or the bill the order is on, is not looked at.
BillableUnserved(o, t) == Live(o) /\ order[o].table = t /\ order[o].bill = None
BillableAgain(o, t)    == Live(o) /\ order[o].table = t /\ order[o].status = "DELIVERED"

\* findDeliveredOrdersByTableNumber
Billable(o, t) == /\ Live(o) /\ order[o].table = t
                  /\ order[o].status = "DELIVERED" /\ order[o].bill = None

\* Mutant of ReadDelivered: orders of another table are let in, as long as one is valid,
\* and the total is that of the valid ones.
ReadSomeDelivered(r, t, S) ==
    /\ req[r].at = "idle"
    /\ Begin
    /\ \E o \in S : Billable(o, t)
    /\ req' = [req EXCEPT ![r] = [at |-> "bill", table |-> t, items |-> S,
                 subtotal |-> Subtotal(order, {o \in S : Billable(o, t)})]]
    /\ UNCHANGED <<order, snap, table, bill, served>>

\* The orders asked for must all be billable; the total is computed from this read.
ReadDelivered(r, t, S) ==
    /\ req[r].at = "idle"
    /\ Begin
    /\ S # {} /\ \A o \in S : Billable(o, t)
    /\ req' = [req EXCEPT ![r] = [at |-> "bill", table |-> t, items |-> S,
                                  subtotal |-> Subtotal(order, S)]]
    /\ UNCHANGED <<order, snap, table, bill, served>>

\* createBillWithOrders: insert the bill, point every order at it, whatever the orders
\* have become.
CreateBillWithOrders(r) ==
    /\ req[r].at = "bill"
    /\ \E b \in Bills :
        /\ bill[b].status = "NONE"
        /\ bill' = [bill EXCEPT ![b] = [status |-> "PENDING", table |-> req[r].table,
                                        subtotal |-> req[r].subtotal]]
        /\ order' = [o \in Orders |-> IF o \in req[r].items
                                      THEN [order[o] EXCEPT !.bill = b] ELSE order[o]]
    /\ req' = [req EXCEPT ![r] = Idle]
    /\ UNCHANGED <<snap, table, served, calm>>

\* completeBillPayment, as BillPayment's handlers end in it.
CompleteBillPayment(b) ==
    /\ bill[b].status = "PENDING"
    /\ bill' = [bill EXCEPT ![b].status = "PAID"]
    /\ order' = [o \in Orders |-> IF order[o].bill = b
                                  THEN [order[o] EXCEPT !.status = "COMPLETED"] ELSE order[o]]
    /\ table' = [table EXCEPT ![bill[b].table] = "CLEANING"]
    /\ UNCHANGED <<snap, req, served, calm>>

\* TableService.update: staff sets any status.
SetTable(t, status) ==
    /\ table' = [table EXCEPT ![t] = status]
    /\ UNCHANGED <<order, snap, bill, req, served, calm>>

-----------------------------------------------------------------------------
Handle(r) ==
    \/ \E t \in Tables : ReadTable(r, t) \/ \E S \in SUBSET Orders : ReadDelivered(r, t, S)
    \/ OccupyTable(r) \/ TakeSnapshot(r) \/ CreateMany(r) \/ Abandon(r)
    \/ CreateBillWithOrders(r)

Next ==
    \/ \E r \in Reqs : Handle(r)
    \/ \E o \in Orders, s \in OrderStatus :
          UpdateStatus(o, s) \/ \E t \in Tables, a \in Amounts : Update(o, t, a, s)
    \/ \E o \in Orders : Delete(o)
    \/ \E b \in Bills : CompleteBillPayment(b)
    \/ \E t \in Tables, s \in TableStatus : SetTable(t, s)

Spec == Init /\ [][Next]_vars

-----------------------------------------------------------------------------
(* Properties                                                              *)

\* Nobody is billed for a dish that was never served: an order is on a bill only if it
\* has been DELIVERED, however old the read behind createBill is by the time it writes.
BilledWasServed == \A o \in Orders : order[o].bill # None => o \in served

\* What makes it inductive.  What a createBill has read is old when it is used, but it
\* cannot become wrong about the past: an order found DELIVERED has been served.
ServedInv ==
    /\ \A o \in Orders : order[o].status = "DELIVERED" => o \in served
    /\ \A r \in Reqs : req[r].at = "bill" => req[r].items \subseteq served
    /\ BilledWasServed

\* The other three need requests one at a time and staff that leaves served orders alone,
\* neither of which the code sees to.

\* A bill asks for what its orders cost: its subtotal is theirs, and none is deleted.
SubtotalIsOrders ==
    calm => \A b \in Bills : bill[b].status # "NONE" =>
        /\ bill[b].subtotal = Subtotal(order, OnBill(b))
        /\ \A o \in OnBill(b) : ~order[o].deleted

\* An order is put on a bill only as DELIVERED and not deleted (createBill validates it).
OnlyDeliveredBilled ==
    [][calm => \A o \in Orders : order[o].bill # order'[o].bill =>
          order[o].status = "DELIVERED" /\ ~order[o].deleted]_vars

\* An order stays on the bill it was put on: no second bill takes it over.
BilledOnce ==
    [][calm => \A o \in Orders : order[o].bill # None => order'[o].bill = order[o].bill]_vars

-----------------------------------------------------------------------------
(* What the proofs of these properties maintain, whatever overlaps:        *)

\* a slot's snapshots are its own and have no order yet; what a bill is for has been placed
DraftsApart ==
    /\ \A o \in Orders : ~Placed(o) => order[o] = NoOrder
    /\ \A r \in Reqs : req[r].at = "bill" => \A o \in req[r].items : Placed(o)
    /\ \A r \in Reqs : req[r].at # "bill" => \A o \in req[r].items :
          ~Placed(o) /\ snap[o] # "NONE" /\ \A q \in Reqs : o \in req[q].items => q = r

\* and, as long as requests come one at a time and staff leaves served orders alone:
Alone == calm => \A r, q \in Reqs : req[r].at # "idle" /\ req[q].at # "idle" => r = q

\* what createBill has read still is so when it writes
ReadStillHolds ==
    calm => \A r \in Reqs : req[r].at = "bill" =>
        /\ req[r].subtotal = Subtotal(order, req[r].items)
        /\ \A o \in req[r].items : Billable(o, req[r].table)

\* what is on a bill has been served, stays listed, and the bill is there.
BilledStays ==
    calm => \A o \in Orders : order[o].bill # None =>
        /\ order[o].status \in {"DELIVERED", "COMPLETED"} /\ ~order[o].deleted
        /\ bill[order[o].bill].status # "NONE"

BillingInv == /\ TypeOK /\ DraftsApart /\ Alone /\ ReadStillHolds /\ BilledStays
              /\ SubtotalIsOrders
=============================================================================
