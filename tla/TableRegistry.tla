---------------------------- MODULE TableRegistry ----------------------------
(***************************************************************************)
(* The dining tables: TableService and TableRepo (routes/table), the       *)
(* orders that occupy them and the list of tables to be billed             *)
(* (findOccupiedTablesWithDeliveredOrders).                                *)
(*                                                                         *)
(* Nothing in the database keeps table numbers apart: create and update    *)
(* look for the number and write in a later await.  Orders and bills know  *)
(* a table by its number only, and a deleted table keeps its row.          *)
(***************************************************************************)
EXTENDS Naturals, FiniteSets

CONSTANTS
    Rows,         \* ids a Table row can get
    Numbers,      \* table numbers
    Orders,       \* orders on their way at the same time
    Reqs,         \* request slots
    RetiresInUse, \* whether staff deletes tables that are occupied
    None          \* no row, no number

ASSUME RetiresAssumption == RetiresInUse \in BOOLEAN
ASSUME OrdersAssumption == IsFiniteSet(Orders)
ASSUME RegistryNoneAssumption == None \notin Rows /\ None \notin Numbers

VARIABLES
    table,  \* table[t]: the Table row
    order,  \* order[o]: an order not billed yet: its table number and its status
    billed, \* the table numbers with an unpaid bill
    req     \* req[r]: what the request in slot r writes next, and where

vars == <<table, order, billed, req>>

-----------------------------------------------------------------------------
TableStatus == {"AVAILABLE", "OCCUPIED", "CLEANING", "UNAVAILABLE"}

NoTable == [state |-> "NONE", number |-> None, status |-> "UNAVAILABLE"]
Table   == [state: {"NONE", "LIVE", "DELETED"}, number: Numbers \cup {None},
            status: TableStatus]

NoOrder == [status |-> "NONE", number |-> None]
Order   == [status: {"NONE", "PENDING", "DELIVERED"}, number: Numbers \cup {None}]

Request == [at: {"idle", "insert", "write", "occupy", "order"}, row: Rows \cup {None},
            number: Numbers \cup {None}]
Idle    == [at |-> "idle", row |-> None, number |-> None]

Live(t)      == table[t].state = "LIVE"
Delivered(n) == {o \in Orders : order[o].status = "DELIVERED" /\ order[o].number = n}

\* findByNumber; findByNumberExcludeSelf leaves one row out.
FindByNumber(n) == {t \in Rows : Live(t) /\ table[t].number = n}

TypeOK ==
    /\ table \in [Rows -> Table]
    /\ order \in [Orders -> Order]
    /\ billed \subseteq Numbers
    /\ req \in [Reqs -> Request]

Init ==
    /\ table = [t \in Rows |-> NoTable]
    /\ order = [o \in Orders |-> NoOrder]
    /\ billed = {}
    /\ req = [r \in Reqs |-> Idle]

-----------------------------------------------------------------------------
(* TableService.create, update, delete                                     *)

CheckNew(r, n) ==
    /\ req[r].at = "idle"
    /\ FindByNumber(n) = {}
    /\ req' = [req EXCEPT ![r] = [at |-> "insert", row |-> None, number |-> n]]
    /\ UNCHANGED <<table, order, billed>>

InsertTable(r) ==
    /\ req[r].at = "insert"
    /\ \E t \in Rows, s \in TableStatus :
        /\ table[t].state = "NONE"
        /\ table' = [table EXCEPT ![t] =
                       [state |-> "LIVE", number |-> req[r].number, status |-> s]]
    /\ req' = [req EXCEPT ![r] = Idle]
    /\ UNCHANGED <<order, billed>>

\* Mutant of CheckNumber: a change of number is not checked.
CheckNothing(r, t, n) ==
    /\ req[r].at = "idle"
    /\ req' = [req EXCEPT ![r] = [at |-> "write", row |-> t, number |-> n]]
    /\ UNCHANGED <<table, order, billed>>

CheckNumber(r, t, n) ==
    /\ req[r].at = "idle"
    /\ FindByNumber(n) \ {t} = {}
    /\ req' = [req EXCEPT ![r] = [at |-> "write", row |-> t, number |-> n]]
    /\ UNCHANGED <<table, order, billed>>

\* The body replaces number and status alike; a table deleted by now is not found.
WriteTable(r) ==
    /\ req[r].at = "write"
    /\ Live(req[r].row)
    /\ \E s \in TableStatus :
          table' = [table EXCEPT ![req[r].row] =
                      [state |-> "LIVE", number |-> req[r].number, status |-> s]]
    /\ req' = [req EXCEPT ![r] = Idle]
    /\ UNCHANGED <<order, billed>>

DeleteTable(t) ==
    /\ Live(t)
    /\ RetiresInUse \/ table[t].status # "OCCUPIED"
    /\ table' = [table EXCEPT ![t].state = "DELETED"]
    /\ UNCHANGED <<order, billed, req>>

-----------------------------------------------------------------------------
(* OrderService.create at a table, and what becomes of orders              *)

\* findByNumber takes the first row there is; a table not in use is refused.
ReadTable(r, n) ==
    /\ req[r].at = "idle"
    /\ \E t \in FindByNumber(n) :
        /\ table[t].status \in {"AVAILABLE", "OCCUPIED"}
        /\ req' = [req EXCEPT ![r] =
                     [at |-> IF table[t].status = "OCCUPIED" THEN "order" ELSE "occupy",
                      row |-> t, number |-> n]]
    /\ UNCHANGED <<table, order, billed>>

\* Mutant of Occupy: the row is updated by its id alone.
OccupyAny(r) ==
    /\ req[r].at = "occupy"
    /\ table' = [table EXCEPT ![req[r].row].status = "OCCUPIED"]
    /\ req' = [req EXCEPT ![r].at = "order"]
    /\ UNCHANGED <<order, billed>>

\* updateStatus finds no row when the table has been deleted.
Occupy(r) ==
    /\ req[r].at = "occupy"
    /\ Live(req[r].row)
    /\ table' = [table EXCEPT ![req[r].row].status = "OCCUPIED"]
    /\ req' = [req EXCEPT ![r].at = "order"]
    /\ UNCHANGED <<order, billed>>

\* Mutant of PlaceOrder: the order is given the table's id for its number.
PlaceOrderByRow(r) ==
    /\ req[r].at = "order"
    /\ \E o \in Orders :
        /\ order[o].status = "NONE"
        /\ order' = [order EXCEPT ![o] = [status |-> "PENDING", number |-> req[r].row]]
    /\ req' = [req EXCEPT ![r] = Idle]
    /\ UNCHANGED <<table, billed>>

PlaceOrder(r) ==
    /\ req[r].at = "order"
    /\ \E o \in Orders :
        /\ order[o].status = "NONE"
        /\ order' = [order EXCEPT ![o] = [status |-> "PENDING", number |-> req[r].number]]
    /\ req' = [req EXCEPT ![r] = Idle]
    /\ UNCHANGED <<table, billed>>

\* Delivery, and whatever else staff makes of an order: any status, any number, deleted.
Edit(o) ==
    /\ order[o].status # "NONE"
    /\ \E e \in [status: {"PENDING", "DELIVERED"}, number: Numbers] \cup {NoOrder} :
          order' = [order EXCEPT ![o] = e]
    /\ UNCHANGED <<table, billed, req>>

\* The orders of a bill are no longer to be billed.  (Read and linked at once: for what
\* can happen between the two see OrderBilling.)
CreateBill(n, S) ==
    /\ S # {} /\ S \subseteq Delivered(n)
    /\ order' = [o \in Orders |-> IF o \in S THEN NoOrder ELSE order[o]]
    /\ billed' = billed \cup {n}
    /\ UNCHANGED <<table, req>>

\* Every row with the bill's number is set to CLEANING; other bills of it may be left.
CompleteBillPayment(n) ==
    /\ n \in billed
    /\ table' = [t \in Rows |-> IF table[t].number = n
                                THEN [table[t] EXCEPT !.status = "CLEANING"] ELSE table[t]]
    /\ billed' \in {billed, billed \ {n}}
    /\ UNCHANGED <<order, req>>

\* What was looked for is not there, or the call fails.
Abandon(r) ==
    /\ req[r].at # "idle"
    /\ req' = [req EXCEPT ![r] = Idle]
    /\ UNCHANGED <<table, order, billed>>

-----------------------------------------------------------------------------
Handle(r) ==
    \/ \E n \in Numbers : CheckNew(r, n) \/ ReadTable(r, n)
    \/ \E t \in Rows, n \in Numbers : CheckNumber(r, t, n)
    \/ InsertTable(r) \/ WriteTable(r) \/ Occupy(r) \/ PlaceOrder(r) \/ Abandon(r)

Next ==
    \/ \E r \in Reqs : Handle(r)
    \/ \E t \in Rows : DeleteTable(t)
    \/ \E o \in Orders : Edit(o)
    \/ \E n \in Numbers : CompleteBillPayment(n) \/ \E S \in SUBSET Orders : CreateBill(n, S)

Spec == Init /\ [][Next]_vars

-----------------------------------------------------------------------------
(* findOccupiedTablesWithDeliveredOrders                                   *)

\* The rows an order of number n is joined with: deletedAt is not looked at.
Joined(n) == {t \in Rows : table[t].state # "NONE" /\ table[t].number = n
                                                  /\ table[t].status = "OCCUPIED"}

\* deliveredOrdersCount, and in the same proportion totalAmount: one for each pair.
DeliveredOrdersCount(n) == Cardinality(Delivered(n) \X Joined(n))

-----------------------------------------------------------------------------
(* Properties                                                              *)

\* A number means one table: create and update look for it before they write.  (For
\* requests one at a time; two that overlap can make the same number.)
OneTablePerNumber ==
    \A t, u \in Rows : Live(t) /\ Live(u) /\ table[t].number = table[u].number => t = u

\* The list of tables to be billed counts an order once, although the join is by number
\* and deleted tables keep theirs: what it says of a table is what its orders say.  (As
\* long as no occupied table is deleted.)
CountedOnce ==
    \A n \in Numbers : DeliveredOrdersCount(n) \in {0, Cardinality(Delivered(n))}

\* What makes the first inductive, with one request at a time: nobody has taken the
\* number a request has found free; and the second: no deleted table is occupied.
ChecksHold ==
    \A r \in Reqs :
        /\ req[r].at \in {"insert", "write"} => req[r].number \in Numbers
        /\ req[r].at = "insert" => FindByNumber(req[r].number) = {}
        /\ req[r].at = "write" => FindByNumber(req[r].number) \subseteq {req[r].row}

DeletedNotOccupied == \A t \in Rows : table[t].state = "DELETED" => table[t].status # "OCCUPIED"

UniqueInv == /\ OneTablePerNumber /\ ChecksHold
             /\ \A t \in Rows : Live(t) => table[t].number # None

RegistryInv == UniqueInv /\ DeletedNotOccupied
=============================================================================
