------------------------ MODULE TableRegistry_proofs ------------------------
(***************************************************************************)
(* Proofs about TableRegistry, for any number of rows, numbers and orders: *)
(* numbers stay unique when requests do not overlap, and the list of       *)
(* tables to be billed then counts every order once.                       *)
(***************************************************************************)
EXTENDS TableRegistry, FiniteSetTheorems, TLAPS

OneAtATime == \A r, s \in Reqs : r = s

IInv == /\ TypeOK
        /\ OneAtATime => UniqueInv
        /\ ~RetiresInUse => DeletedNotOccupied

\* There is no table and no order at first.
LEMMA InitRegistry == Init => IInv
<1> SUFFICES ASSUME Init PROVE IInv
  OBVIOUS
<1>1. TypeOK
  BY DEF Init, TypeOK, NoTable, Table, TableStatus, NoOrder, Order, Idle, Request
<1>2. UniqueInv
  BY DEF Init, UniqueInv, OneTablePerNumber, ChecksHold, Live, NoTable, Idle
<1>3. DeletedNotOccupied
  BY DEF Init, DeletedNotOccupied, NoTable
<1>4. QED
  BY <1>1, <1>2, <1>3 DEF IInv

\* Every step keeps the types.
LEMMA TypeStep == TypeOK /\ [Next]_vars => TypeOK'
<1> SUFFICES ASSUME TypeOK, [Next]_vars PROVE TypeOK'
  OBVIOUS
<1> USE DEF TypeOK
<1>1. Idle \in Request
  BY DEF Idle, Request
<1>2. ASSUME NEW r \in Reqs, Handle(r) PROVE TypeOK'
  <2> USE <1>1
  <2>1. ASSUME NEW n \in Numbers, CheckNew(r, n) PROVE TypeOK'
    BY <2>1 DEF CheckNew, Request
  <2>2. ASSUME NEW n \in Numbers, ReadTable(r, n) PROVE TypeOK'
    BY <2>2 DEF ReadTable, Request, FindByNumber
  <2>3. ASSUME NEW t \in Rows, NEW n \in Numbers, CheckNumber(r, t, n) PROVE TypeOK'
    BY <2>3 DEF CheckNumber, Request
  <2>4. CASE InsertTable(r)
    BY <2>4 DEF InsertTable, Table, Request
  <2>5. CASE WriteTable(r)
    <3>1. req[r].number \in Numbers \cup {None} /\ req' \in [Reqs -> Request]
      BY <2>5 DEF WriteTable, Request
    <3>2. table' \in [Rows -> Table]
      <4>1. PICK s \in TableStatus :
               table' = [table EXCEPT ![req[r].row] =
                           [state |-> "LIVE", number |-> req[r].number, status |-> s]]
        BY <2>5 DEF WriteTable
      <4>2. [state |-> "LIVE", number |-> req[r].number, status |-> s] \in Table
        BY <3>1 DEF Table
      <4>3. QED
        BY <4>1, <4>2
    <3>3. QED
      BY <2>5, <3>1, <3>2 DEF WriteTable
  <2>6. CASE Occupy(r)
    <3>1. req' \in [Reqs -> Request]
      BY <2>6 DEF Occupy, Request
    <3>2. table' \in [Rows -> Table]
      BY <2>6 DEF Occupy, Table, TableStatus
    <3>3. QED
      BY <2>6, <3>1, <3>2 DEF Occupy
  <2>7. CASE PlaceOrder(r)
    BY <2>7 DEF PlaceOrder, Order, Request
  <2>8. CASE Abandon(r)
    BY <2>8 DEF Abandon
  <2>9. QED
    BY <1>2, <2>1, <2>2, <2>3, <2>4, <2>5, <2>6, <2>7, <2>8 DEF Handle
<1>3. ASSUME NEW t \in Rows, DeleteTable(t) PROVE TypeOK'
  BY <1>3 DEF DeleteTable, Table
<1>4. ASSUME NEW o \in Orders, Edit(o) PROVE TypeOK'
  BY <1>4 DEF Edit, Order, NoOrder
<1>5. ASSUME NEW n \in Numbers, NEW S \in SUBSET Orders, CreateBill(n, S) PROVE TypeOK'
  BY <1>5 DEF CreateBill, Order, NoOrder
<1>6. ASSUME NEW n \in Numbers, CompleteBillPayment(n) PROVE TypeOK'
  BY <1>6 DEF CompleteBillPayment, Table, TableStatus
<1>7. CASE UNCHANGED vars
  BY <1>7 DEF vars
<1>8. QED
  BY <1>2, <1>3, <1>4, <1>5, <1>6, <1>7 DEF Next

\* A step that puts no number anywhere, and no check in flight, keeps numbers apart.
LEMMA SameNumbers ==
  ASSUME TypeOK, UniqueInv,
         \A t \in Rows : Live(t)' => Live(t) /\ table'[t].number = table[t].number,
         \A q \in Reqs : req'[q].at \in {"insert", "write"} => req'[q] = req[q]
  PROVE  UniqueInv'
<1>1. OneTablePerNumber'
  BY DEF UniqueInv, OneTablePerNumber
<1>2. ASSUME NEW n PROVE FindByNumber(n)' \subseteq FindByNumber(n)
  BY DEF FindByNumber
<1>3. ChecksHold'
  BY DEF UniqueInv, ChecksHold, FindByNumber
<1>4. QED
  BY <1>1, <1>3 DEF UniqueInv

\* With one request in flight, what it found free is free when it writes.
LEMMA UniqueStep ==
  ASSUME TypeOK, UniqueInv, OneAtATime, [Next]_vars
  PROVE  UniqueInv'
<1> USE DEF TypeOK
<1>1. ASSUME NEW r \in Reqs, Handle(r) PROVE UniqueInv'
  <2> Reqs = {r}
    BY DEF OneAtATime
  <2>1. ASSUME NEW n \in Numbers, CheckNew(r, n) PROVE UniqueInv'
    BY <2>1 DEF CheckNew, UniqueInv, OneTablePerNumber, ChecksHold, FindByNumber, Live, Request
  <2>2. ASSUME NEW n \in Numbers, ReadTable(r, n) PROVE UniqueInv'
    <3>1. req'[r].at \in {"order", "occupy"} /\ table' = table
      BY <2>2 DEF ReadTable, Request
    <3>2. QED
      BY <3>1, SameNumbers DEF Live
  <2>3. ASSUME NEW t \in Rows, NEW n \in Numbers, CheckNumber(r, t, n) PROVE UniqueInv'
    BY <2>3 DEF CheckNumber, UniqueInv, OneTablePerNumber, ChecksHold, FindByNumber, Live, Request
  <2>4. CASE InsertTable(r)
    <3>1. PICK t \in Rows, s \in TableStatus :
             /\ table[t].state = "NONE"
             /\ table' = [table EXCEPT ![t] =
                            [state |-> "LIVE", number |-> req[r].number, status |-> s]]
      BY <2>4 DEF InsertTable
    <3>2. /\ FindByNumber(req[r].number) = {}
          /\ req'[r].at = "idle" /\ req[r].number \in Numbers
      BY <2>4 DEF InsertTable, UniqueInv, ChecksHold, Idle
    <3>3. OneTablePerNumber'
      BY <3>1, <3>2 DEF UniqueInv, OneTablePerNumber, Live, FindByNumber
    <3>4. ChecksHold'
      BY <3>2 DEF ChecksHold
    <3>5. ASSUME NEW u \in Rows, Live(u)' PROVE table'[u].number # None
      <4>1. CASE u = t
        BY <4>1, <3>1, <3>2, RegistryNoneAssumption
      <4>2. CASE u # t
        BY <4>2, <3>1, <3>5 DEF UniqueInv, Live
      <4>3. QED
        BY <4>1, <4>2
    <3>6. QED
      BY <3>3, <3>4, <3>5 DEF UniqueInv
  <2>5. CASE WriteTable(r)
    <3> DEFINE t == req[r].row
    <3>1. PICK s \in TableStatus :
             table' = [table EXCEPT ![t] =
                         [state |-> "LIVE", number |-> req[r].number, status |-> s]]
      BY <2>5 DEF WriteTable
    <3>2. /\ FindByNumber(req[r].number) \subseteq {t}
          /\ req'[r].at = "idle" /\ req[r].number \in Numbers
      BY <2>5 DEF WriteTable, UniqueInv, ChecksHold, Idle
    <3>3. OneTablePerNumber'
      BY <3>1, <3>2 DEF UniqueInv, OneTablePerNumber, Live, FindByNumber
    <3>4. ChecksHold'
      BY <3>2 DEF ChecksHold
    <3>5. ASSUME NEW u \in Rows, Live(u)' PROVE table'[u].number # None
      <4>1. CASE u = t
        BY <4>1, <3>1, <3>2, RegistryNoneAssumption
      <4>2. CASE u # t
        BY <4>2, <3>1, <3>5 DEF UniqueInv, Live
      <4>3. QED
        BY <4>1, <4>2
    <3>6. QED
      BY <3>3, <3>4, <3>5 DEF UniqueInv
  <2>6. CASE Occupy(r)
    <3>1. \A t \in Rows : Live(t)' => Live(t) /\ table'[t].number = table[t].number
      BY <2>6 DEF Occupy, Live, Table
    <3>2. req'[r].at = "order"
      BY <2>6 DEF Occupy, Request
    <3>3. QED
      BY <3>1, <3>2, SameNumbers
  <2>7. CASE PlaceOrder(r) \/ Abandon(r)
    <3>1. req'[r].at = "idle" /\ table' = table
      BY <2>7 DEF PlaceOrder, Abandon, Idle
    <3>2. QED
      BY <3>1, SameNumbers DEF Live
  <2>8. QED
    BY <1>1, <2>1, <2>2, <2>3, <2>4, <2>5, <2>6, <2>7 DEF Handle
<1>2. ASSUME NEW t \in Rows, DeleteTable(t) PROVE UniqueInv'
  <2>1. /\ \A u \in Rows : Live(u)' => Live(u) /\ table'[u].number = table[u].number
        /\ req' = req
    BY <1>2 DEF DeleteTable, Live, Table
  <2>2. QED
    BY <2>1, SameNumbers
<1>3. CASE \E o \in Orders : Edit(o)
  BY <1>3, SameNumbers DEF Edit, Live
<1>4. CASE \E n \in Numbers, S \in SUBSET Orders : CreateBill(n, S)
  BY <1>4, SameNumbers DEF CreateBill, Live
<1>5. ASSUME NEW n \in Numbers, CompleteBillPayment(n) PROVE UniqueInv'
  <2>1. /\ \A u \in Rows : Live(u)' => Live(u) /\ table'[u].number = table[u].number
        /\ req' = req
    BY <1>5 DEF CompleteBillPayment, Live, Table
  <2>2. QED
    BY <2>1, SameNumbers
<1>6. CASE UNCHANGED vars
  BY <1>6, SameNumbers DEF vars, Live
<1>7. QED
  BY <1>1, <1>2, <1>3, <1>4, <1>5, <1>6 DEF Next

\* A table deleted while nobody is at it is not occupied afterwards either: whatever
\* occupies a table finds it by deletedAt.
LEMMA DeletedStep ==
  ASSUME TypeOK, DeletedNotOccupied, ~RetiresInUse, [Next]_vars
  PROVE  DeletedNotOccupied'
<1> USE DEF TypeOK, DeletedNotOccupied
<1>1. ASSUME NEW r \in Reqs, Handle(r) PROVE DeletedNotOccupied'
  <2>1. CASE InsertTable(r)
    BY <2>1 DEF InsertTable
  <2>2. CASE WriteTable(r)
    BY <2>2 DEF WriteTable
  <2>3. CASE Occupy(r)
    BY <2>3 DEF Occupy, Live, Table
  <2>4. CASE table' = table
    BY <2>4
  <2>5. QED
    BY <1>1, <2>1, <2>2, <2>3, <2>4
       DEF Handle, CheckNew, ReadTable, CheckNumber, PlaceOrder, Abandon
<1>2. ASSUME NEW t \in Rows, DeleteTable(t) PROVE DeletedNotOccupied'
  BY <1>2 DEF DeleteTable, Table
<1>3. ASSUME NEW n \in Numbers, CompleteBillPayment(n) PROVE DeletedNotOccupied'
  BY <1>3 DEF CompleteBillPayment, Table
<1>4. CASE table' = table
  BY <1>4
<1>5. QED
  BY <1>1, <1>2, <1>3, <1>4 DEF Next, Edit, CreateBill, vars

\* Together.
LEMMA Inductive == Spec => []IInv
<1>1. ASSUME IInv, [Next]_vars PROVE IInv'
  <2>1. TypeOK'
    BY <1>1, TypeStep DEF IInv
  <2>2. OneAtATime => UniqueInv'
    BY <1>1, UniqueStep DEF IInv
  <2>3. ~RetiresInUse => DeletedNotOccupied'
    BY <1>1, DeletedStep DEF IInv
  <2>4. QED
    BY <2>1, <2>2, <2>3 DEF IInv, OneAtATime
<1>2. QED
  BY <1>1, InitRegistry, PTL DEF Spec

\* When at most one row can be joined with an order, an order is counted once or never.
LEMMA JoinedOnce ==
  ASSUME UniqueInv, DeletedNotOccupied, TypeOK
  PROVE  CountedOnce
<1> SUFFICES ASSUME NEW n \in Numbers
             PROVE  DeliveredOrdersCount(n) \in {0, Cardinality(Delivered(n))}
  BY DEF CountedOnce
<1>1. IsFiniteSet(Delivered(n))
  BY OrdersAssumption, FS_Subset DEF Delivered
<1>2. \A t \in Joined(n) : t \in Rows /\ Live(t) /\ table[t].number = n
  BY DEF Joined, DeletedNotOccupied, TypeOK, Table, Live
<1>3. \A t, u \in Joined(n) : t = u
  BY <1>2 DEF UniqueInv, OneTablePerNumber
<1>4. CASE Joined(n) = {}
  <2>1. Delivered(n) \X Joined(n) = {}
    BY <1>4
  <2>2. QED
    BY <2>1, FS_EmptySet DEF DeliveredOrdersCount
<1>5. CASE Joined(n) # {}
  <2>1. PICK t : Joined(n) = {t}
    BY <1>3, <1>5
  <2>2. IsFiniteSet(Joined(n)) /\ Cardinality(Joined(n)) = 1
    BY <2>1, FS_Singleton
  <2>3. DeliveredOrdersCount(n) = Cardinality(Delivered(n)) * 1
    BY <1>1, <2>2, FS_Product DEF DeliveredOrdersCount
  <2>4. Cardinality(Delivered(n)) \in Nat
    BY <1>1, FS_CardinalityType
  <2>5. QED
    BY <2>3, <2>4
<1>6. QED
  BY <1>4, <1>5

\* Rows, orders and slots keep their types, with any number of requests at a time.
THEOREM TypeCorrect == Spec => []TypeOK
<1>1. IInv => TypeOK
  BY DEF IInv
<1>2. QED
  BY <1>1, Inductive, PTL

\* Requests that do not overlap keep table numbers unique, whatever staff, kitchen and
\* payments do meanwhile (create and update of table.service).
THEOREM NumbersStayUnique == Spec => [](OneAtATime => OneTablePerNumber)
<1>1. IInv => (OneAtATime => OneTablePerNumber)
  BY DEF IInv, UniqueInv
<1>2. QED
  BY <1>1, Inductive, PTL

\* If besides no occupied table is deleted, the list of tables to be billed counts each
\* order once (findOccupiedTablesWithDeliveredOrders).
THEOREM OrdersCountedOnce == Spec => [](OneAtATime /\ ~RetiresInUse => CountedOnce)
<1>1. IInv => (OneAtATime /\ ~RetiresInUse => CountedOnce)
  BY JoinedOnce DEF IInv
<1>2. QED
  BY <1>1, Inductive, PTL
=============================================================================
