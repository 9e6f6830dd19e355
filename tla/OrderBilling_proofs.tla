------------------------ MODULE OrderBilling_proofs ------------------------
(***************************************************************************)
(* Proofs about OrderBilling, for any number of orders, tables, bills and  *)
(* requests in flight, with staff editing whatever it likes.               *)
(*                                                                         *)
(* The first part is about sums: that the subtotal of any finite set of    *)
(* orders is a natural number.  The inductions in it are by a least        *)
(* counterexample, since the provers do not instantiate the induction      *)
(* theorems of the library.                                                *)
(***************************************************************************)
EXTENDS OrderBilling, FiniteSetTheorems, WellFoundedInduction, TLAPS

-----------------------------------------------------------------------------
(* Sums                                                                    *)

Some(s) == CHOOSE x \in s : TRUE

\* The function whose value SumFunction is: g adds up f at s as the definition says.
Adds(f, g, s) == g[s] = IF s = {} THEN 0 ELSE f[Some(s)] + g[s \ {Some(s)}]
Iter(f) == CHOOSE iter : iter = [s \in SUBSET DOMAIN f |->
             IF s = {} THEN 0 ELSE f[Some(s)] + iter[s \ {Some(s)}]]

LEMMA SomeIn == ASSUME NEW s, s # {} PROVE Some(s) \in s
BY DEF Some

LEMMA SumIter == ASSUME NEW f PROVE SumFunction(f) = Iter(f)[DOMAIN f]
BY DEF SumFunction, SumFunctionOnSet, FoldFunctionOnSet, MapThenFoldSet, Iter, Some

LEMMA Least ==
  ASSUME NEW T, T \subseteq Nat, T # {}
  PROVE  \E n \in T : \A m \in T : n <= m
<1>1. PICK n \in T : \A m \in T : ~ (<<m, n>> \in OpToRel(<, Nat))
  BY NatLessThanWellFounded, WFMin
<1>2. \A m \in T : ~ (m < n)
  BY <1>1 DEF OpToRel
<1> QED
  BY <1>2

LEMMA SubsetSize ==
  ASSUME NEW D, IsFiniteSet(D), NEW s \in SUBSET D
  PROVE  /\ IsFiniteSet(s) /\ Cardinality(s) \in Nat
         /\ s # {} => /\ s \ {Some(s)} \in SUBSET D
                      /\ Cardinality(s \ {Some(s)}) = Cardinality(s) - 1
                      /\ Cardinality(s) > 0
<1>1. IsFiniteSet(s)
  BY FS_Subset
<1>2. Cardinality(s) \in Nat
  BY <1>1, FS_CardinalityType
<1>3. ASSUME s # {} PROVE /\ s \ {Some(s)} \in SUBSET D
                      /\ Cardinality(s \ {Some(s)}) = Cardinality(s) - 1
                      /\ Cardinality(s) > 0
  <2>1. Some(s) \in s
    BY <1>3, SomeIn
  <2>2. Cardinality(s) # 0
    BY <1>1, <1>3, FS_EmptySet
  <2>3. Cardinality(s \ {Some(s)}) = Cardinality(s) - 1
    BY <1>1, <2>1, FS_RemoveElement
  <2> QED
    BY <1>2, <2>2, <2>3
<1> QED
  BY <1>1, <1>2, <1>3

\* Sets of any size can be added up, by adding one element to what smaller ones come to.
LEMMA Solvable ==
  ASSUME NEW f, IsFiniteSet(DOMAIN f)
  PROVE  \A n \in Nat : \E g : \A s \in SUBSET DOMAIN f : Cardinality(s) <= n => Adds(f, g, s)
<1> DEFINE Upto(n) == \E g : \A s \in SUBSET DOMAIN f : Cardinality(s) <= n => Adds(f, g, s)
<1> DEFINE Bad == {n \in Nat : ~Upto(n)}
<1> SUFFICES ASSUME Bad # {} PROVE FALSE
  OBVIOUS
<1> HIDE DEF Bad
<1>0. Bad \subseteq Nat
  BY DEF Bad
<1>1. PICK n \in Bad : \A m \in Bad : n <= m
  BY <1>0, Least
<1>2. n \in Nat /\ ~Upto(n)
  BY DEF Bad
<1>3. n # 0
  <2>1. ASSUME NEW s \in SUBSET DOMAIN f, Cardinality(s) <= 0 PROVE s = {}
    <3>1. Cardinality(s) \in Nat /\ (s # {} => Cardinality(s) > 0)
      BY SubsetSize
    <3> QED
      BY <2>1, <3>1
  <2>2. Upto(0)
    <3> DEFINE g == [s \in SUBSET DOMAIN f |-> 0]
    <3>1. \A s \in SUBSET DOMAIN f : Cardinality(s) <= 0 => Adds(f, g, s)
      BY <2>1 DEF Adds
    <3> QED
      BY <3>1
  <2> QED
    BY <2>2, <1>2
<1>4. n - 1 \in Nat /\ n - 1 \notin Bad
  BY <1>1, <1>2, <1>3
<1>5. PICK g : \A s \in SUBSET DOMAIN f : Cardinality(s) <= n - 1 => Adds(f, g, s)
  BY <1>4 DEF Bad
<1> DEFINE h == [s \in SUBSET DOMAIN f |-> IF s = {} THEN 0 ELSE f[Some(s)] + g[s \ {Some(s)}]]
<1>6. ASSUME NEW s \in SUBSET DOMAIN f, Cardinality(s) <= n PROVE Adds(f, h, s)
  <2>1. CASE s = {}
    BY <2>1 DEF Adds
  <2>2. CASE s # {}
    <3> DEFINE t == s \ {Some(s)}
    <3>1. t \in SUBSET DOMAIN f /\ Cardinality(t) <= n - 1
      BY <2>2, <1>6, <1>2, SubsetSize
    <3>2. g[t] = h[t]
      BY <3>1, <1>5 DEF Adds
    <3> QED
      BY <2>2, <3>2 DEF Adds
  <2> QED
    BY <2>1, <2>2
<1>7. Upto(n)
  BY <1>6
<1> QED
  BY <1>7, <1>2

\* So the recursive definition has a solution, and its value is one.
LEMMA IterAdds ==
  ASSUME NEW f, IsFiniteSet(DOMAIN f)
  PROVE  \A s \in SUBSET DOMAIN f : Adds(f, Iter(f), s)
<1>1. PICK g : \A s \in SUBSET DOMAIN f : Cardinality(s) <= Cardinality(DOMAIN f) => Adds(f, g, s)
  BY Solvable, FS_CardinalityType
<1>2. \A s \in SUBSET DOMAIN f : Cardinality(s) <= Cardinality(DOMAIN f)
  BY FS_Subset
<1> DEFINE body(i) == [s \in SUBSET DOMAIN f |-> IF s = {} THEN 0 ELSE f[Some(s)] + i[s \ {Some(s)}]]
           h == [s \in SUBSET DOMAIN f |-> g[s]]
<1>3. h = body(h)
  BY <1>1, <1>2 DEF Adds
<1>4. Iter(f) = body(Iter(f))
  BY <1>3 DEF Iter
<1>5. ASSUME NEW s \in SUBSET DOMAIN f PROVE Iter(f)[s] = body(Iter(f))[s]
  BY <1>4
<1> QED
  BY <1>5 DEF Adds

\* A finite sum of naturals is a natural.
LEMMA SumIsNat ==
  ASSUME NEW f, IsFiniteSet(DOMAIN f), \A x \in DOMAIN f : f[x] \in Nat
  PROVE  SumFunction(f) \in Nat
<1> DEFINE I == Iter(f)
           Bad == {n \in Nat : \E s \in SUBSET DOMAIN f : Cardinality(s) = n /\ I[s] \notin Nat}
<1>1. \A s \in SUBSET DOMAIN f : Adds(f, I, s)
  BY IterAdds
<1> HIDE DEF I
<1>2. ASSUME NEW n \in Bad, \A m \in Bad : n <= m PROVE FALSE
  <2>1. PICK s \in SUBSET DOMAIN f : Cardinality(s) = n /\ I[s] \notin Nat
    OBVIOUS
  <2>2. s # {}
    BY <1>1, <2>1 DEF Adds
  <2> DEFINE t == s \ {Some(s)}
  <2>3. Some(s) \in DOMAIN f
    BY <2>2, SomeIn
  <2>4. t \in SUBSET DOMAIN f /\ Cardinality(t) = n - 1 /\ n > 0 /\ n \in Nat
    BY <2>1, <2>2, SubsetSize
  <2>5. I[t] \in Nat
    BY <2>4, <1>2
  <2>6. I[s] = f[Some(s)] + I[t]
    BY <1>1, <2>2 DEF Adds
  <2> QED
    BY <2>1, <2>3, <2>5, <2>6
<1>3. Bad = {}
  <2> HIDE DEF Bad
  <2>1. Bad \subseteq Nat
    BY DEF Bad
  <2> QED
    BY <2>1, <1>2, Least
<1>4. I[DOMAIN f] \in Nat
  BY <1>3, FS_CardinalityType
<1> QED
  BY <1>4, SumIter DEF I

-----------------------------------------------------------------------------
(* From orders to bills                                                    *)

\* Whatever overlaps, and with what only holds while calm.
IInv == BillingInv /\ ServedInv

\* What a bill asks for is a natural number, and depends on its orders' amounts only.
LEMMA SubtotalTyped ==
  ASSUME NEW rows \in [Orders -> Order], NEW S \in SUBSET Orders
  PROVE  Subtotal(rows, S) \in Nat
<1> DEFINE f == [o \in S |-> rows[o].amount]
<1>1. IsFiniteSet(DOMAIN f)
  BY OrdersAssumption, FS_Subset
<1>2. \A o \in S : rows[o].amount \in Amounts \cup {0}
  BY DEF Order
<1>3. Amounts \cup {0} \subseteq Nat
  BY AmountsAssumption
<1>4. \A o \in DOMAIN f : f[o] \in Nat
  BY <1>2, <1>3
<1> QED
  BY <1>1, <1>4, SumIsNat DEF Subtotal

LEMMA SameSubtotal ==
  ASSUME NEW rows, NEW later, NEW S, \A o \in S : later[o].amount = rows[o].amount
  PROVE  Subtotal(later, S) = Subtotal(rows, S)
<1>1. [o \in S |-> later[o].amount] = [o \in S |-> rows[o].amount]
  OBVIOUS
<1> QED
  BY <1>1 DEF Subtotal

LEMMA Records ==
  /\ NoOrder \in Order /\ NoOrder.status = "NONE" /\ NoOrder.bill = None
  /\ NoBill \in Bill /\ NoBill.status = "NONE"
  /\ Idle \in Request /\ Idle.at = "idle" /\ Idle.items = {}
<1>1. NoOrder \in Order /\ NoOrder.status = "NONE" /\ NoOrder.bill = None
  BY DEF NoOrder, Order
<1>2. NoBill \in Bill /\ NoBill.status = "NONE"
  BY DEF NoBill, Bill
<1>3. Idle \in Request /\ Idle.at = "idle" /\ Idle.items = {}
  BY DEF Idle, Request
<1> QED
  BY <1>1, <1>2, <1>3

\* Nothing is there at first.
LEMMA InitBilling == Init => IInv
<1> SUFFICES ASSUME Init PROVE IInv
  OBVIOUS
<1>1. TypeOK
  BY Records DEF Init, TypeOK, TableStatus
<1>2. DraftsApart /\ Alone /\ ReadStillHolds /\ BilledStays
  BY Records DEF Init, DraftsApart, Alone, ReadStillHolds, BilledStays, Placed
<1>3. SubtotalIsOrders
  BY Records DEF Init, SubtotalIsOrders
<1>4. ServedInv
  BY Records DEF Init, ServedInv, BilledWasServed
<1> QED
  BY <1>1, <1>2, <1>3, <1>4 DEF IInv, BillingInv

\* A step that moves one slot and changes neither orders nor bills, if what the slot
\* comes to hold is right.
SlotMoves(r, h) ==
    /\ req' = [req EXCEPT ![r] = h] /\ UNCHANGED <<order, bill, served>>
    /\ h \in Request
    /\ h.at = "bill" => \A o \in h.items : Placed(o) /\ o \in served
    /\ h.at # "bill" => \A o \in h.items : /\ ~Placed(o) /\ snap'[o] # "NONE"
                                           /\ \A q \in Reqs : o \in req[q].items => q = r
    /\ calm' \in BOOLEAN /\ (calm' => calm)
    /\ calm' /\ h.at # "idle" => \A q \in Reqs : req[q].at # "idle" => q = r
    /\ calm' /\ h.at = "bill" => /\ h.subtotal = Subtotal(order, h.items)
                                 /\ \A o \in h.items : Billable(o, h.table)

LEMMA SlotStep ==
  ASSUME IInv, NEW r \in Reqs, NEW h, SlotMoves(r, h),
         table' \in [Tables -> TableStatus],
         snap' \in [Orders -> {"NONE", "ACTIVE", "INACTIVE"}],
         \A o \in Orders : snap[o] # "NONE" => snap'[o] # "NONE"
  PROVE  IInv'
<1>0. TypeOK /\ DraftsApart /\ Alone /\ ReadStillHolds /\ BilledStays
      /\ SubtotalIsOrders /\ ServedInv
  BY DEF IInv, BillingInv
<1>1. TypeOK'
  BY <1>0 DEF TypeOK, SlotMoves
<1>2. \A q \in Reqs : req'[q] = IF q = r THEN h ELSE req[q]
  BY <1>0 DEF SlotMoves, TypeOK
<1>3. h.items \subseteq Orders /\ \A q \in Reqs : req[q].items \subseteq Orders
  BY <1>0 DEF SlotMoves, TypeOK, Request
<1>4. DraftsApart'
  <2>1. \A o \in Orders : ~Placed(o)' => order'[o] = NoOrder
    BY <1>0 DEF DraftsApart, Placed, SlotMoves
  <2>2. ASSUME NEW q \in Reqs, req'[q].at = "bill", NEW o \in req'[q].items PROVE Placed(o)'
    BY <1>0, <1>2, <2>2 DEF DraftsApart, Placed, SlotMoves
  <2>3. ASSUME NEW q \in Reqs, req'[q].at # "bill", NEW o \in req'[q].items
        PROVE  ~Placed(o)' /\ snap'[o] # "NONE"
    BY <1>0, <1>2, <1>3, <2>3 DEF DraftsApart, Placed, SlotMoves
  <2>4. ASSUME NEW q \in Reqs, req'[q].at # "bill", NEW o \in req'[q].items,
               NEW p \in Reqs, o \in req'[p].items
        PROVE  p = q
    BY <1>0, <1>2, <1>3, <2>4 DEF DraftsApart, Placed, SlotMoves
  <2> QED
    BY <2>1, <2>2, <2>3, <2>4 DEF DraftsApart
<1>5. Alone'
  BY <1>0, <1>2 DEF Alone, SlotMoves
<1>6. ReadStillHolds'
  BY <1>0, <1>2 DEF ReadStillHolds, Billable, Live, Placed, SlotMoves
<1>7. BilledStays' /\ SubtotalIsOrders'
  BY <1>0 DEF BilledStays, SubtotalIsOrders, OnBill, SlotMoves
<1>8. ServedInv'
  BY <1>0, <1>2 DEF ServedInv, BilledWasServed, SlotMoves
<1> QED
  BY <1>1, <1>4, <1>5, <1>6, <1>7, <1>8 DEF IInv, BillingInv

\* OrderService.create up to its last call, and a request given up.
LEMMA PlacingStep ==
  ASSUME IInv, NEW r \in Reqs,
         \/ \E t \in Tables : ReadTable(r, t)
         \/ OccupyTable(r) \/ TakeSnapshot(r) \/ Abandon(r)
  PROVE  IInv'
<1>0. /\ TypeOK /\ DraftsApart /\ Alone /\ req[r] \in Request
      /\ req[r] = [at |-> req[r].at, table |-> req[r].table, items |-> req[r].items,
                   subtotal |-> req[r].subtotal]
  BY DEF IInv, BillingInv, TypeOK, Request
<1>1. ASSUME NEW t \in Tables, ReadTable(r, t) PROVE IInv'
  <2>1. PICK x \in {"items", "occupy"} :
           req' = [req EXCEPT ![r] = [at |-> x, table |-> t, items |-> {}, subtotal |-> 0]]
    BY <1>1 DEF ReadTable
  <2> DEFINE h == [at |-> x, table |-> t, items |-> {}, subtotal |-> 0]
  <2>2. h \in Request
    BY DEF Request
  <2>3. SlotMoves(r, h)
    BY <1>0, <1>1, <2>1, <2>2 DEF SlotMoves, ReadTable, Begin, TypeOK
  <2> QED
    BY <1>0, <1>1, <2>3, SlotStep DEF ReadTable, TypeOK
<1>2. ASSUME OccupyTable(r) PROVE IInv'
  <2> DEFINE h == [req[r] EXCEPT !.at = "items"]
  <2>1. /\ h \in Request /\ h.at = "items" /\ h.items = req[r].items
        /\ h.items \subseteq Orders
    BY <1>0 DEF Request
  <2> HIDE DEF h
  <2>2. req' = [req EXCEPT ![r] = h]
    BY <1>2 DEF OccupyTable, h
  <2>3. \A o \in h.items : /\ ~Placed(o) /\ snap'[o] # "NONE"
                           /\ \A q \in Reqs : o \in req[q].items => q = r
    BY <1>0, <1>2, <2>1 DEF OccupyTable, DraftsApart
  <2>4. calm => \A q \in Reqs : req[q].at # "idle" => q = r
    BY <1>0, <1>2 DEF OccupyTable, Alone
  <2>5. SlotMoves(r, h)
    BY <1>0, <1>2, <2>1, <2>2, <2>3, <2>4 DEF SlotMoves, OccupyTable, TypeOK
  <2>6. table' \in [Tables -> TableStatus]
    BY <1>0, <1>2 DEF OccupyTable, TypeOK, TableStatus
  <2> QED
    BY <1>0, <1>2, <2>5, <2>6, SlotStep DEF OccupyTable, TypeOK
<1>3. ASSUME TakeSnapshot(r) PROVE IInv'
  <2>1. PICK o \in Fresh, s \in {"ACTIVE", "INACTIVE"} :
           snap' = [snap EXCEPT ![o] = s] /\ req' = [req EXCEPT ![r].items = @ \cup {o}]
    BY <1>3 DEF TakeSnapshot
  <2>2. o \in Orders /\ ~Placed(o) /\ snap[o] = "NONE"
    BY DEF Fresh
  <2> DEFINE h == [req[r] EXCEPT !.items = @ \cup {o}]
  <2>3. /\ h \in Request /\ h.at = "items" /\ h.items = req[r].items \cup {o}
        /\ req[r].items \subseteq Orders
    BY <1>0, <1>3, <2>2 DEF Request, TakeSnapshot
  <2> HIDE DEF h
  <2>4. req' = [req EXCEPT ![r] = h] /\ UNCHANGED <<order, bill, served, table, calm>>
    BY <1>3, <2>1 DEF TakeSnapshot, h
  <2>5. /\ snap' \in [Orders -> {"NONE", "ACTIVE", "INACTIVE"}]
        /\ \A p \in Orders : snap[p] # "NONE" => snap'[p] # "NONE"
        /\ snap'[o] # "NONE"
    BY <1>0, <2>1, <2>2 DEF TypeOK
  <2>6. \A q \in Reqs : o \notin req[q].items
    <3> SUFFICES ASSUME NEW q \in Reqs, o \in req[q].items PROVE FALSE
      OBVIOUS
    <3> QED
      BY <1>0, <2>2 DEF DraftsApart, TypeOK, Request
  <2>7. \A p \in req[r].items : /\ ~Placed(p) /\ snap[p] # "NONE"
                                /\ \A q \in Reqs : p \in req[q].items => q = r
    BY <1>0, <1>3 DEF TakeSnapshot, DraftsApart
  <2>8. \A p \in h.items : /\ ~Placed(p) /\ snap'[p] # "NONE"
                           /\ \A q \in Reqs : p \in req[q].items => q = r
    BY <2>2, <2>3, <2>5, <2>6, <2>7 DEF Placed
  <2>9. calm => \A q \in Reqs : req[q].at # "idle" => q = r
    BY <1>0, <1>3 DEF TakeSnapshot, Alone
  <2>10. SlotMoves(r, h)
    BY <1>0, <2>3, <2>4, <2>8, <2>9 DEF SlotMoves, TypeOK
  <2> QED
    BY <1>0, <2>4, <2>5, <2>10, SlotStep DEF TypeOK
<1>4. ASSUME Abandon(r) PROVE IInv'
  <2>1. SlotMoves(r, Idle)
    BY <1>0, <1>4, Records DEF SlotMoves, Abandon, TypeOK
  <2> QED
    BY <1>0, <1>4, <2>1, SlotStep DEF Abandon, TypeOK
<1> QED
  BY <1>1, <1>2, <1>3, <1>4

\* createBill reads DELIVERED orders only, and every one of those has been served.
LEMMA ReadDeliveredStep ==
  ASSUME IInv, NEW r \in Reqs, NEW t \in Tables, NEW S \in SUBSET Orders,
         ReadDelivered(r, t, S)
  PROVE  IInv'
<1>0. TypeOK /\ ServedInv
  BY DEF IInv, BillingInv
<1> DEFINE h == [at |-> "bill", table |-> t, items |-> S, subtotal |-> Subtotal(order, S)]
<1>1. h \in Request
  BY <1>0, SubtotalTyped DEF Request, TypeOK
<1>2. \A o \in S : Billable(o, t) /\ Placed(o) /\ o \in served
  BY <1>0 DEF ReadDelivered, Billable, Live, ServedInv
<1>3. req' = [req EXCEPT ![r] = h] /\ UNCHANGED <<order, snap, table, bill, served>> /\ Begin
  BY DEF ReadDelivered
<1>4. SlotMoves(r, h)
  BY <1>0, <1>1, <1>2, <1>3 DEF SlotMoves, Begin, TypeOK
<1> QED
  BY <1>0, <1>3, <1>4, SlotStep DEF TypeOK

\* When a request ends its slot is free, and nothing is said of any other.
LEMMA SlotsStay ==
  ASSUME IInv, NEW r \in Reqs, req' = [req EXCEPT ![r] = Idle], calm' = calm
  PROVE  Alone' /\ \A q \in Reqs : req'[q] = IF q = r THEN Idle ELSE req[q]
  BY Records DEF IInv, BillingInv, TypeOK, Alone

\* The orders of the slot's snapshots are new: no slot and no bill has them.
LEMMA CreateManyStep ==
  ASSUME IInv, NEW r \in Reqs, CreateMany(r)
  PROVE  IInv' /\ \A o \in Orders : order'[o].bill = order[o].bill
<1>0. TypeOK /\ DraftsApart /\ ReadStillHolds /\ BilledStays /\ SubtotalIsOrders /\ ServedInv
  BY DEF IInv, BillingInv
<1> DEFINE S == req[r].items
           new(o, m) == [status |-> InitialStatus(o), table |-> req[r].table,
                         bill |-> None, amount |-> m, deleted |-> FALSE]
<1>1. PICK amount \in [S -> Amounts] :
        order' = [o \in Orders |->
            IF o \in S
            THEN [NoOrder EXCEPT !.status = InitialStatus(o), !.table = req[r].table,
                                 !.amount = amount[o]]
            ELSE order[o]]
  BY DEF CreateMany
<1>2. \A o \in Orders : o \in S => order'[o] = new(o, amount[o])
  BY <1>1 DEF NoOrder
<1>3. \A o \in Orders : o \notin S => order'[o] = order[o]
  BY <1>1
<1>4. req[r].table \in Tables \cup {None} /\ S \subseteq Orders
  BY <1>0 DEF TypeOK, Request
<1>5. \A o \in Orders : InitialStatus(o) \in {"PENDING", "CANCELLED"}
  BY DEF InitialStatus
<1>6. \A o \in Orders : o \in S =>
         /\ order'[o] \in Order
         /\ order'[o].status \in {"PENDING", "CANCELLED"} /\ order'[o].bill = None
  BY <1>1, <1>2, <1>4, <1>5, ZenonT(30) DEF Order, OrderStatus
<1>7. \A o \in S : ~Placed(o) /\ order[o].bill = None
  BY <1>0, <1>4, Records DEF DraftsApart, CreateMany
<1>8. /\ req' = [req EXCEPT ![r] = Idle]
      /\ UNCHANGED <<snap, table, bill, served, calm>>
  BY DEF CreateMany
<1>9. Alone' /\ \A q \in Reqs : req'[q] = IF q = r THEN Idle ELSE req[q]
  BY <1>8, SlotsStay
<1>10. TypeOK'
  <2>1. order' \in [Orders -> Order]
    BY <1>0, <1>1, <1>3, <1>6 DEF TypeOK
  <2>2. req' \in [Reqs -> Request]
    BY <1>0, <1>8, Records DEF TypeOK
  <2> QED
    BY <1>0, <1>8, <2>1, <2>2 DEF TypeOK
<1>11. DraftsApart'
  <2>1. \A o \in Orders : order'[o].status = "NONE" => order'[o] = NoOrder /\ o \notin S
    BY <1>0, <1>3, <1>6 DEF DraftsApart, Placed
  <2>2. \A o \in Orders : order[o].status # "NONE" => order'[o].status # "NONE"
    BY <1>3, <1>6
  <2>3. \A q \in Reqs : req'[q].items \subseteq Orders
    BY <1>10 DEF TypeOK, Request
  <2>4. ASSUME NEW q \in Reqs, req'[q].at = "bill", NEW o \in req'[q].items
        PROVE  order'[o].status # "NONE"
    BY <1>0, <1>9, <2>2, <2>3, <2>4, Records DEF DraftsApart, Placed
  <2>5. ASSUME NEW q \in Reqs, req'[q].at # "bill", NEW o \in req'[q].items
        PROVE  /\ order'[o].status = "NONE" /\ snap'[o] # "NONE"
               /\ \A p \in Reqs : o \in req'[p].items => p = q
    <3>1. q # r /\ req'[q] = req[q] /\ o \in Orders
      BY <1>9, <2>3, <2>5, Records
    <3>2. o \notin S
      BY <1>0, <2>5, <3>1 DEF DraftsApart
    <3>3. \A p \in Reqs : o \in req'[p].items => o \in req[p].items
      BY <1>9, Records
    <3> QED
      BY <1>0, <1>3, <1>8, <2>5, <3>1, <3>2, <3>3 DEF DraftsApart, Placed
  <2> QED
    BY <2>1, <2>4, <2>5 DEF DraftsApart, Placed
<1>12. ReadStillHolds'
  <2> SUFFICES ASSUME calm, NEW q \in Reqs, req'[q].at = "bill"
               PROVE  /\ req'[q].subtotal = Subtotal(order', req'[q].items)
                      /\ \A o \in req'[q].items :
                            /\ Live(o)' /\ order'[o].table = req'[q].table
                            /\ order'[o].status = "DELIVERED" /\ order'[o].bill = None
    BY <1>8 DEF ReadStillHolds, Billable
  <2>1. req'[q] = req[q]
    BY <1>9, Records
  <2>2. \A o \in req[q].items : o \in Orders /\ o \notin S
    BY <1>0, <1>7, <2>1 DEF DraftsApart, TypeOK, Request
  <2>3. \A o \in req[q].items : order'[o] = order[o]
    BY <1>3, <2>2
  <2>4. Subtotal(order', req[q].items) = Subtotal(order, req[q].items)
    BY <2>3, SameSubtotal
  <2> QED
    BY <1>0, <2>1, <2>3, <2>4 DEF ReadStillHolds, Billable, Live, Placed
<1>13. BilledStays'
  BY <1>0, <1>3, <1>6, <1>8 DEF BilledStays
<1>14. SubtotalIsOrders'
  <2> SUFFICES ASSUME calm, NEW b \in Bills, bill[b].status # "NONE"
               PROVE  /\ bill[b].subtotal = Subtotal(order', OnBill(b)')
                      /\ \A o \in OnBill(b)' : ~order'[o].deleted
    BY <1>8 DEF SubtotalIsOrders
  <2>1. \A o \in Orders : order'[o].bill = b <=> order[o].bill = b
    BY <1>3, <1>6, <1>7, NoneAssumption
  <2>2. OnBill(b)' = OnBill(b)
    BY <2>1 DEF OnBill
  <2>3. \A o \in OnBill(b) : order'[o] = order[o]
    BY <1>3, <1>7, NoneAssumption DEF OnBill
  <2>4. Subtotal(order', OnBill(b)) = Subtotal(order, OnBill(b))
    BY <2>3, SameSubtotal
  <2> QED
    BY <1>0, <2>2, <2>3, <2>4 DEF SubtotalIsOrders
<1>15. ServedInv'
  BY <1>0, <1>3, <1>6, <1>8, <1>9, Records DEF ServedInv, BilledWasServed
<1>16. \A o \in Orders : order'[o].bill = order[o].bill
  BY <1>3, <1>6, <1>7
<1> QED
  BY <1>9, <1>10, <1>11, <1>12, <1>13, <1>14, <1>15, <1>16 DEF IInv, BillingInv

\* Staff edits one order: its bill stays, and calm ends if it had been served.
RowChanges(o, n) ==
    /\ Live(o) /\ n \in Order /\ n.status # "NONE" /\ n.bill = order[o].bill
    /\ order' = [order EXCEPT ![o] = n]
    /\ calm' = (calm /\ order[o].status \notin {"DELIVERED", "COMPLETED"})
    /\ served' \subseteq Orders /\ served \subseteq served'
    /\ n.status = "DELIVERED" => order[o].status = "DELIVERED" \/ o \in served'
    /\ UNCHANGED <<snap, table, bill, req>>

LEMMA RowStep ==
  ASSUME IInv, NEW o \in Orders, NEW n, RowChanges(o, n)
  PROVE  IInv' /\ \A p \in Orders : order'[p].bill = order[p].bill
<1>0. /\ TypeOK /\ DraftsApart /\ Alone /\ ReadStillHolds /\ BilledStays
      /\ SubtotalIsOrders /\ ServedInv
  BY DEF IInv, BillingInv
<1>1. TypeOK'
  BY <1>0 DEF TypeOK, RowChanges
<1>2. \A p \in Orders : order'[p] = IF p = o THEN n ELSE order[p]
  BY <1>0 DEF TypeOK, RowChanges
<1>3. /\ order[o].status # "NONE" /\ n.status # "NONE" /\ n.bill = order[o].bill
      /\ calm' => calm /\ order[o].status \notin {"DELIVERED", "COMPLETED"}
      /\ UNCHANGED <<snap, table, bill, req>>
      /\ \A q \in Reqs : req[q].items \subseteq Orders
  BY <1>0 DEF TypeOK, Request, RowChanges, Live, Placed
<1>4. DraftsApart'
  BY <1>0, <1>2, <1>3 DEF DraftsApart, Placed
<1>5. Alone'
  BY <1>0, <1>3 DEF Alone
<1>6. calm' => order[o].bill = None /\ \A q \in Reqs : req[q].at = "bill" => o \notin req[q].items
  BY <1>0, <1>3 DEF BilledStays, ReadStillHolds, Billable
<1>7. ReadStillHolds'
  <2> SUFFICES ASSUME calm', NEW q \in Reqs, req[q].at = "bill"
               PROVE  /\ req[q].subtotal = Subtotal(order', req[q].items)
                      /\ \A p \in req[q].items :
                            /\ Live(p)' /\ order'[p].table = req[q].table
                            /\ order'[p].status = "DELIVERED" /\ order'[p].bill = None
    BY <1>3 DEF ReadStillHolds, Billable
  <2>1. \A p \in req[q].items : order'[p] = order[p]
    BY <1>2, <1>3, <1>6
  <2>2. Subtotal(order', req[q].items) = Subtotal(order, req[q].items)
    BY <2>1, SameSubtotal
  <2> QED
    BY <1>0, <1>3, <2>1, <2>2 DEF ReadStillHolds, Billable, Live, Placed
<1>8. BilledStays'
  BY <1>0, <1>2, <1>3, <1>6 DEF BilledStays
<1>9. SubtotalIsOrders'
  <2> SUFFICES ASSUME calm', NEW b \in Bills, bill[b].status # "NONE"
               PROVE  /\ bill[b].subtotal = Subtotal(order', OnBill(b)')
                      /\ \A p \in OnBill(b)' : ~order'[p].deleted
    BY <1>3 DEF SubtotalIsOrders
  <2>1. OnBill(b)' = OnBill(b)
    BY <1>2, <1>3 DEF OnBill
  <2>2. \A p \in OnBill(b) : order'[p] = order[p]
    BY <1>2, <1>6, NoneAssumption DEF OnBill
  <2>3. Subtotal(order', OnBill(b)) = Subtotal(order, OnBill(b))
    BY <2>2, SameSubtotal
  <2> QED
    BY <1>0, <1>3, <2>1, <2>2, <2>3 DEF SubtotalIsOrders
<1>10. ServedInv'
  BY <1>0, <1>2, <1>3 DEF ServedInv, BilledWasServed, RowChanges
<1>11. \A p \in Orders : order'[p].bill = order[p].bill
  BY <1>2, <1>3
<1> QED
  BY <1>1, <1>4, <1>5, <1>7, <1>8, <1>9, <1>10, <1>11 DEF IInv, BillingInv

\* OrderService.update, updateStatus and delete each change one row.
LEMMA EditStep ==
  ASSUME IInv, NEW o \in Orders,
         \/ \E t \in Tables, m \in Amounts, s \in OrderStatus : Update(o, t, m, s)
         \/ \E s \in OrderStatus : UpdateStatus(o, s)
         \/ Delete(o)
  PROVE  IInv' /\ \A p \in Orders : order'[p].bill = order[p].bill
<1>0. TypeOK /\ order[o] \in Order
  BY DEF IInv, BillingInv, TypeOK
<1>1. ASSUME NEW t \in Tables, NEW m \in Amounts, NEW s \in OrderStatus, Update(o, t, m, s)
      PROVE  \E n : RowChanges(o, n)
  <2> DEFINE n == [status |-> s, table |-> t, bill |-> order[o].bill, amount |-> m,
                   deleted |-> FALSE]
  <2>1. n \in Order /\ n.status = s /\ s # "NONE" /\ n.bill = order[o].bill
    BY <1>0 DEF Order, OrderStatus
  <2>2. order' = [order EXCEPT ![o] = n]
    BY <1>1 DEF Update
  <2> HIDE DEF n
  <2>3. RowChanges(o, n)
    BY <1>0, <1>1, <2>1, <2>2 DEF RowChanges, Update, Editable, Serve, TypeOK
  <2> QED
    BY <2>3
<1>2. ASSUME NEW s \in OrderStatus, UpdateStatus(o, s)
      PROVE  \E n : RowChanges(o, n)
  <2> DEFINE n == [order[o] EXCEPT !.status = s]
  <2>1. n \in Order /\ n.status = s /\ s # "NONE" /\ n.bill = order[o].bill
    BY <1>0 DEF Order, OrderStatus
  <2>2. order' = [order EXCEPT ![o] = n]
    BY <1>2 DEF UpdateStatus
  <2> HIDE DEF n
  <2>3. RowChanges(o, n)
    BY <1>0, <1>2, <2>1, <2>2 DEF RowChanges, UpdateStatus, Editable, Serve, TypeOK
  <2> QED
    BY <2>3
<1>3. ASSUME Delete(o)
      PROVE  \E n : RowChanges(o, n)
  <2> DEFINE n == [order[o] EXCEPT !.deleted = TRUE]
  <2>1. n \in Order /\ n.status = order[o].status /\ n.bill = order[o].bill
    BY <1>0 DEF Order
  <2>2. order' = [order EXCEPT ![o] = n]
    BY <1>3 DEF Delete
  <2> HIDE DEF n
  <2>3. RowChanges(o, n)
    BY <1>0, <1>3, <2>1, <2>2 DEF RowChanges, Delete, Editable, Live, Placed, TypeOK
  <2> QED
    BY <2>3
<1> QED
  BY <1>1, <1>2, <1>3, RowStep

\* createBillWithOrders points the orders it read at a bill that was not there; while
\* calm they are as they were read.
LEMMA CreateBillStep ==
  ASSUME IInv, NEW r \in Reqs, CreateBillWithOrders(r)
  PROVE  /\ IInv'
         /\ calm => \A o \in Orders : order[o].bill # order'[o].bill =>
                       /\ order[o].status = "DELIVERED" /\ ~order[o].deleted
                       /\ order[o].bill = None
<1>0. /\ TypeOK /\ DraftsApart /\ Alone /\ ReadStillHolds /\ BilledStays
      /\ SubtotalIsOrders /\ ServedInv
  BY DEF IInv, BillingInv
<1> DEFINE S == req[r].items
<1>1. PICK b \in Bills :
        /\ bill[b].status = "NONE"
        /\ bill' = [bill EXCEPT ![b] = [status |-> "PENDING", table |-> req[r].table,
                                        subtotal |-> req[r].subtotal]]
        /\ order' = [o \in Orders |-> IF o \in S THEN [order[o] EXCEPT !.bill = b] ELSE order[o]]
  BY DEF CreateBillWithOrders
<1>2. /\ req[r].at = "bill" /\ req' = [req EXCEPT ![r] = Idle]
      /\ UNCHANGED <<snap, table, served, calm>>
  BY DEF CreateBillWithOrders
<1>3. req[r] \in Request /\ S \subseteq Orders
  BY <1>0 DEF TypeOK, Request
<1> DEFINE made == [status |-> "PENDING", table |-> req[r].table, subtotal |-> req[r].subtotal]
<1>4. /\ made \in Bill /\ made.status = "PENDING" /\ made.subtotal = req[r].subtotal
  BY <1>3 DEF Request, Bill
<1>5. \A c \in Bills : bill'[c] = IF c = b THEN made ELSE bill[c]
  BY <1>0, <1>1 DEF TypeOK
<1>6. \A o \in Orders : /\ order'[o] \in Order
                        /\ order'[o].status = order[o].status
                        /\ order'[o].deleted = order[o].deleted
                        /\ order'[o].amount = order[o].amount
                        /\ order'[o].table = order[o].table
                        /\ order'[o].bill = IF o \in S THEN b ELSE order[o].bill
                        /\ o \notin S => order'[o] = order[o]
  BY <1>0, <1>1 DEF TypeOK, Order
<1> HIDE DEF made
<1>7. Alone' /\ \A q \in Reqs : req'[q] = IF q = r THEN Idle ELSE req[q]
  BY <1>2, SlotsStay
<1>8. calm => \A o \in S : /\ order[o].status = "DELIVERED" /\ ~order[o].deleted
                           /\ order[o].bill = None
  BY <1>0, <1>2 DEF ReadStillHolds, Billable, Live
<1>9. calm => \A q \in Reqs : req'[q].at = "idle"
  BY <1>0, <1>2, <1>7, Records DEF Alone
<1>10. TypeOK'
  <2>1. order' \in [Orders -> Order]
    BY <1>1, <1>6
  <2>2. bill' \in [Bills -> Bill]
    BY <1>0, <1>1, <1>4 DEF TypeOK, made
  <2>3. req' \in [Reqs -> Request]
    BY <1>0, <1>2, Records DEF TypeOK
  <2> QED
    BY <1>0, <1>2, <2>1, <2>2, <2>3 DEF TypeOK
<1>11. DraftsApart'
  <2>1. \A o \in Orders : order'[o].status = "NONE" => order'[o] = NoOrder
    <3> SUFFICES ASSUME NEW o \in Orders, order'[o].status = "NONE" PROVE order'[o] = NoOrder
      OBVIOUS
    <3>1. o \notin S
      BY <1>0, <1>2, <1>6 DEF DraftsApart, Placed
    <3> QED
      BY <1>0, <1>6, <3>1 DEF DraftsApart, Placed
  <2>2. \A q \in Reqs : req[q].items \subseteq Orders
    BY <1>0 DEF TypeOK, Request
  <2>3. ASSUME NEW q \in Reqs, req'[q].at = "bill", NEW o \in req'[q].items
        PROVE  order'[o].status # "NONE"
    BY <1>0, <1>6, <1>7, <2>2, <2>3, Records DEF DraftsApart, Placed
  <2>4. ASSUME NEW q \in Reqs, req'[q].at # "bill", NEW o \in req'[q].items
        PROVE  /\ order'[o].status = "NONE" /\ snap'[o] # "NONE"
               /\ \A p \in Reqs : o \in req'[p].items => p = q
    <3>1. req'[q] = req[q] /\ o \in Orders
      BY <1>7, <2>2, <2>4, Records
    <3>2. \A p \in Reqs : o \in req'[p].items => o \in req[p].items
      BY <1>7, Records
    <3> QED
      BY <1>0, <1>2, <1>6, <2>4, <3>1, <3>2 DEF DraftsApart, Placed
  <2> QED
    BY <2>1, <2>3, <2>4 DEF DraftsApart, Placed
<1>12. ReadStillHolds'
  BY <1>2, <1>9 DEF ReadStillHolds
<1>13. BilledStays'
  <2> SUFFICES ASSUME calm, NEW o \in Orders, order'[o].bill # None
               PROVE  /\ order'[o].status \in {"DELIVERED", "COMPLETED"} /\ ~order'[o].deleted
                      /\ bill'[order'[o].bill].status # "NONE"
    BY <1>2 DEF BilledStays
  <2>1. CASE o \in S
    BY <1>4, <1>5, <1>6, <1>8, <2>1
  <2>2. CASE o \notin S
    <3>1. order[o].bill \in Bills
      BY <1>0, <1>6, <2>2 DEF TypeOK, Order
    <3> QED
      BY <1>0, <1>1, <1>5, <1>6, <2>2, <3>1 DEF BilledStays
  <2> QED
    BY <2>1, <2>2
<1>14. SubtotalIsOrders'
  <2> SUFFICES ASSUME calm, NEW c \in Bills, bill'[c].status # "NONE"
               PROVE  /\ bill'[c].subtotal = Subtotal(order', OnBill(c)')
                      /\ \A o \in OnBill(c)' : ~order'[o].deleted
    BY <1>2 DEF SubtotalIsOrders
  <2>1. CASE c = b
    <3>1. \A o \in Orders : order[o].bill # b
      BY <1>0, <1>1, NoneAssumption DEF BilledStays
    <3>2. OnBill(b)' = S
      BY <1>3, <1>6, <3>1 DEF OnBill
    <3>3. Subtotal(order', S) = Subtotal(order, S)
      BY <1>3, <1>6, SameSubtotal
    <3>4. bill'[b].subtotal = Subtotal(order, S)
      BY <1>0, <1>2, <1>4, <1>5 DEF ReadStillHolds
    <3> QED
      BY <1>3, <1>6, <1>8, <2>1, <3>2, <3>3, <3>4
  <2>2. CASE c # b
    <3>1. \A o \in Orders : order'[o].bill = c <=> order[o].bill = c
      BY <1>6, <1>8, <2>2, NoneAssumption
    <3>2. OnBill(c)' = OnBill(c)
      BY <3>1 DEF OnBill
    <3>3. Subtotal(order', OnBill(c)) = Subtotal(order, OnBill(c))
      <4>1. \A o \in OnBill(c) : order'[o].amount = order[o].amount
        BY <1>6 DEF OnBill
      <4> QED
        BY <4>1, SameSubtotal
    <3>4. bill'[c] = bill[c]
      BY <1>5, <2>2
    <3>5. \A o \in OnBill(c) : order'[o].deleted = order[o].deleted
      BY <1>6 DEF OnBill
    <3> QED
      BY <1>0, <3>2, <3>3, <3>4, <3>5 DEF SubtotalIsOrders
  <2> QED
    BY <2>1, <2>2
<1>15. ServedInv'
  <2>1. S \subseteq served
    BY <1>0, <1>2 DEF ServedInv
  <2>2. \A q \in Reqs : req'[q].at = "bill" => req'[q].items \subseteq served
    BY <1>0, <1>7, Records DEF ServedInv
  <2>3. \A o \in Orders : order'[o].bill # None => o \in served
    BY <1>0, <1>6, <2>1 DEF ServedInv, BilledWasServed
  <2>4. \A o \in Orders : order'[o].status = "DELIVERED" => o \in served
    BY <1>0, <1>6 DEF ServedInv
  <2> QED
    BY <1>2, <2>2, <2>3, <2>4 DEF ServedInv, BilledWasServed
<1>16. calm => \A o \in Orders : order[o].bill # order'[o].bill =>
                       /\ order[o].status = "DELIVERED" /\ ~order[o].deleted
                       /\ order[o].bill = None
  BY <1>6, <1>8
<1> QED
  BY <1>7, <1>10, <1>11, <1>12, <1>13, <1>14, <1>15, <1>16 DEF IInv, BillingInv

\* A bill that is paid makes COMPLETED of its orders and touches nothing else of them.
LEMMA CompleteStep ==
  ASSUME IInv, NEW b \in Bills, CompleteBillPayment(b)
  PROVE  IInv' /\ \A o \in Orders : order'[o].bill = order[o].bill
<1>0. /\ TypeOK /\ DraftsApart /\ Alone /\ ReadStillHolds /\ BilledStays
      /\ SubtotalIsOrders /\ ServedInv
  BY DEF IInv, BillingInv
<1>1. /\ bill[b].status = "PENDING" /\ bill' = [bill EXCEPT ![b].status = "PAID"]
      /\ order' = [o \in Orders |-> IF order[o].bill = b
                           THEN [order[o] EXCEPT !.status = "COMPLETED"] ELSE order[o]]
      /\ table' = [table EXCEPT ![bill[b].table] = "CLEANING"]
      /\ UNCHANGED <<snap, req, served, calm>>
  BY DEF CompleteBillPayment
<1>2. \A o \in Orders : /\ order'[o] \in Order
                        /\ order'[o].bill = order[o].bill
                        /\ order'[o].deleted = order[o].deleted
                        /\ order'[o].amount = order[o].amount
                        /\ order'[o].table = order[o].table
                        /\ order'[o].status = IF order[o].bill = b THEN "COMPLETED"
                                              ELSE order[o].status
                        /\ order[o].bill # b => order'[o] = order[o]
  BY <1>0, <1>1 DEF TypeOK, Order, OrderStatus
<1>3. \A c \in Bills : /\ bill'[c] \in Bill /\ bill'[c].subtotal = bill[c].subtotal
                       /\ bill'[c].status = "NONE" <=> bill[c].status = "NONE"
  BY <1>0, <1>1 DEF TypeOK, Bill
<1>4. TypeOK'
  <2>1. order' \in [Orders -> Order] /\ bill' \in [Bills -> Bill]
    BY <1>0, <1>1, <1>2, <1>3 DEF TypeOK
  <2>2. table' \in [Tables -> TableStatus]
    BY <1>0, <1>1 DEF TypeOK, TableStatus
  <2> QED
    BY <1>0, <1>1, <2>1, <2>2 DEF TypeOK
<1>5. \A o \in Orders : order[o].status = "NONE" => order[o].bill # b
  BY <1>0, Records, NoneAssumption DEF DraftsApart, Placed
<1>6. \A q \in Reqs : req[q].items \subseteq Orders
  BY <1>0 DEF TypeOK, Request
<1>7. DraftsApart' /\ Alone'
  <2>1. \A o \in Orders : /\ order'[o].status = "NONE" <=> order[o].status = "NONE"
                          /\ order'[o].status = "NONE" => order'[o] = order[o]
    BY <1>2, <1>5
  <2> QED
    BY <1>0, <1>1, <1>6, <2>1 DEF DraftsApart, Alone, Placed
<1>8. ReadStillHolds'
  <2> SUFFICES ASSUME calm, NEW q \in Reqs, req[q].at = "bill"
               PROVE  /\ req[q].subtotal = Subtotal(order', req[q].items)
                      /\ \A p \in req[q].items :
                            /\ Live(p)' /\ order'[p].table = req[q].table
                            /\ order'[p].status = "DELIVERED" /\ order'[p].bill = None
    BY <1>1 DEF ReadStillHolds, Billable
  <2>1. \A p \in req[q].items : order'[p] = order[p]
    BY <1>0, <1>2, <1>6, NoneAssumption DEF ReadStillHolds, Billable
  <2>2. Subtotal(order', req[q].items) = Subtotal(order, req[q].items)
    BY <2>1, SameSubtotal
  <2> QED
    BY <1>0, <2>1, <2>2 DEF ReadStillHolds, Billable, Live, Placed
<1>9. BilledStays'
  <2> SUFFICES ASSUME calm, NEW o \in Orders, order[o].bill # None
               PROVE  /\ order'[o].status \in {"DELIVERED", "COMPLETED"} /\ ~order'[o].deleted
                      /\ bill'[order'[o].bill].status # "NONE"
    BY <1>1, <1>2 DEF BilledStays
  <2>1. order[o].bill \in Bills
    BY <1>0 DEF TypeOK, Order
  <2> QED
    BY <1>0, <1>2, <1>3, <2>1 DEF BilledStays
<1>10. SubtotalIsOrders'
  <2> SUFFICES ASSUME calm, NEW c \in Bills, bill'[c].status # "NONE"
               PROVE  /\ bill'[c].subtotal = Subtotal(order', OnBill(c)')
                      /\ \A o \in OnBill(c)' : ~order'[o].deleted
    BY <1>1 DEF SubtotalIsOrders
  <2>1. OnBill(c)' = OnBill(c)
    BY <1>2 DEF OnBill
  <2>2. \A o \in OnBill(c) : /\ order'[o].amount = order[o].amount
                             /\ order'[o].deleted = order[o].deleted
    BY <1>2 DEF OnBill
  <2>3. Subtotal(order', OnBill(c)) = Subtotal(order, OnBill(c))
    BY <2>2, SameSubtotal
  <2> QED
    BY <1>0, <1>3, <2>1, <2>2, <2>3 DEF SubtotalIsOrders
<1>11. ServedInv'
  BY <1>0, <1>1, <1>2 DEF ServedInv, BilledWasServed
<1> QED
  BY <1>2, <1>4, <1>7, <1>8, <1>9, <1>10, <1>11 DEF IInv, BillingInv

\* Setting a table, and doing nothing, leaves orders, bills and requests alone.
LEMMA OtherStep ==
  ASSUME IInv,
         (\E t \in Tables, s \in TableStatus : SetTable(t, s)) \/ UNCHANGED vars
  PROVE  IInv' /\ order' = order
<1>0. UNCHANGED <<order, snap, bill, req, served, calm>>
  BY DEF SetTable, vars
<1>1. TypeOK'
  BY <1>0 DEF IInv, BillingInv, TypeOK, SetTable, vars
<1>2. DraftsApart' /\ Alone' /\ ReadStillHolds'
  BY <1>0 DEF IInv, BillingInv, DraftsApart, Alone, ReadStillHolds, Billable, Live, Placed
<1>3. BilledStays' /\ SubtotalIsOrders' /\ ServedInv'
  BY <1>0 DEF IInv, BillingInv, BilledStays, SubtotalIsOrders, OnBill, ServedInv, BilledWasServed
<1> QED
  BY <1>0, <1>1, <1>2, <1>3 DEF IInv, BillingInv

\* Orders are put on bills as OnlyDeliveredBilled and BilledOnce say.
Linked == \A o \in Orders : order[o].bill # order'[o].bill =>
             /\ order[o].status = "DELIVERED" /\ ~order[o].deleted /\ order[o].bill = None

\* Every step of the system keeps the invariant.
LEMMA BillingStep ==
  ASSUME IInv, [Next]_vars
  PROVE  IInv' /\ (calm => Linked)
<1>1. ASSUME NEW r \in Reqs, Handle(r) PROVE IInv' /\ (calm => Linked)
  <2>1. CASE (\E t \in Tables : ReadTable(r, t)) \/ OccupyTable(r) \/ TakeSnapshot(r) \/ Abandon(r)
    <3>1. order' = order
      BY <2>1 DEF ReadTable, OccupyTable, TakeSnapshot, Abandon
    <3> QED
      BY <2>1, <3>1, PlacingStep DEF Linked
  <2>2. CASE \E t \in Tables, S \in SUBSET Orders : ReadDelivered(r, t, S)
    <3>1. order' = order
      BY <2>2 DEF ReadDelivered
    <3> QED
      BY <2>2, <3>1, ReadDeliveredStep DEF Linked
  <2>3. CASE CreateMany(r)
    BY <2>3, CreateManyStep DEF Linked
  <2>4. CASE CreateBillWithOrders(r)
    BY <2>4, CreateBillStep DEF Linked
  <2> QED
    BY <1>1, <2>1, <2>2, <2>3, <2>4 DEF Handle
<1>2. ASSUME NEW o \in Orders, NEW s \in OrderStatus,
             UpdateStatus(o, s) \/ \E t \in Tables, a \in Amounts : Update(o, t, a, s)
      PROVE  IInv' /\ (calm => Linked)
  BY <1>2, EditStep DEF Linked
<1>3. ASSUME NEW o \in Orders, Delete(o) PROVE IInv' /\ (calm => Linked)
  BY <1>3, EditStep DEF Linked
<1>4. ASSUME NEW b \in Bills, CompleteBillPayment(b) PROVE IInv' /\ (calm => Linked)
  BY <1>4, CompleteStep DEF Linked
<1>5. CASE (\E t \in Tables, s \in TableStatus : SetTable(t, s)) \/ UNCHANGED vars
  BY <1>5, OtherStep DEF Linked
<1> QED
  BY <1>1, <1>2, <1>3, <1>4, <1>5 DEF Next

-----------------------------------------------------------------------------
(* The theorems                                                            *)

\* Every variable keeps its type; a subtotal does, being a finite sum of line totals.
THEOREM TypeCorrect == Spec => []TypeOK
<1>1. IInv => TypeOK
  BY DEF IInv, BillingInv
<1> QED
  BY <1>1, InitBilling, BillingStep, PTL DEF Spec

\* What a bill lists has been served, at whatever time its orders were read and
\* whatever staff has made of them since.
THEOREM BilledHasBeenServed == Spec => [](ServedInv /\ BilledWasServed)
<1>1. IInv => ServedInv /\ BilledWasServed
  BY DEF IInv, ServedInv
<1> QED
  BY <1>1, InitBilling, BillingStep, PTL DEF Spec

\* As long as requests come one at a time and served orders are left alone, every bill
\* asks for exactly what the orders on it cost, and none of them is deleted.
THEOREM BillsAskForTheirOrders == Spec => []SubtotalIsOrders
<1>1. IInv => SubtotalIsOrders
  BY DEF IInv, BillingInv
<1> QED
  BY <1>1, InitBilling, BillingStep, PTL DEF Spec

\* For as long, an order gets onto a bill only as one that is DELIVERED and listed.
THEOREM DeliveredOrdersAreBilled == Spec => OnlyDeliveredBilled
<1>1. ASSUME IInv, [Next]_vars
      PROVE  [calm => \A o \in Orders : order[o].bill # order'[o].bill =>
                order[o].status = "DELIVERED" /\ ~order[o].deleted]_vars
  BY <1>1, BillingStep DEF Linked
<1> QED
  BY <1>1, InitBilling, BillingStep, PTL DEF Spec, OnlyDeliveredBilled

\* And it stays on that bill: no second one takes it over.
THEOREM OrdersAreBilledOnce == Spec => BilledOnce
<1>1. ASSUME IInv, [Next]_vars
      PROVE  [calm => \A o \in Orders :
                order[o].bill # None => order'[o].bill = order[o].bill]_vars
  BY <1>1, BillingStep DEF Linked
<1> QED
  BY <1>1, InitBilling, BillingStep, PTL DEF Spec, BilledOnce
=============================================================================
