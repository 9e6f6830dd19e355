------------------------- MODULE BillReports_proofs ------------------------
(***************************************************************************)
(* Proofs about the amounts of bills (BillTotals, BillReports), for        *)
(* amounts of any size and any number of bills.                            *)
(***************************************************************************)
EXTENDS BillReports, FiniteSetTheorems, WellFoundedInduction, TLAPS

\* What is known of a rounded quotient: it is within half of the exact one.
LEMMA Rounding ==
  ASSUME NEW x \in Int
  PROVE  /\ Twentieth(x) \in Int
         /\ 20 * Twentieth(x) <= x + 10 /\ x + 10 < 20 * Twentieth(x) + 20
         /\ Tenth(x) \in Int
         /\ 10 * Tenth(x) <= x + 5 /\ x + 5 < 10 * Tenth(x) + 10
  BY DEF Twentieth, Tenth

\* The two roundings of one bill, as inequalities between its amounts.
LEMMA Amounts ==
  ASSUME NEW s \in Int, NEW d \in Int
  PROVE  /\ ServiceCharge(s) \in Int /\ TaxAmount(s, d) \in Int
         /\ 20 * ServiceCharge(s) <= s + 10 /\ s + 10 < 20 * ServiceCharge(s) + 20
         /\ 10 * TaxAmount(s, d) <= s + ServiceCharge(s) - d + 5
         /\ s + ServiceCharge(s) - d + 5 < 10 * TaxAmount(s, d) + 10
         /\ TotalAmount(s, d) = s + ServiceCharge(s) + TaxAmount(s, d) - d
<1>1. ServiceCharge(s) \in Int /\ 20 * ServiceCharge(s) <= s + 10
      /\ s + 10 < 20 * ServiceCharge(s) + 20
  BY Rounding DEF ServiceCharge
<1>2. s + ServiceCharge(s) - d \in Int
  BY <1>1
<1>3. TaxAmount(s, d) = Tenth(s + ServiceCharge(s) - d)
  BY DEF TaxAmount
<1> QED
  BY <1>1, <1>2, <1>3, Rounding DEF TotalAmount

\* The total against the exact rates.
LEMMA Fair ==
  ASSUME NEW s \in Int, NEW d \in Int
  PROVE  /\ TotalAmount(s, d) \in Int
         /\ -1050 <= 1000 * TotalAmount(s, d) - (1155 * s - 1100 * d)
         /\ 1000 * TotalAmount(s, d) - (1155 * s - 1100 * d) <= 1050
<1> DEFINE c == ServiceCharge(s)
           t == TaxAmount(s, d)
<1>1. /\ c \in Int /\ t \in Int
      /\ 20 * c <= s + 10 /\ s + 10 < 20 * c + 20
      /\ 10 * t <= s + c - d + 5 /\ s + c - d + 5 < 10 * t + 10
      /\ TotalAmount(s, d) = s + c + t - d
  BY Amounts
<1> HIDE DEF c, t
<1> QED
  BY <1>1

\* The tax on the smaller base is no larger.
LEMMA Monotone ==
  ASSUME NEW s \in Int, NEW d \in Int, NEW e \in Int, d <= e
  PROVE  TotalAmount(s, e) <= TotalAmount(s, d) - (e - d)
<1> DEFINE c == ServiceCharge(s)
           t == TaxAmount(s, d)
           u == TaxAmount(s, e)
<1>1. /\ c \in Int /\ t \in Int
      /\ s + c - d + 5 < 10 * t + 10
      /\ TotalAmount(s, d) = s + c + t - d
  BY Amounts
<1>2. /\ u \in Int
      /\ 10 * u <= s + c - e + 5
      /\ TotalAmount(s, e) = s + c + u - e
  BY Amounts
<1> HIDE DEF c, t, u
<1>3. u <= t
  BY <1>1, <1>2
<1> QED
  BY <1>1, <1>2, <1>3

\* Three bills, six roundings: the charges drift apart by one at most, and so do the
\* taxes on bases that do.
LEMMA Split ==
  ASSUME NEW s \in Int, NEW t \in Int
  PROVE  TotalAmount(s, 0) + TotalAmount(t, 0) - TotalAmount(s + t, 0) \in -2..2
<1> DEFINE a == ServiceCharge(s)
           b == ServiceCharge(t)
           c == ServiceCharge(s + t)
           x == TaxAmount(s, 0)
           y == TaxAmount(t, 0)
           z == TaxAmount(s + t, 0)
<1>1. /\ a \in Int /\ x \in Int
      /\ 20 * a <= s + 10 /\ s + 10 < 20 * a + 20
      /\ 10 * x <= s + a - 0 + 5 /\ s + a - 0 + 5 < 10 * x + 10
      /\ TotalAmount(s, 0) = s + a + x - 0
  BY Amounts, 0 \in Int
<1>2. /\ b \in Int /\ y \in Int
      /\ 20 * b <= t + 10 /\ t + 10 < 20 * b + 20
      /\ 10 * y <= t + b - 0 + 5 /\ t + b - 0 + 5 < 10 * y + 10
      /\ TotalAmount(t, 0) = t + b + y - 0
  BY Amounts, 0 \in Int
<1>3. /\ c \in Int /\ z \in Int
      /\ 20 * c <= s + t + 10 /\ s + t + 10 < 20 * c + 20
      /\ 10 * z <= s + t + c - 0 + 5 /\ s + t + c - 0 + 5 < 10 * z + 10
      /\ TotalAmount(s + t, 0) = s + t + c + z - 0
  BY Amounts, 0 \in Int, s + t \in Int
<1> HIDE DEF a, b, c, x, y, z
<1>4. a + b - c >= -1 /\ a + b - c <= 1
  BY <1>1, <1>2, <1>3
<1>5. x + y - z >= -1 /\ x + y - z <= 1
  BY <1>1, <1>2, <1>3, <1>4
<1>6. TotalAmount(s, 0) + TotalAmount(t, 0) - TotalAmount(s + t, 0)
        = (a + b - c) + (x + y - z)
  BY <1>1, <1>2, <1>3
<1>7. a + b - c \in Int /\ x + y - z \in Int
  BY <1>1, <1>2, <1>3
<1>8. ASSUME NEW m \in Int, NEW n \in Int, m >= -1, m <= 1, n >= -1, n <= 1
      PROVE  m + n \in -2..2
  BY <1>8
<1> QED
  BY <1>4, <1>5, <1>6, <1>7, <1>8

\* With no more discount than subtotal, neither the tax nor the total is negative.
LEMMA Covered ==
  ASSUME NEW s \in Nat, NEW d \in Nat, d <= s
  PROVE  TaxAmount(s, d) >= 0 /\ TotalAmount(s, d) >= 0
<1> DEFINE c == ServiceCharge(s)
           t == TaxAmount(s, d)
<1>1. /\ c \in Int /\ t \in Int
      /\ s + 10 < 20 * c + 20 /\ s + c - d + 5 < 10 * t + 10
      /\ TotalAmount(s, d) = s + c + t - d
  BY Amounts
<1> HIDE DEF c, t
<1>2. c >= 0
  BY <1>1
<1>3. t >= 0
  BY <1>1, <1>2
<1> QED
  BY <1>1, <1>2, <1>3 DEF t

\* What calculateBillTotals promises whatever the amounts: fair totals, a discount that
\* is given in full, a split that costs the same, nothing negative while the discount is
\* covered, and change that balances.
THEOREM BillArithmetic ==
  ASSUME NEW s \in Nat, NEW d \in Nat
  PROVE  /\ IsFair(calculateBillTotals(s, d))
         /\ \A e \in Nat : d <= e => TotalAmount(s, e) <= TotalAmount(s, d) - (e - d)
         /\ \A t \in Nat : TotalAmount(s, 0) + TotalAmount(t, 0) - TotalAmount(s + t, 0) \in -2..2
         /\ d <= s => TaxAmount(s, d) >= 0 /\ TotalAmount(s, d) >= 0
         /\ \A c \in Nat : ValidCash(TotalAmount(s, d), c) => Balances(TotalAmount(s, d), c)
<1>1. s \in Int /\ d \in Int
  OBVIOUS
<1> DEFINE T == TotalAmount(s, d)
<1>2. /\ T \in Int
      /\ -1050 <= 1000 * T - (1155 * s - 1100 * d)
      /\ 1000 * T - (1155 * s - 1100 * d) <= 1050
  BY <1>1, Fair
<1>3. IsFair(calculateBillTotals(s, d))
  <2> DEFINE B == calculateBillTotals(s, d)
  <2>1. B.subtotal = s /\ B.discountAmount = d /\ B.totalAmount = T
    BY DEF calculateBillTotals
  <2> HIDE DEF B, T
  <2>2. IsFair(B)
    BY <1>1, <1>2, <2>1 DEF IsFair
  <2> QED
    BY <2>2 DEF B
<1>4. ASSUME NEW e \in Nat, d <= e PROVE TotalAmount(s, e) <= TotalAmount(s, d) - (e - d)
  <2>1. e \in Int
    OBVIOUS
  <2> QED
    BY <1>1, <1>4, <2>1, Monotone, Zenon
<1>5. ASSUME NEW t \in Nat
      PROVE  TotalAmount(s, 0) + TotalAmount(t, 0) - TotalAmount(s + t, 0) \in -2..2
  <2>1. t \in Int
    OBVIOUS
  <2> QED
    BY <1>1, <2>1, Split, Zenon
<1>6. d <= s => TaxAmount(s, d) >= 0 /\ TotalAmount(s, d) >= 0
  BY Covered
<1>7. ASSUME NEW c \in Nat, ValidCash(T, c) PROVE Balances(T, c)
  <2> HIDE DEF T
  <2>1. c >= T
    BY <1>7 DEF ValidCash
  <2>2. calculateChange(T, c) = c - T
    BY <2>1 DEF calculateChange
  <2> QED
    BY <1>2, <2>2 DEF Balances
<1> QED
  BY <1>3, <1>4, <1>5, <1>6, <1>7

-----------------------------------------------------------------------------
\* A row holds what calculateBillTotals gave, and cash that balances.
Totals == {calculateBillTotals(s, d) : s \in Nat, d \in Nat}
Row    == [status: BillStatus \cup {"NONE"}, createdAt: Int, change: Int, received: Int,
           totals: Totals]

CashBalances == \A b \in Bills : bill[b].received > 0 =>
                   bill[b].received - bill[b].change = bill[b].totals.totalAmount

Billed == bill \in [Bills -> Row] /\ now \in Int /\ CashBalances

LEMMA TotalsAreFair ==
  ASSUME NEW t \in Totals PROVE IsFair(t) /\ t.totalAmount \in Int
<1>1. PICK s \in Nat, d \in Nat : t = calculateBillTotals(s, d)
  BY DEF Totals
<1>2. t.totalAmount = TotalAmount(s, d)
  BY <1>1 DEF calculateBillTotals
<1>3. TotalAmount(s, d) \in Int
  <2>1. s \in Int /\ d \in Int
    OBVIOUS
  <2> QED
    BY <2>1, Fair
<1>4. IsFair(calculateBillTotals(s, d))
  BY BillArithmetic
<1> QED
  BY <1>1, <1>2, <1>3, <1>4

LEMMA CalculatedIsTotals ==
  ASSUME NEW s \in Nat, NEW d \in Nat PROVE calculateBillTotals(s, d) \in Totals
  BY DEF Totals

LEMMA BilledInitially == Init => Billed
<1> SUFFICES ASSUME Init PROVE Billed
  OBVIOUS
<1>1. NoBill \in Row /\ NoBill.received = 0
  BY CalculatedIsTotals DEF NoBill, Row
<1>2. now \in Int
  BY ClockAssumption DEF Init
<1> QED
  BY <1>1, <1>2 DEF Init, Billed, CashBalances

LEMMA BilledPreserved == Billed /\ [Next]_vars => Billed'
<1> SUFFICES ASSUME Billed, [Next]_vars PROVE Billed'
  OBVIOUS
<1> USE DEF Billed
<1>1. ASSUME NEW b \in Bills, NEW s \in Subtotals, NEW d \in Discounts, createBill(b, s, d)
      PROVE  Billed'
  <2>1. s \in Nat /\ d \in Nat
    BY AmountsAssumption
  <2>2. calculateBillTotals(s, d) \in Totals
    BY <2>1, CalculatedIsTotals
  <2> DEFINE row == [status |-> "PENDING", createdAt |-> now, change |-> 0, received |-> 0,
                     totals |-> calculateBillTotals(s, d)]
  <2>3. row \in Row /\ row.received = 0
    BY <2>2 DEF Row, BillStatus
  <2>4. bill' = [bill EXCEPT ![b] = row] /\ now' = now
    BY <1>1 DEF createBill
  <2> HIDE DEF row
  <2> QED
    BY <2>3, <2>4 DEF CashBalances
<1>2. ASSUME NEW b \in Bills, confirmBill(b) PROVE Billed'
  BY <1>2 DEF confirmBill, CashBalances, Row, BillStatus
<1>3. ASSUME NEW b \in Bills, NEW c \in Received, createCashPayment(b, c) PROVE Billed'
  <2> DEFINE T == bill[b].totals.totalAmount
  <2>1. c \in Nat /\ T \in Int
    BY AmountsAssumption, TotalsAreFair DEF Row
  <2>2. c >= T /\ calculateChange(T, c) = c - T
    BY <1>3, <2>1 DEF createCashPayment, ValidCash, calculateChange
  <2> DEFINE row == [bill[b] EXCEPT !.status = "PAID", !.received = c, !.change = c - T]
  <2>3. row \in Row /\ row.received = c /\ row.change = c - T /\ row.totals = bill[b].totals
    <3> HIDE DEF T
    <3>1. c - T \in Int /\ c \in Int
      BY <2>1
    <3> QED
      BY <3>1 DEF Row, BillStatus
  <2>4. bill' = [bill EXCEPT ![b] = row] /\ now' = now
    BY <1>3, <2>2 DEF createCashPayment
  <2>5. row.received - row.change = row.totals.totalAmount
    <3>1. c - (c - T) = T
      BY <2>1
    <3> QED
      BY <2>3, <3>1, Zenon
  <2> HIDE DEF row
  <2> QED
    BY <2>3, <2>4, <2>5 DEF CashBalances
<1>4. CASE Tick
  BY <1>4, ClockAssumption DEF Tick, CashBalances
<1>5. ASSUME UNCHANGED <<bill, now>> PROVE Billed'
  BY <1>5 DEF CashBalances
<1>6. ASSUME NEW p \in Periods, getBillSummary(p) PROVE Billed'
  BY <1>5, <1>6 DEF getBillSummary
<1>7. ASSUME NEW p \in Periods, NEW from \in Dates \cup {None}, NEW to \in Dates \cup {None},
             getBillAnalytics(p, from, to)
      PROVE  Billed'
  BY <1>5, <1>7 DEF getBillAnalytics
<1>8. CASE ReadCurrent
  BY <1>5, <1>8 DEF ReadCurrent
<1>9. CASE GroupByStatus
  BY <1>5, <1>9 DEF GroupByStatus
<1>10. CASE CompareAnalytics
  BY <1>5, <1>10 DEF CompareAnalytics
<1>11. CASE ReadPrevious
  BY <1>5, <1>11 DEF ReadPrevious
<1>12. CASE NextReport
  BY <1>5, <1>12 DEF NextReport
<1>13. CASE UNCHANGED vars
  BY <1>5, <1>13 DEF vars
<1> QED
  BY <1>1, <1>2, <1>3, <1>4, <1>6, <1>7, <1>8, <1>9, <1>10, <1>11, <1>12, <1>13 DEF Next

\* The amounts on every bill are fair and its cash balances, whatever is made, confirmed,
\* paid and reported meanwhile.
THEOREM BilledAmountsAreFair == Spec => []AmountsAreFair
<1>1. Billed => AmountsAreFair
  BY TotalsAreFair DEF Billed, CashBalances, AmountsAreFair, Existing, Row
<1> QED
  BY <1>1, BilledInitially, BilledPreserved, PTL DEF Spec

-----------------------------------------------------------------------------
(* Windows of time                                                         *)

LEMMA Least ==
  ASSUME NEW T, T \subseteq Nat, T # {}
  PROVE  \E n \in T : \A m \in T : n <= m
<1>1. PICK n \in T : \A m \in T : ~ (<<m, n>> \in OpToRel(<, Nat))
  BY NatLessThanWellFounded, WFMin
<1>2. \A m \in T : ~ (m < n)
  BY <1>1 DEF OpToRel
<1> QED
  BY <1>2

\* Of the months that begin by t, one is the last, however many there are.
LEMMA LastBefore ==
  ASSUME NEW t \in Int, NEW s \in MonthStarts, s <= t
  PROVE  /\ MonthOf(t) \in MonthStarts /\ MonthOf(t) \in Int /\ MonthOf(t) <= t
         /\ \A u \in MonthStarts : u <= t => u <= MonthOf(t)
<1> DEFINE S == {u \in MonthStarts : u <= t}
           T == {t - u : u \in S}
<1>1. S \subseteq Int /\ s \in S
  BY ClockAssumption
<1>2. T \subseteq Nat /\ t - s \in T
  BY <1>1
<1>3. PICK n \in T : \A m \in T : n <= m
  <2> HIDE DEF T
  <2> QED
    BY <1>2, Least
<1>4. PICK u \in S : n = t - u
  BY <1>3
<1>5. \A v \in S : u >= v
  <2> SUFFICES ASSUME NEW v \in S PROVE u >= v
    OBVIOUS
  <2>1. t - u <= t - v
    BY <1>3, <1>4
  <2> QED
    BY <1>1, <2>1
<1>6. MonthOf(t) \in S /\ \A v \in S : MonthOf(t) >= v
  <2> HIDE DEF S
  <2>1. MonthOf(t) = Max(S)
    BY DEF MonthOf, S
  <2> QED
    BY <1>5, <2>1 DEF Max
<1> QED
  BY <1>1, <1>6

LEMMA FirstAfter ==
  ASSUME NEW t \in Int, NEW s \in MonthStarts, t < s
  PROVE  LET n == Min({u \in MonthStarts : u > t}) IN n \in Int /\ t < n
<1> DEFINE S == {u \in MonthStarts : u > t}
           T == {u - t : u \in S}
<1>1. S \subseteq Int /\ s \in S
  BY ClockAssumption
<1>2. T \subseteq Nat /\ s - t \in T
  BY <1>1
<1>3. PICK n \in T : \A m \in T : n <= m
  <2> HIDE DEF T
  <2> QED
    BY <1>2, Least
<1>4. PICK u \in S : n = u - t
  BY <1>3
<1>5. \A v \in S : u =< v
  <2> SUFFICES ASSUME NEW v \in S PROVE u =< v
    OBVIOUS
  <2>1. u - t <= v - t
    BY <1>3, <1>4
  <2> QED
    BY <1>1, <2>1
<1>6. Min(S) \in S
  <2> HIDE DEF S
  <2> QED
    BY <1>5 DEF Min
<1> QED
  BY <1>1, <1>6

LEMMA Floors ==
  ASSUME NEW t \in Nat, NEW n \in Nat \ {0}
  PROVE  Floor(t, n) \in Int /\ Floor(t, n) <= t /\ t < Floor(t, n) + n
  BY DEF Floor

\* A moment is in the current period, and the one before ends where that begins.
LEMMA PeriodsMeet ==
  ASSUME NEW p \in Periods, NEW t \in Moments
  PROVE  /\ PreviousStart(p, t) \in Int /\ CurrentStart(p, t) \in Int /\ CurrentEnd(p, t) \in Int
         /\ PreviousStart(p, t) <= CurrentStart(p, t)
         /\ CurrentStart(p, t) <= t /\ t < CurrentEnd(p, t)
<1>1. t \in Nat /\ t \in Int /\ Day \in Nat \ {0} /\ 7 * Day \in Nat \ {0}
  BY ClockAssumption
<1>2. CASE p = "day"
  <2>1. Floor(t, Day) \in Int /\ Floor(t, Day) <= t /\ t < Floor(t, Day) + Day
    BY <1>1, Floors
  <2> QED
    BY <1>1, <1>2, <2>1 DEF PreviousStart, CurrentStart, CurrentEnd
<1>3. CASE p = "week"
  <2> DEFINE n == 7 * Day
  <2>1. n \in Nat \ {0}
    BY <1>1
  <2>2. PreviousStart(p, t) = Floor(t, n) - n /\ CurrentStart(p, t) = Floor(t, n)
        /\ CurrentEnd(p, t) = Floor(t, n) + n
    BY <1>3 DEF PreviousStart, CurrentStart, CurrentEnd
  <2> HIDE DEF n
  <2>3. Floor(t, n) \in Int /\ Floor(t, n) <= t /\ t < Floor(t, n) + n
    BY <1>1, <2>1, Floors
  <2> QED
    BY <1>1, <2>1, <2>2, <2>3
<1>4. CASE p = "month"
  <2>1. PICK a, b, c \in MonthStarts : a < b /\ b <= t /\ t < c
    BY MonthsAssumption
  <2>2. a \in Int /\ b \in Int /\ c \in Int
    BY ClockAssumption
  <2> DEFINE m == MonthOf(t)
             n == Min({u \in MonthStarts : u > t})
  <2>3. m \in Int /\ m <= t /\ b <= m
    BY <1>1, <2>1, LastBefore
  <2>4. n \in Int /\ t < n
    BY <1>1, <2>1, FirstAfter
  <2>5. MonthOf(m - 1) \in Int /\ MonthOf(m - 1) <= m - 1
    <3> HIDE DEF m
    <3>1. m - 1 \in Int /\ a <= m - 1
      BY <2>1, <2>2, <2>3
    <3> QED
      BY <3>1, LastBefore
  <2>6. PreviousStart(p, t) = MonthOf(m - 1) /\ CurrentStart(p, t) = m /\ CurrentEnd(p, t) = n
    BY <1>4 DEF PreviousStart, CurrentStart, CurrentEnd
  <2> HIDE DEF m, n
  <2> QED
    BY <2>3, <2>4, <2>5, <2>6
<1> QED
  BY <1>2, <1>3, <1>4 DEF Periods

-----------------------------------------------------------------------------
(* Reports among bills                                                     *)

LEMMA BillsAreMade ==
  ASSUME Billed, now \in Moments, NEW b \in Bills,
         \/ \E s \in Subtotals, d \in Discounts : createBill(b, s, d)
         \/ \E c \in Received : createCashPayment(b, c)
         \/ confirmBill(b)
  PROVE  /\ \A a \in Existing : a \in Existing' /\ bill'[a].createdAt = bill[a].createdAt
         /\ \A a \in Existing' \ Existing : bill'[a].createdAt = now
         /\ now' = now /\ report' = report
<1>1. ASSUME NEW s, NEW d, createBill(b, s, d)
      PROVE  /\ bill[b].status = "NONE" /\ now' = now /\ report' = report
             /\ bill'[b].createdAt = now
             /\ \A a \in Bills \ {b} : bill'[a] = bill[a]
  BY <1>1 DEF createBill, Billed
<1>2. ASSUME NEW c, createCashPayment(b, c)
      PROVE  /\ now' = now /\ report' = report
             /\ bill'[b].createdAt = bill[b].createdAt /\ bill'[b].status # "NONE"
             /\ bill[b].status # "NONE"
             /\ \A a \in Bills \ {b} : bill'[a] = bill[a]
  BY <1>2 DEF createCashPayment, Billed, Row
<1>3. ASSUME confirmBill(b)
      PROVE  /\ now' = now /\ report' = report
             /\ bill'[b].createdAt = bill[b].createdAt /\ bill'[b].status # "NONE"
             /\ bill[b].status # "NONE"
             /\ \A a \in Bills \ {b} : bill'[a] = bill[a]
  BY <1>3 DEF confirmBill, Billed, Row
<1> QED
  BY <1>1, <1>2, <1>3 DEF Existing

\* A report being computed stands while bills are made and time goes by.
LEMMA ReportsStand ==
  ASSUME Billed, Billed', ReportsInv, report' = report, now' \in Moments, now <= now',
         \A a \in Existing : a \in Existing' /\ bill'[a].createdAt = bill[a].createdAt,
         \A a \in Existing' \ Existing : bill'[a].createdAt = now'
  PROVE  ReportsInv'
<1>0. /\ report.known \in SUBSET Bills /\ report.window.from \in Int /\ now \in Int /\ now' \in Int
      /\ Existing \subseteq Existing'
  BY ClockAssumption DEF ReportsInv, Report, Window
<1>1. report' \in Report
  BY DEF ReportsInv
<1>2. WindowsMeet'
  BY <1>0 DEF ReportsInv, WindowsMeet
<1>3. DatesApart'
  BY DEF ReportsInv, DatesApart
<1>4. CountStands'
  <2> SUFFICES ASSUME Read PROVE CountStands'
    BY DEF CountStands, Read
  <2>1. /\ report.known \subseteq Existing
        /\ report.current = {b \in report.known : In(bill[b].createdAt, report.window)}
        /\ report.kind = "summary" =>
             \A b \in Existing \ report.known : report.window.from <= bill[b].createdAt
    BY DEF ReportsInv, CountStands
  <2>2. report.current = {b \in report.known : In(bill'[b].createdAt, report.window)}
    BY <2>1
  <2>3. ASSUME report.kind = "summary", NEW b \in Existing' \ report.known
        PROVE  report.window.from <= bill'[b].createdAt
    <3>1. CASE b \in Existing
      BY <2>1, <2>3, <3>1
    <3>2. CASE b \notin Existing
      BY <1>0, <2>3, <3>2 DEF ReportsInv, WindowsMeet
    <3> QED
      BY <3>1, <3>2
  <2> QED
    BY <1>0, <2>1, <2>2, <2>3 DEF CountStands, In
<1>5. StatusesCount'
  <2> SUFFICES ASSUME report.kind = "summary", report.at \in {"previous", "answered"}
               PROVE  StatusesCount'
    BY DEF StatusesCount
  <2>1. PICK S \in SUBSET Existing :
          /\ S \cap report.known = report.current
          /\ Cardinality(S) = report.statuses["PENDING"] + report.statuses["CONFIRMED"]
                                + report.statuses["PAID"] + report.statuses["CANCELLED"]
    BY DEF ReportsInv, StatusesCount
  <2>2. S \in SUBSET Existing'
    BY <1>0
  <2> QED
    BY <2>1, <2>2 DEF StatusesCount
<1>6. BeforeStands'
  <2> SUFFICES ASSUME report.at = "answered" PROVE BeforeStands'
    BY DEF BeforeStands
  <2>1. /\ report.known \subseteq Existing /\ report.previous \subseteq Existing
        /\ \A b \in report.previous : In(bill[b].createdAt, report.other)
        /\ report.kind = "summary" =>
              report.previous = {b \in report.known : In(bill[b].createdAt, report.other)}
    BY DEF ReportsInv, CountStands, BeforeStands, Read
  <2>2. /\ report.previous \subseteq Existing'
        /\ \A b \in report.previous : In(bill'[b].createdAt, report.other)
        /\ report.kind = "summary" =>
              report.previous = {b \in report.known : In(bill'[b].createdAt, report.other)}
    BY <1>0, <2>1
  <2> QED
    BY <2>2 DEF BeforeStands, In
<1> QED
  BY <1>1, <1>2, <1>3, <1>4, <1>5, <1>6 DEF ReportsInv

LEMMA IdleReport == Idle \in Report /\ Idle.kind = "none" /\ Idle.at = "idle" /\ ~Idle.dated
  BY DEF Idle, Report, Window, HalfOpen, Periods

LEMMA ReportsInitially == Init => ReportsInv
<1> SUFFICES ASSUME Init PROVE ReportsInv
  OBVIOUS
<1>1. Idle \in Report /\ Idle.kind = "none" /\ Idle.at = "idle" /\ ~Idle.dated
  BY IdleReport
<1>2. report = Idle /\ now \in Moments
  BY DEF Init
<1> HIDE DEF Idle
<1> QED
  BY <1>1, <1>2 DEF ReportsInv, WindowsMeet, DatesApart, CountStands, StatusesCount, BeforeStands,
                    Read

LEMMA SummaryBegins ==
  ASSUME ReportsInv, NEW p \in Periods, getBillSummary(p)
  PROVE  ReportsInv'
<1> DEFINE w == HalfOpen(CurrentStart(p, now), CurrentEnd(p, now))
           o == Previous(p, now)
<1>1. now \in Moments /\ now' = now /\ now \in Int
  BY ClockAssumption DEF ReportsInv, getBillSummary
<1>2. /\ w \in Window /\ o \in Window /\ ~w.last /\ ~o.last
      /\ o.from <= o.to /\ o.to = w.from /\ w.from <= now /\ w.from <= w.to
  <2>1. /\ PreviousStart(p, now) \in Int /\ CurrentStart(p, now) \in Int /\ CurrentEnd(p, now) \in Int
        /\ PreviousStart(p, now) <= CurrentStart(p, now)
        /\ CurrentStart(p, now) <= now /\ now < CurrentEnd(p, now)
    BY <1>1, PeriodsMeet
  <2> DEFINE x == PreviousStart(p, now)
             y == CurrentStart(p, now)
             z == CurrentEnd(p, now)
  <2>2. /\ o.from = x /\ o.to = y /\ w.from = y /\ w.to = z /\ ~w.last /\ ~o.last
        /\ w = [from |-> y, to |-> z, last |-> FALSE] /\ o = [from |-> x, to |-> y, last |-> FALSE]
    BY DEF HalfOpen, Previous
  <2> HIDE DEF x, y, z, w, o
  <2>3. x \in Int /\ y \in Int /\ z \in Int /\ x <= y /\ y <= now /\ now < z
    BY <2>1 DEF x, y, z
  <2> QED
    BY <1>1, <2>2, <2>3 DEF Window
<1>3. report' = [Idle EXCEPT !.at = "totals", !.kind = "summary", !.period = p,
                             !.window = w, !.other = o]
  BY DEF getBillSummary
<1> HIDE DEF w, o
<1>4. /\ report' \in Report /\ report'.at = "totals" /\ report'.kind = "summary"
      /\ ~report'.dated /\ report'.window = w /\ report'.other = o
  BY <1>2, <1>3, IdleReport DEF Report
<1> QED
  BY <1>1, <1>2, <1>4 DEF ReportsInv, WindowsMeet, DatesApart, CountStands, StatusesCount,
                          BeforeStands, Read

LEMMA AnalyticsBegins ==
  ASSUME ReportsInv, NEW p \in Periods, NEW from \in Dates \cup {None},
         NEW to \in Dates \cup {None}, getBillAnalytics(p, from, to)
  PROVE  ReportsInv'
<1> DEFINE d == from # None /\ to # None
           f == IF from = None THEN Back(p, now) ELSE from
           t == IF to = None THEN now ELSE to
           w == Closed(f, t)
<1>1. now \in Moments /\ now' = now /\ now \in Int
  BY ClockAssumption DEF ReportsInv, getBillAnalytics
<1>2. Back(p, now) \in Int
  BY <1>1, ClockAssumption, YearsAssumption DEF Back, Periods
<1>3. f \in Int /\ t \in Int
  BY <1>1, <1>2, ClockAssumption
<1>4. w \in Window
  BY <1>3 DEF Window, Closed
<1>5. d => w.from # None /\ w.to # None
  BY DEF Closed
<1>6. report' = [Idle EXCEPT !.at = "totals", !.kind = "analytics", !.period = p, !.dated = d,
                             !.window = w]
  BY DEF getBillAnalytics
<1>7. d \in BOOLEAN
  OBVIOUS
<1> HIDE DEF w, d
<1>8. /\ report' \in Report /\ report'.at = "totals" /\ report'.kind = "analytics"
      /\ report'.dated = d /\ report'.window = w
  BY <1>4, <1>6, <1>7, IdleReport DEF Report
<1> QED
  BY <1>1, <1>5, <1>8 DEF ReportsInv, WindowsMeet, DatesApart, CountStands, StatusesCount,
                          BeforeStands, Read

LEMMA CurrentIsRead ==
  ASSUME Billed, ReportsInv, ReadCurrent
  PROVE  ReportsInv'
<1> DEFINE C == Counted(report.window)
           a == IF report.kind = "summary" THEN "statuses" ELSE "compare"
<1>1. report' = [report EXCEPT !.at = a, !.current = C, !.known = Existing]
      /\ UNCHANGED <<bill, now>> /\ Existing' = Existing
  BY DEF ReadCurrent, Existing
<1>2. C \in SUBSET Bills /\ Existing \in SUBSET Bills
      /\ C = {b \in Existing : In(bill[b].createdAt, report.window)}
  BY DEF Counted, Existing
<1>3. /\ a \in {"statuses", "compare"}
      /\ report.kind = "summary" => a = "statuses"
      /\ report.kind = "analytics" => a = "compare"
  OBVIOUS
<1> HIDE DEF C, a
<1>4. /\ report' \in Report /\ report'.at = a /\ report'.kind = report.kind
      /\ report'.dated = report.dated /\ report'.window = report.window
      /\ report'.other = report.other /\ report'.current = C /\ report'.known = Existing
  BY <1>1, <1>2, <1>3 DEF ReportsInv, Report
<1>5. CountStands'
  BY <1>1, <1>2, <1>4 DEF CountStands, In
<1>6. WindowsMeet' /\ DatesApart'
  BY <1>1, <1>3, <1>4 DEF ReportsInv, WindowsMeet, DatesApart
<1> QED
  BY <1>1, <1>3, <1>4, <1>5, <1>6 DEF ReportsInv, StatusesCount, BeforeStands

\* Bills counted by status are as many as the bills.
LEMMA ByStatus ==
  ASSUME Billed, NEW S \in SUBSET Existing
  PROVE  LET n(s) == Cardinality({b \in S : bill[b].status = s})
         IN  /\ \A s \in BillStatus : n(s) \in Nat
             /\ Cardinality(S) = n("PENDING") + n("CONFIRMED") + n("PAID") + n("CANCELLED")
<1> DEFINE P == {b \in S : bill[b].status = "PENDING"}
           C == {b \in S : bill[b].status = "CONFIRMED"}
           D == {b \in S : bill[b].status = "PAID"}
           X == {b \in S : bill[b].status = "CANCELLED"}
<1>1. IsFiniteSet(S)
  BY BillsAssumption, FS_Subset DEF Existing
<1>2. /\ \A s \in BillStatus : Cardinality({b \in S : bill[b].status = s}) \in Nat
      /\ IsFiniteSet(P) /\ IsFiniteSet(C) /\ IsFiniteSet(D) /\ IsFiniteSet(X)
  BY <1>1, FS_Subset, FS_CardinalityType
<1>3. \A b \in S : bill[b].status \in {"PENDING", "CONFIRMED", "PAID", "CANCELLED"}
  BY DEF Existing, Billed, Row, BillStatus
<1>4. S = ((P \cup C) \cup D) \cup X
  BY <1>3
<1>5. P \cap C = {} /\ (P \cup C) \cap D = {} /\ ((P \cup C) \cup D) \cap X = {}
  OBVIOUS
<1>6. /\ Cardinality(P) \in Nat /\ Cardinality(C) \in Nat
      /\ Cardinality(D) \in Nat /\ Cardinality(X) \in Nat
  BY <1>2, FS_CardinalityType
<1> HIDE DEF P, C, D, X
<1>7. ASSUME NEW A, NEW B, IsFiniteSet(A), IsFiniteSet(B), A \cap B = {}
      PROVE  IsFiniteSet(A \cup B) /\ Cardinality(A \cup B) = Cardinality(A) + Cardinality(B)
  <2>1. /\ IsFiniteSet(A \cup B)
        /\ Cardinality(A \cup B) = Cardinality(A) + Cardinality(B) - Cardinality(A \cap B)
    BY <1>7, FS_Union, Zenon
  <2>2. Cardinality(A \cap B) = 0
    BY <1>7, FS_EmptySet
  <2>3. Cardinality(A) \in Nat /\ Cardinality(B) \in Nat
    BY <1>7, FS_CardinalityType
  <2> QED
    BY <2>1, <2>2, <2>3
<1>8. IsFiniteSet(P \cup C) /\ Cardinality(P \cup C) = Cardinality(P) + Cardinality(C)
  BY <1>2, <1>5, <1>7
<1>9. /\ IsFiniteSet((P \cup C) \cup D)
      /\ Cardinality((P \cup C) \cup D) = Cardinality(P \cup C) + Cardinality(D)
  BY <1>2, <1>5, <1>7, <1>8
<1>10. Cardinality(S) = Cardinality((P \cup C) \cup D) + Cardinality(X)
  BY <1>2, <1>4, <1>5, <1>7, <1>9
<1>11. Cardinality(S) = Cardinality(P) + Cardinality(C) + Cardinality(D) + Cardinality(X)
  BY <1>8, <1>9, <1>10
<1> QED
  BY <1>2, <1>11 DEF P, C, D, X

LEMMA StatusesAreRead ==
  ASSUME Billed, ReportsInv, GroupByStatus
  PROVE  ReportsInv'
<1> DEFINE S == Counted(report.window)
           n == [s \in BillStatus |-> Cardinality({b \in S : bill[b].status = s})]
<1>1. report' = [report EXCEPT !.at = "previous", !.statuses = n]
      /\ UNCHANGED <<bill, now>> /\ Existing' = Existing /\ report.at = "statuses"
  BY DEF GroupByStatus, Existing
<1>2. S \in SUBSET Existing /\ S = {b \in Existing : In(bill[b].createdAt, report.window)}
  BY DEF Counted
<1>3. n \in [BillStatus -> Nat]
      /\ Cardinality(S) = n["PENDING"] + n["CONFIRMED"] + n["PAID"] + n["CANCELLED"]
  <2> HIDE DEF S
  <2> QED
    BY <1>2, ByStatus DEF BillStatus
<1>4. /\ report.known \subseteq Existing
      /\ report.current = {b \in report.known : In(bill[b].createdAt, report.window)}
  BY <1>1 DEF ReportsInv, CountStands, Read
<1>5. S \cap report.known = report.current
  BY <1>2, <1>4
<1> HIDE DEF S, n
<1>6. /\ report' \in Report /\ report'.at = "previous" /\ report'.kind = report.kind
      /\ report'.dated = report.dated /\ report'.window = report.window
      /\ report'.other = report.other /\ report'.current = report.current
      /\ report'.known = report.known /\ report'.statuses = n
  BY <1>1, <1>3 DEF ReportsInv, Report
<1>7. StatusesCount'
  BY <1>1, <1>2, <1>3, <1>5, <1>6 DEF StatusesCount
<1>8. WindowsMeet' /\ CountStands'
  BY <1>1, <1>6 DEF ReportsInv, WindowsMeet, CountStands, In, Read
<1>9. DatesApart'
  BY <1>1, <1>6 DEF ReportsInv, DatesApart
<1> QED
  BY <1>1, <1>6, <1>7, <1>8, <1>9 DEF ReportsInv, BeforeStands

\* The dates asked for, moved back, end a day before they begin.
LEMMA ComparisonIsBefore ==
  ASSUME now \in Moments, NEW p \in Periods, NEW from \in Int, NEW to \in Int
  PROVE  /\ Comparison(p, from, to) \in Window /\ Comparison(p, None, None) \in Window
         /\ from # None /\ to # None => Comparison(p, from, to).to < from
<1>1. now \in Int /\ Day \in Nat \ {0}
  BY ClockAssumption
<1>2. Back(p, now) \in Int /\ Back(p, Back(p, now)) \in Int
  BY <1>1, YearsAssumption DEF Back, Periods
<1> DEFINE days == -((from - to) \div Day)
           x == from - Day - days * Day
           y == from - Day
<1>3. days \in Int /\ y \in Int /\ y < from
  BY <1>1
<1>4. x \in Int
  <2> HIDE DEF days
  <2> QED
    BY <1>1, <1>3
<1>5. Comparison(p, from, to) = IF from # None /\ to # None
                                THEN Closed(x, y) ELSE Closed(Back(p, Back(p, now)), Back(p, now))
  BY DEF Comparison
<1>6. Comparison(p, None, None) = Closed(Back(p, Back(p, now)), Back(p, now))
  BY DEF Comparison
<1> HIDE DEF x, y, days
<1> QED
  BY <1>2, <1>3, <1>4, <1>5, <1>6 DEF Closed, Window

LEMMA AnalyticsCompares ==
  ASSUME Billed, ReportsInv, CompareAnalytics
  PROVE  ReportsInv'
<1> DEFINE o == IF report.dated
                THEN Comparison(report.period, report.window.from, report.window.to)
                ELSE Comparison(report.period, None, None)
<1>1. report' = [report EXCEPT !.at = "previous", !.other = o]
      /\ UNCHANGED <<bill, now>> /\ Existing' = Existing /\ report.at = "compare"
  BY DEF CompareAnalytics, Existing
<1>2. o \in Window /\ (report.dated => o.to < report.window.from)
  <2>1. /\ now \in Moments /\ report.period \in Periods
        /\ report.window.from \in Int /\ report.window.to \in Int
    BY DEF ReportsInv, Report, Window
  <2>2. report.dated => report.window.from # None /\ report.window.to # None
    BY DEF ReportsInv, DatesApart
  <2> QED
    BY <2>1, <2>2, ComparisonIsBefore
<1> HIDE DEF o
<1>3. /\ report' \in Report /\ report'.at = "previous" /\ report'.kind = report.kind
      /\ report'.dated = report.dated /\ report'.window = report.window
      /\ report'.other = o /\ report'.current = report.current
      /\ report'.known = report.known
  BY <1>1, <1>2 DEF ReportsInv, Report
<1>4. DatesApart'
  BY <1>1, <1>2, <1>3 DEF ReportsInv, DatesApart
<1>5. CountStands'
  BY <1>1, <1>3 DEF ReportsInv, CountStands, In, Read
<1>6. report.kind # "summary"
  BY <1>1 DEF ReportsInv, WindowsMeet
<1> QED
  BY <1>1, <1>3, <1>4, <1>5, <1>6 DEF ReportsInv, WindowsMeet, StatusesCount, BeforeStands

\* What a summary reads of the period before, it knew: bills made since are later.
LEMMA PreviousIsRead ==
  ASSUME Billed, ReportsInv, ReadPrevious
  PROVE  ReportsInv'
<1> DEFINE P == Counted(report.other)
<1>1. report' = [report EXCEPT !.at = "answered", !.previous = P]
      /\ UNCHANGED <<bill, now>> /\ Existing' = Existing /\ report.at = "previous"
  BY DEF ReadPrevious, Existing
<1>2. P \in SUBSET Bills /\ P = {b \in Existing : In(bill[b].createdAt, report.other)}
  BY DEF Counted, Existing
<1>3. /\ report.known \subseteq Existing
      /\ report.kind = "summary" =>
           \A b \in Existing \ report.known : report.window.from <= bill[b].createdAt
  BY <1>1 DEF ReportsInv, CountStands, Read
<1>4. report.kind = "summary" => P = {b \in report.known : In(bill[b].createdAt, report.other)}
  <2> SUFFICES ASSUME report.kind = "summary", NEW b \in Existing \ report.known,
                      In(bill[b].createdAt, report.other)
               PROVE  FALSE
    BY <1>2, <1>3
  <2>1. /\ report.window.from <= bill[b].createdAt
        /\ report.other.to = report.window.from /\ ~report.other.last
    BY <1>3 DEF ReportsInv, WindowsMeet
  <2>2. bill[b].createdAt \in Int /\ report.other.to \in Int
    BY DEF Billed, Row, Existing, ReportsInv, Report, Window
  <2> QED
    BY <2>1, <2>2 DEF In
<1> HIDE DEF P
<1>5. /\ report' \in Report /\ report'.at = "answered" /\ report'.kind = report.kind
      /\ report'.dated = report.dated /\ report'.window = report.window
      /\ report'.other = report.other /\ report'.current = report.current
      /\ report'.known = report.known /\ report'.previous = P
      /\ report'.statuses = report.statuses
  BY <1>1, <1>2 DEF ReportsInv, Report
<1>6. WindowsMeet' /\ DatesApart' /\ StatusesCount'
  BY <1>1, <1>5 DEF ReportsInv, WindowsMeet, DatesApart, StatusesCount
<1>7. CountStands'
  BY <1>1, <1>5 DEF ReportsInv, CountStands, In, Read
<1>8. BeforeStands'
  BY <1>1, <1>2, <1>4, <1>5 DEF BeforeStands, In
<1> QED
  BY <1>1, <1>5, <1>6, <1>7, <1>8 DEF ReportsInv

LEMMA ReportsPreserved == Billed /\ Billed' /\ ReportsInv /\ [Next]_vars => ReportsInv'
<1> SUFFICES ASSUME Billed, Billed', ReportsInv, [Next]_vars PROVE ReportsInv'
  OBVIOUS
<1>0. now \in Moments /\ now \in Nat
  BY ClockAssumption DEF ReportsInv
<1>1. ASSUME NEW b \in Bills,
             \/ \E s \in Subtotals, d \in Discounts : createBill(b, s, d)
             \/ \E c \in Received : createCashPayment(b, c)
             \/ confirmBill(b)
      PROVE  ReportsInv'
  <2>1. /\ \A a \in Existing : a \in Existing' /\ bill'[a].createdAt = bill[a].createdAt
        /\ \A a \in Existing' \ Existing : bill'[a].createdAt = now
        /\ now' = now /\ report' = report
    BY <1>0, <1>1, BillsAreMade, Zenon
  <2>2. now' \in Moments /\ now <= now'
    BY <1>0, <2>1
  <2> QED
    BY <2>1, <2>2, ReportsStand
<1>2. CASE Tick
  <2>1. now' \in Moments /\ now' > now /\ bill' = bill /\ report' = report
    BY <1>2 DEF Tick
  <2>2. now <= now' /\ Existing' = Existing
    BY <1>0, <2>1, ClockAssumption DEF Existing
  <2> QED
    BY <2>1, <2>2, ReportsStand
<1>3. ASSUME NEW p \in Periods,
             \/ getBillSummary(p)
             \/ \E from, to \in Dates \cup {None} : getBillAnalytics(p, from, to)
      PROVE  ReportsInv'
  BY <1>3, SummaryBegins, AnalyticsBegins
<1>4. CASE ReadCurrent
  BY <1>4, CurrentIsRead
<1>5. CASE GroupByStatus
  BY <1>5, StatusesAreRead
<1>6. CASE CompareAnalytics
  BY <1>6, AnalyticsCompares
<1>7. CASE ReadPrevious
  BY <1>7, PreviousIsRead
<1>8. CASE NextReport
  <2>1. report' = Idle /\ now' = now
    BY <1>8 DEF NextReport
  <2> QED
    BY <1>0, <2>1, IdleReport DEF ReportsInv, WindowsMeet, DatesApart, CountStands,
                                  StatusesCount, BeforeStands, Read
<1>9. CASE UNCHANGED vars
  <2>1. now' = now /\ bill' = bill /\ report' = report
    BY <1>9 DEF vars
  <2>2. now <= now' /\ Existing' = Existing
    BY <1>0, <2>1 DEF Existing
  <2> QED
    BY <1>0, <2>1, <2>2, ReportsStand
<1> QED
  BY <1>1, <1>2, <1>3, <1>4, <1>5, <1>6, <1>7, <1>8, <1>9 DEF Next

LEMMA ReportsInvariant == Spec => [](Billed /\ ReportsInv)
  BY BilledInitially, BilledPreserved, ReportsInitially, ReportsPreserved, PTL DEF Spec

-----------------------------------------------------------------------------
(* What an answer says                                                     *)

\* For any number of bills, made and paid between the reads: the numbers by status of a
\* summary come to the number of its bills, but for those made since they were counted.
THEOREM SummariesAddUp == Spec => []SummaryAddsUp
<1>1. ASSUME Billed, ReportsInv, Answered("summary") PROVE SummaryAddsUp
  <2> DEFINE n == report.statuses["PENDING"] + report.statuses["CONFIRMED"]
                    + report.statuses["PAID"] + report.statuses["CANCELLED"]
             c == Cardinality(report.current)
             new == Existing \ report.known
  <2>1. PICK S \in SUBSET Existing : S \cap report.known = report.current /\ Cardinality(S) = n
    BY <1>1 DEF Answered, ReportsInv, StatusesCount
  <2>2. IsFiniteSet(S) /\ IsFiniteSet(new)
    BY BillsAssumption, FS_Subset DEF Existing
  <2>3. report.known \subseteq Existing
    BY <1>1 DEF Answered, ReportsInv, CountStands, Read
  <2> HIDE DEF n
  <2>4. Cardinality(S \ report.known) = n - c
    <3>1. Cardinality(S \ report.known) = Cardinality(S) - Cardinality(S \cap report.known)
      BY <2>2, FS_Difference, Zenon
    <3> QED
      BY <2>1, <3>1, Zenon
  <2>5. S \ report.known \subseteq new
    OBVIOUS
  <2>6. /\ Cardinality(S \ report.known) \in Nat /\ Cardinality(new) \in Nat
        /\ Cardinality(S \ report.known) <= Cardinality(new)
    BY <2>2, <2>5, FS_Subset, FS_CardinalityType
  <2> HIDE DEF c, new
  <2>7. n - c \in 0..Cardinality(new)
    <3>1. n - c \in Nat /\ n - c <= Cardinality(new) /\ Cardinality(new) \in Nat
      BY <2>4, <2>6
    <3> DEFINE k == n - c
               m == Cardinality(new)
    <3>2. k \in Nat /\ m \in Nat /\ k <= m
      BY <3>1
    <3> HIDE DEF k, m
    <3>3. k \in 0..m
      BY <3>2
    <3> QED
      BY <3>3 DEF k, m
  <2>8. report.statuses["PAID"] + PendingBills(report) + report.statuses["CANCELLED"] = n
    <3>1. report.statuses \in [BillStatus -> Nat]
      BY <1>1 DEF ReportsInv, Report
    <3> QED
      BY <3>1 DEF PendingBills, BillStatus, n
  <2> QED
    BY <2>7, <2>8 DEF SummaryAddsUp, c, new
<1>2. Billed /\ ReportsInv => SummaryAddsUp
  BY <1>1 DEF SummaryAddsUp
<1> QED
  BY <1>2, ReportsInvariant, PTL

\* Whatever the length of a day and wherever the months begin, no bill is counted on both
\* sides of a comparison, and a summary leaves out none that falls in its two periods.
THEOREM BillsCountOnOneSide == Spec => []CountedOnOneSide
<1>1. ASSUME Billed, ReportsInv, report.at = "answered" PROVE CountedOnOneSide
  <2>1. /\ report.known \subseteq Existing
        /\ report.current = {b \in report.known : In(bill[b].createdAt, report.window)}
        /\ report.previous \subseteq Existing
        /\ \A b \in report.previous : In(bill[b].createdAt, report.other)
        /\ report.kind = "summary" =>
              report.previous = {b \in report.known : In(bill[b].createdAt, report.other)}
    BY <1>1 DEF ReportsInv, CountStands, BeforeStands, Read
  <2>2. /\ report.window.from \in Int /\ report.window.to \in Int
        /\ report.other.from \in Int /\ report.other.to \in Int
        /\ \A b \in Existing : bill[b].createdAt \in Int
    BY <1>1 DEF ReportsInv, Report, Window, Billed, Row, Existing
  <2>3. report.kind = "summary" =>
          /\ report.other.from <= report.other.to
          /\ report.other.to = report.window.from /\ report.window.from <= report.window.to
          /\ ~report.window.last /\ ~report.other.last
    BY <1>1 DEF ReportsInv, WindowsMeet
  <2>4. report.dated => report.other.to < report.window.from
    BY <1>1 DEF ReportsInv, DatesApart
  <2>5. ASSUME report.kind = "summary" \/ report.dated
        PROVE  report.current \cap report.previous = {}
    <3> SUFFICES ASSUME NEW b \in report.current, b \in report.previous PROVE FALSE
      OBVIOUS
    <3>1. In(bill[b].createdAt, report.window) /\ In(bill[b].createdAt, report.other)
          /\ bill[b].createdAt \in Int
      BY <2>1, <2>2
    <3> QED
      BY <2>2, <2>3, <2>4, <2>5, <3>1 DEF In
  <2>6. ASSUME report.kind = "summary", NEW b \in report.known
        PROVE  In(bill[b].createdAt, report.window) \/ In(bill[b].createdAt, report.other)
                 <=> /\ report.other.from <= bill[b].createdAt
                     /\ bill[b].createdAt < report.window.to
    <3>1. bill[b].createdAt \in Int
      BY <2>1, <2>2
    <3> QED
      BY <2>2, <2>3, <2>6, <3>1 DEF In
  <2> QED
    BY <2>1, <2>5, <2>6 DEF CountedOnOneSide, Answered
<1>2. Billed /\ ReportsInv => CountedOnOneSide
  BY <1>1 DEF CountedOnOneSide, Answered
<1> QED
  BY <1>2, ReportsInvariant, PTL

-----------------------------------------------------------------------------
(* Sums, again (as in OrderBilling_proofs, a module of other variables)       *)

Some(s) == CHOOSE x \in s : TRUE

\* The function whose value SumFunction is: g adds up f at s as the definition says.
Adds(f, g, s) == g[s] = IF s = {} THEN 0 ELSE f[Some(s)] + g[s \ {Some(s)}]
Iter(f) == CHOOSE iter : iter = [s \in SUBSET DOMAIN f |->
             IF s = {} THEN 0 ELSE f[Some(s)] + iter[s \ {Some(s)}]]

LEMMA SomeIn == ASSUME NEW s, s # {} PROVE Some(s) \in s
BY DEF Some

LEMMA SumIter == ASSUME NEW f PROVE SumFunction(f) = Iter(f)[DOMAIN f]
BY DEF SumFunction, SumFunctionOnSet, FoldFunctionOnSet, MapThenFoldSet, Iter, Some

LEMMA SubsetSize ==
  ASSUME NEW D, IsFiniteSet(D), NEW s \in SUBSET D
  PROVE  /\ IsFiniteSet(s) /\ Cardinality(s) \in Nat
         /\ s # {} => /\ s \ {Some(s)} \in SUBSET D
                      /\ Cardinality(s \ {Some(s)}) = Cardinality(s) - 1
                      /\ Cardinality(s) > 0
<1>1. IsFiniteSet(s)
  BY FS_Subset
<1>2. Cardinality(s) \in Nat
  BY <1>1, FS_CardinalityType
<1>3. ASSUME s # {} PROVE /\ s \ {Some(s)} \in SUBSET D
                      /\ Cardinality(s \ {Some(s)}) = Cardinality(s) - 1
                      /\ Cardinality(s) > 0
  <2>1. Some(s) \in s
    BY <1>3, SomeIn
  <2>2. Cardinality(s) # 0
    BY <1>1, <1>3, FS_EmptySet
  <2>3. Cardinality(s \ {Some(s)}) = Cardinality(s) - 1
    BY <1>1, <2>1, FS_RemoveElement
  <2> QED
    BY <1>2, <2>2, <2>3
<1> QED
  BY <1>1, <1>2, <1>3

\* Sets of any size can be added up, by adding one element to what smaller ones come to.
LEMMA Solvable ==
  ASSUME NEW f, IsFiniteSet(DOMAIN f)
  PROVE  \A n \in Nat : \E g : \A s \in SUBSET DOMAIN f : Cardinality(s) <= n => Adds(f, g, s)
<1> DEFINE Upto(n) == \E g : \A s \in SUBSET DOMAIN f : Cardinality(s) <= n => Adds(f, g, s)
<1> DEFINE Bad == {n \in Nat : ~Upto(n)}
<1> SUFFICES ASSUME Bad # {} PROVE FALSE
  OBVIOUS
<1> HIDE DEF Bad
<1>0. Bad \subseteq Nat
  BY DEF Bad
<1>1. PICK n \in Bad : \A m \in Bad : n <= m
  BY <1>0, Least
<1>2. n \in Nat /\ ~Upto(n)
  BY DEF Bad
<1>3. n # 0
  <2>1. ASSUME NEW s \in SUBSET DOMAIN f, Cardinality(s) <= 0 PROVE s = {}
    <3>1. Cardinality(s) \in Nat /\ (s # {} => Cardinality(s) > 0)
      BY SubsetSize
    <3> QED
      BY <2>1, <3>1
  <2>2. Upto(0)
    <3> DEFINE g == [s \in SUBSET DOMAIN f |-> 0]
    <3>1. \A s \in SUBSET DOMAIN f : Cardinality(s) <= 0 => Adds(f, g, s)
      BY <2>1 DEF Adds
    <3> QED
      BY <3>1
  <2> QED
    BY <2>2, <1>2
<1>4. n - 1 \in Nat /\ n - 1 \notin Bad
  BY <1>1, <1>2, <1>3
<1>5. PICK g : \A s \in SUBSET DOMAIN f : Cardinality(s) <= n - 1 => Adds(f, g, s)
  BY <1>4 DEF Bad
<1> DEFINE h == [s \in SUBSET DOMAIN f |-> IF s = {} THEN 0 ELSE f[Some(s)] + g[s \ {Some(s)}]]
<1>6. ASSUME NEW s \in SUBSET DOMAIN f, Cardinality(s) <= n PROVE Adds(f, h, s)
  <2>1. CASE s = {}
    BY <2>1 DEF Adds
  <2>2. CASE s # {}
    <3> DEFINE t == s \ {Some(s)}
    <3>1. t \in SUBSET DOMAIN f /\ Cardinality(t) <= n - 1
      BY <2>2, <1>6, <1>2, SubsetSize
    <3>2. g[t] = h[t]
      BY <3>1, <1>5 DEF Adds
    <3> QED
      BY <2>2, <3>2 DEF Adds
  <2> QED
    BY <2>1, <2>2
<1>7. Upto(n)
  BY <1>6
<1> QED
  BY <1>7, <1>2

\* So the recursive definition has a solution, and its value is one.
LEMMA IterAdds ==
  ASSUME NEW f, IsFiniteSet(DOMAIN f)
  PROVE  \A s \in SUBSET DOMAIN f : Adds(f, Iter(f), s)
<1>1. PICK g : \A s \in SUBSET DOMAIN f : Cardinality(s) <= Cardinality(DOMAIN f) => Adds(f, g, s)
  BY Solvable, FS_CardinalityType
<1>2. \A s \in SUBSET DOMAIN f : Cardinality(s) <= Cardinality(DOMAIN f)
  BY FS_Subset
<1> DEFINE body(i) == [s \in SUBSET DOMAIN f |-> IF s = {} THEN 0 ELSE f[Some(s)] + i[s \ {Some(s)}]]
           h == [s \in SUBSET DOMAIN f |-> g[s]]
<1>3. h = body(h)
  BY <1>1, <1>2 DEF Adds
<1>4. Iter(f) = body(Iter(f))
  BY <1>3 DEF Iter
<1>5. ASSUME NEW s \in SUBSET DOMAIN f PROVE Iter(f)[s] = body(Iter(f))[s]
  BY <1>4
<1> QED
  BY <1>5 DEF Adds

\* A finite sum of naturals is a natural.
LEMMA SumIsNat ==
  ASSUME NEW f, IsFiniteSet(DOMAIN f), \A x \in DOMAIN f : f[x] \in Nat
  PROVE  SumFunction(f) \in Nat
<1> DEFINE I == Iter(f)
           Bad == {n \in Nat : \E s \in SUBSET DOMAIN f : Cardinality(s) = n /\ I[s] \notin Nat}
<1>1. \A s \in SUBSET DOMAIN f : Adds(f, I, s)
  BY IterAdds
<1> HIDE DEF I
<1>2. ASSUME NEW n \in Bad, \A m \in Bad : n <= m PROVE FALSE
  <2>1. PICK s \in SUBSET DOMAIN f : Cardinality(s) = n /\ I[s] \notin Nat
    OBVIOUS
  <2>2. s # {}
    BY <1>1, <2>1 DEF Adds
  <2> DEFINE t == s \ {Some(s)}
  <2>3. Some(s) \in DOMAIN f
    BY <2>2, SomeIn
  <2>4. t \in SUBSET DOMAIN f /\ Cardinality(t) = n - 1 /\ n > 0 /\ n \in Nat
    BY <2>1, <2>2, SubsetSize
  <2>5. I[t] \in Nat
    BY <2>4, <1>2
  <2>6. I[s] = f[Some(s)] + I[t]
    BY <1>1, <2>2 DEF Adds
  <2> QED
    BY <2>1, <2>3, <2>5, <2>6
<1>3. Bad = {}
  <2> HIDE DEF Bad
  <2>1. Bad \subseteq Nat
    BY DEF Bad
  <2> QED
    BY <2>1, <1>2, Least
<1>4. I[DOMAIN f] \in Nat
  BY <1>3, FS_CardinalityType
<1> QED
  BY <1>4, SumIter DEF I

-----------------------------------------------------------------------------
(* Trends                                                                  *)

\* What the validation of a request does not ask for, but a sensible bill satisfies.
DiscountsCovered == \A s \in Subtotals, d \in Discounts : d <= s

NothingNegative == \A b \in Bills : bill[b].totals.totalAmount \in Nat

LEMMA NothingNegativeInitially == Init => NothingNegative
<1>1. TotalAmount(0, 0) \in Nat
  <2>1. 0 \in Int /\ 0 \in Nat /\ 0 <= 0
    OBVIOUS
  <2>2. TotalAmount(0, 0) \in Int /\ TotalAmount(0, 0) >= 0
    BY <2>1, Fair, Covered
  <2> QED
    BY <2>2
<1> QED
  BY <1>1 DEF Init, NothingNegative, NoBill, calculateBillTotals

LEMMA NothingNegativePreserved ==
  ASSUME DiscountsCovered, Billed, NothingNegative, [Next]_vars PROVE NothingNegative'
<1>1. ASSUME NEW b \in Bills, NEW s \in Subtotals, NEW d \in Discounts, createBill(b, s, d)
      PROVE  NothingNegative'
  <2>1. s \in Nat /\ d \in Nat /\ d <= s
    BY AmountsAssumption DEF DiscountsCovered
  <2> DEFINE T == TotalAmount(s, d)
  <2>2. T \in Nat
    <3>1. s \in Int /\ d \in Int
      BY <2>1
    <3>2. T \in Int /\ T >= 0
      BY <2>1, <3>1, Fair, Covered
    <3> QED
      BY <3>2
  <2>3. bill'[b].totals.totalAmount = T /\ \A a \in Bills \ {b} : bill'[a] = bill[a]
    BY <1>1 DEF createBill, calculateBillTotals, Billed
  <2> QED
    BY <2>2, <2>3 DEF NothingNegative
<1>2. ASSUME \A b \in Bills : bill'[b].totals = bill[b].totals PROVE NothingNegative'
  BY <1>2 DEF NothingNegative
<1>3. ASSUME NEW b \in Bills, \/ confirmBill(b)
                              \/ \E c \in Received : createCashPayment(b, c)
      PROVE  NothingNegative'
  <2>1. PICK r : bill' = [bill EXCEPT ![b] = r] /\ r.totals = bill[b].totals
    <3>1. CASE confirmBill(b)
      <4> DEFINE r == [bill[b] EXCEPT !.status = "CONFIRMED"]
      <4>1. r.totals = bill[b].totals /\ bill' = [bill EXCEPT ![b] = r]
        BY <3>1 DEF confirmBill, Billed, Row
      <4> QED
        BY <4>1
    <3>2. ASSUME NEW c \in Received, createCashPayment(b, c)
          PROVE  \E r : bill' = [bill EXCEPT ![b] = r] /\ r.totals = bill[b].totals
      <4> DEFINE T == bill[b].totals.totalAmount
                 r == [bill[b] EXCEPT !.status = "PAID", !.received = c,
                                      !.change = calculateChange(T, c)]
      <4>1. r.totals = bill[b].totals
        BY DEF Billed, Row
      <4>2. bill' = [bill EXCEPT ![b] = r]
        BY <3>2 DEF createCashPayment
      <4> QED
        BY <4>1, <4>2
    <3> QED
      BY <1>3, <3>1, <3>2
  <2>2. \A a \in Bills : bill'[a].totals = bill[a].totals
    BY <2>1 DEF Billed
  <2> QED
    BY <1>2, <2>2
<1>4. CASE bill' = bill
  BY <1>2, <1>4
<1> QED
  BY <1>1, <1>3, <1>4 DEF Next, vars, Tick, getBillSummary, getBillAnalytics, ReadCurrent,
                          GroupByStatus, CompareAnalytics, ReadPrevious, NextReport

LEMMA RevenueIsNat ==
  ASSUME NothingNegative, NEW S \in SUBSET Bills
  PROVE  Revenue(S) \in Nat /\ (S = {} => Revenue(S) = 0)
<1> DEFINE f == [b \in S |-> bill[b].totals.totalAmount]
<1>1. IsFiniteSet(S) /\ DOMAIN f = S /\ \A b \in S : f[b] \in Nat
  BY BillsAssumption, FS_Subset DEF NothingNegative
<1>2. Revenue(S) = SumFunction(f)
  BY DEF Revenue
<1> HIDE DEF f
<1>3. SumFunction(f) \in Nat
  BY <1>1, SumIsNat
<1>4. S = {} => SumFunction(f) = 0
  BY <1>1, IterAdds, SumIter DEF Adds
<1> QED
  BY <1>2, <1>3, <1>4

LEMMA Times ==
  ASSUME NEW a \in Nat, NEW b \in Nat, NEW n \in Nat, a <= b PROVE a * n <= b * n
  OBVIOUS

\* Two numbers of bills, two revenues, and what the averages are divided by.
Figures(c, p, x, y, n, m) ==
    /\ c \in Nat /\ p \in Nat /\ x \in Nat /\ y \in Nat /\ n \in Nat /\ m \in Nat
    /\ p = 0 => y = 0
    /\ n = IF c = 0 THEN 1 ELSE c
    /\ m = IF p = 0 THEN 1 ELSE p

\* Revenue is number times average: so much of both is more, so little of both is less.
LEMMA TrendsMultiply ==
  ASSUME NEW c, NEW p, NEW x, NEW y, NEW n, NEW m, Figures(c, p, x, y, n, m)
  PROVE  /\ Trend(c, p) = "up" /\ Trend(x * m, y * n) = "up" => Trend(x, y) = "up"
         /\ Trend(c, p) = "down" /\ Trend(x * m, y * n) = "down" => Trend(x, y) = "down"
<1> DEFINE xm == x * m
           yn == y * n
<1>0. /\ c \in Nat /\ p \in Nat /\ x \in Nat /\ y \in Nat /\ (p = 0 => y = 0)
      /\ n \in Nat /\ (c = 0 => n = 1) /\ (c # 0 => n = c)
      /\ m \in Nat /\ (p = 0 => m = 1) /\ (p # 0 => m = p)
  BY DEF Figures
<1>1. xm \in Nat /\ yn \in Nat /\ n > 0 /\ m > 0
  BY <1>0
<1>2. x = 0 => xm = 0
  BY <1>0
<1>3. ASSUME Trend(c, p) = "up", Trend(xm, yn) = "up" PROVE Trend(x, y) = "up"
  <2>1. m <= n
    BY <1>0, <1>3 DEF Trend
  <2>2. 100 * xm > 105 * yn
    <3> HIDE DEF xm, yn
    <3> QED
      BY <1>0, <1>1, <1>3 DEF Trend
  <2>3. y * m <= yn
    BY <1>0, <2>1, Times
  <2>4. 100 * x > 105 * y
    <3> SUFFICES ASSUME 100 * x <= 105 * y PROVE FALSE
      BY <1>0
    <3>1. (100 * x) * m <= (105 * y) * m
      BY <1>0, Times
    <3>2. (100 * x) * m = 100 * xm /\ (105 * y) * m = 105 * (y * m) /\ y * m \in Nat
      BY <1>0
    <3> HIDE DEF xm, yn
    <3> QED
      BY <1>0, <1>1, <2>2, <2>3, <3>1, <3>2
  <2> QED
    BY <1>0, <2>4 DEF Trend
<1>4. ASSUME Trend(c, p) = "down", Trend(xm, yn) = "down" PROVE Trend(x, y) = "down"
  <2>1. n <= m
    BY <1>0, <1>4 DEF Trend
  <2>2. 100 * xm < 95 * yn
    <3> HIDE DEF xm, yn
    <3> QED
      BY <1>0, <1>1, <1>4 DEF Trend
  <2>3. yn <= y * m
    BY <1>0, <2>1, Times
  <2>4. 100 * x < 95 * y
    <3> SUFFICES ASSUME 95 * y <= 100 * x PROVE FALSE
      BY <1>0
    <3>1. (95 * y) * m <= (100 * x) * m
      BY <1>0, Times
    <3>2. (100 * x) * m = 100 * xm /\ (95 * y) * m = 95 * (y * m) /\ y * m \in Nat
      BY <1>0
    <3> HIDE DEF xm, yn
    <3> QED
      BY <1>0, <1>1, <2>2, <2>3, <3>1, <3>2
  <2> QED
    BY <1>0, <2>4 DEF Trend
<1> QED
  BY <1>3, <1>4

\* While no discount is above its subtotal, the trends of every summary agree.  (Otherwise
\* revenue may be negative, and a trend of negative figures means little.)
THEOREM SummaryTrendsAgree == ASSUME DiscountsCovered PROVE Spec => []TrendsAgree
<1>1. ASSUME ReportsInv, NothingNegative PROVE TrendsAgree
  <2> DEFINE c == Cardinality(report.current)
             p == Cardinality(report.previous)
             x == Revenue(report.current)
             y == Revenue(report.previous)
             n == c + IF report.current = {} THEN 1 ELSE 0
             m == p + IF report.previous = {} THEN 1 ELSE 0
  <2>1. report.current \in SUBSET Bills /\ report.previous \in SUBSET Bills
    BY <1>1 DEF ReportsInv, Report
  <2>2. IsFiniteSet(report.current) /\ IsFiniteSet(report.previous)
    BY <2>1, BillsAssumption, FS_Subset
  <2>3. /\ c \in Nat /\ p \in Nat /\ (c = 0 <=> report.current = {})
        /\ p = 0 <=> report.previous = {}
    BY <2>2, FS_CardinalityType, FS_EmptySet
  <2>4. x \in Nat /\ y \in Nat /\ (report.previous = {} => y = 0)
    BY <1>1, <2>1, RevenueIsNat
  <2>5. /\ n \in Nat /\ (c = 0 => n = 1) /\ (c # 0 => n = c)
        /\ m \in Nat /\ (p = 0 => m = 1) /\ (p # 0 => m = p)
    <3> HIDE DEF c, p
    <3> QED
      BY <2>3
  <2>6. BillCountChange = Trend(c, p) /\ RevenueChange = Trend(x, y)
        /\ AvgBillValueChange = Trend(x * m, y * n)
    BY DEF BillCountChange, RevenueChange, AvgBillValueChange
  <2> HIDE DEF c, p, x, y, n, m
  <2>7. Figures(c, p, x, y, n, m)
    BY <2>3, <2>4, <2>5 DEF Figures
  <2>8. /\ Trend(c, p) = "up" /\ Trend(x * m, y * n) = "up" => Trend(x, y) = "up"
        /\ Trend(c, p) = "down" /\ Trend(x * m, y * n) = "down" => Trend(x, y) = "down"
    BY <2>7, TrendsMultiply
  <2> QED
    BY <2>6, <2>8 DEF TrendsAgree
<1>2. Billed /\ NothingNegative /\ [Next]_vars => NothingNegative'
  BY NothingNegativePreserved
<1>3. Spec => []NothingNegative
  BY <1>2, NothingNegativeInitially, BilledInitially, BilledPreserved, PTL DEF Spec
<1>4. ReportsInv /\ NothingNegative => TrendsAgree
  BY <1>1
<1> QED
  BY <1>3, <1>4, ReportsInvariant, PTL
=============================================================================
