----------------------------- MODULE BillReports ----------------------------
(***************************************************************************)
(* The figures the manager is shown: getBillSummary and getBillAnalytics   *)
(* of BillService and BillRepository, computed from bills that are made,   *)
(* confirmed and paid meanwhile.                                           *)
(*                                                                         *)
(* A report is several reads, each an await of its own, of the bills whose *)
(* createdAt is in a window; the windows come from the clock before the    *)
(* first read, or before each.  What a read returns is kept as the set of  *)
(* bills it counted; grouping by day, averages and labels come from that   *)
(* set alone.  BillTotals computes the amounts.                            *)
(***************************************************************************)
EXTENDS BillTotals, FiniteSets, Functions, FiniteSetsExt

CONSTANTS
    Bills,        \* ids a Bill row can get
    Subtotals,    \* sums of price times quantity
    Discounts,    \* discounts in a createBill request
    Received,     \* cash amounts in a createCashPayment request
    Moments,      \* the times at which something happens
    Dates,        \* the dates asked for, at midnight
    Day,          \* units of time in a day; a Sunday begins at 0
    MonthStarts,  \* the times at which a month begins, the one after the last included
    YearAgo(_),   \* setMonth(getMonth() - 12), from one moment to the other
    None          \* no date, no window

ASSUME AmountsAssumption == /\ Subtotals \subseteq Nat /\ Discounts \subseteq Nat
                            /\ Received \subseteq Nat
ASSUME ClockAssumption == /\ Moments \subseteq Nat /\ Dates \subseteq Nat /\ Day \in Nat \ {0}
                          /\ MonthStarts \subseteq Int
\* A month begins before the one of any moment, and after it.
ASSUME MonthsAssumption == \A t \in Moments : \E a, b, c \in MonthStarts : a < b /\ b <= t /\ t < c
ASSUME YearsAssumption == \A t \in Moments : YearAgo(t) \in Int /\ YearAgo(YearAgo(t)) \in Int
ASSUME BillsAssumption == IsFiniteSet(Bills)

VARIABLES
    bill,   \* bill[b]: the Bill row
    now,    \* the clock of the server
    report  \* the report being computed, or answered

vars == <<bill, now, report>>

-----------------------------------------------------------------------------
(* Bills, as far as reports see them                                       *)

BillStatus == {"PENDING", "CONFIRMED", "PAID", "CANCELLED"}

NoBill == [status |-> "NONE", createdAt |-> 0, change |-> 0, received |-> 0,
           totals |-> calculateBillTotals(0, 0)]

Existing == {b \in Bills : bill[b].status # "NONE"}

createBill(b, sub, disc) ==
    /\ bill[b].status = "NONE"
    /\ bill' = [bill EXCEPT ![b] =
                   [status |-> "PENDING", createdAt |-> now, change |-> 0, received |-> 0,
                    totals |-> calculateBillTotals(sub, disc)]]
    /\ UNCHANGED <<now, report>>

confirmBill(b) ==
    /\ bill[b].status = "PENDING"
    /\ bill' = [bill EXCEPT ![b].status = "CONFIRMED"]
    /\ UNCHANGED <<now, report>>

\* (A bill paid through a link, as in BillPayment, looks the same to a report.)
createCashPayment(b, received) ==
    /\ bill[b].status \in {"PENDING", "CONFIRMED"}
    /\ ValidCash(bill[b].totals.totalAmount, received)
    /\ bill' = [bill EXCEPT ![b].status = "PAID", ![b].received = received,
                            ![b].change = calculateChange(bill[b].totals.totalAmount, received)]
    /\ UNCHANGED <<now, report>>

Tick == /\ \E t \in Moments : t > now /\ now' = t
        /\ UNCHANGED <<bill, report>>

-----------------------------------------------------------------------------
(* Windows of time                                                         *)

Periods == {"day", "week", "month"}

\* The start of the day, week (of a Sunday) or month of t, and of the next and the last.
Floor(t, n) == (t \div n) * n
MonthOf(t)  == Max({s \in MonthStarts : s <= t})

CurrentStart(p, t) == CASE p = "day"   -> Floor(t, Day)
                        [] p = "week"  -> Floor(t, 7 * Day)
                        [] p = "month" -> MonthOf(t)

CurrentEnd(p, t) == CASE p = "day"   -> Floor(t, Day) + Day
                      [] p = "week"  -> Floor(t, 7 * Day) + 7 * Day
                      [] p = "month" -> Min({s \in MonthStarts : s > t})

PreviousStart(p, t) == CASE p = "day"   -> Floor(t, Day) - Day
                         [] p = "week"  -> Floor(t, 7 * Day) - 7 * Day
                         [] p = "month" -> MonthOf(MonthOf(t) - 1)

\* From one moment to another: gte and lt, or gte and lte.
HalfOpen(from, to) == [from |-> from, to |-> to, last |-> FALSE]
Closed(from, to)   == [from |-> from, to |-> to, last |-> TRUE]

In(t, w) == /\ w.from <= t
            /\ t < w.to \/ (w.last /\ t = w.to)
Counted(w) == {b \in Existing : In(bill[b].createdAt, w)}

\* 30 days, 12 weeks or 12 months before t.
Back(p, t) == CASE p = "day"   -> t - 30 * Day
                [] p = "week"  -> t - 84 * Day
                [] p = "month" -> YearAgo(t)

-----------------------------------------------------------------------------
(* The reports                                                             *)

Idle == [at |-> "idle", kind |-> "none", period |-> "day", dated |-> FALSE,
         current |-> {}, previous |-> {}, statuses |-> [s \in BillStatus |-> 0],
         window |-> HalfOpen(0, 0), other |-> HalfOpen(0, 0), known |-> {}]

\* Mutant of Previous: the last moment belongs to the period before as well.
PreviousClosed(p, t) == Closed(PreviousStart(p, t), CurrentStart(p, t))
Previous(p, t) == HalfOpen(PreviousStart(p, t), CurrentStart(p, t))

\* The periods are fixed by one reading of the clock.
getBillSummary(p) ==
    /\ report.at = "idle"
    /\ report' = [Idle EXCEPT !.at = "totals", !.kind = "summary", !.period = p,
                              !.window = HalfOpen(CurrentStart(p, now), CurrentEnd(p, now)),
                              !.other = Previous(p, now)]
    /\ UNCHANGED <<bill, now>>

\* The bills of the current window are counted and summed: in one query of analytics,
\* with their status; a summary asks for that next.  (known: the bills there are by
\* then, for the properties.)
ReadCurrent ==
    /\ report.at = "totals"
    /\ report' = [report EXCEPT !.at = IF report.kind = "summary" THEN "statuses" ELSE "compare",
                                !.current = Counted(report.window), !.known = Existing]
    /\ UNCHANGED <<bill, now>>

\* The same window is read again, by status.
GroupByStatus ==
    /\ report.at = "statuses"
    /\ report' = [report EXCEPT !.at = "previous",
          !.statuses = [s \in BillStatus |->
                          Cardinality({b \in Counted(report.window) : bill[b].status = s})]]
    /\ UNCHANGED <<bill, now>>

\* The period before, and the answer: of the summary, and of the analytics below.
ReadPrevious ==
    /\ report.at = "previous"
    /\ report' = [report EXCEPT !.at = "answered", !.previous = Counted(report.other)]
    /\ UNCHANGED <<bill, now>>

\* The dates asked for, moved back by as many days and one more; or the default dates,
\* by a clock that has gone on.
Comparison(p, from, to) ==
    IF from # None /\ to # None
    THEN LET days == -((from - to) \div Day) IN Closed(from - Day - days * Day, from - Day)
    ELSE Closed(Back(p, Back(p, now)), Back(p, now))

\* A date left out is the default one, whatever the other.
getBillAnalytics(p, from, to) ==
    /\ report.at = "idle"
    /\ from # None /\ to # None => from <= to
    /\ report' = [Idle EXCEPT !.at = "totals", !.kind = "analytics", !.period = p,
                              !.dated = from # None /\ to # None,
                              !.window = Closed(IF from = None THEN Back(p, now) ELSE from,
                                                IF to = None THEN now ELSE to)]
    /\ UNCHANGED <<bill, now>>

CompareAnalytics ==
    /\ report.at = "compare"
    /\ report' = [report EXCEPT !.at = "previous",
          !.other = IF report.dated
                    THEN Comparison(report.period, report.window.from, report.window.to)
                    ELSE Comparison(report.period, None, None)]
    /\ UNCHANGED <<bill, now>>

NextReport == report.at = "answered" /\ report' = Idle /\ UNCHANGED <<bill, now>>

-----------------------------------------------------------------------------
(* The figures of an answer                                                *)

Revenue(S) == SumFunction([b \in S |-> bill[b].totals.totalAmount])

\* calculateGrowth, then getTrend, for figures that are not negative: up or down by more
\* than 5 per cent; from nothing, anything is growth of 100 per cent.
Trend(cur, prev) ==
    CASE prev = 0                        -> IF cur > 0 THEN "up" ELSE "stable"
      [] 100 * (cur - prev) >  5 * prev  -> "up"
      [] 100 * (cur - prev) < -5 * prev  -> "down"
      [] OTHER                           -> "stable"

BillCountChange == Trend(Cardinality(report.current), Cardinality(report.previous))
RevenueChange   == Trend(Revenue(report.current), Revenue(report.previous))

\* Mutant of AvgBillValueChange: each revenue is divided by the other number of bills.
AvgOfTheOther ==
    LET n == Cardinality(report.current) + IF report.current = {} THEN 1 ELSE 0
        m == Cardinality(report.previous) + IF report.previous = {} THEN 1 ELSE 0
    IN  Trend(Revenue(report.current) * n, Revenue(report.previous) * m)

\* Averages are compared over a common denominator; the average of no bill is 0.
AvgBillValueChange ==
    LET n == Cardinality(report.current) + IF report.current = {} THEN 1 ELSE 0
        m == Cardinality(report.previous) + IF report.previous = {} THEN 1 ELSE 0
    IN  Trend(Revenue(report.current) * m, Revenue(report.previous) * n)

\* Mutant of PendingBills: confirmed bills are not pending.
PendingOnly(r) == r.statuses["PENDING"]
PendingBills(r) == r.statuses["PENDING"] + r.statuses["CONFIRMED"]

-----------------------------------------------------------------------------
Init == /\ bill = [b \in Bills |-> NoBill]
        /\ now \in Moments
        /\ report = Idle

Next ==
    \/ \E b \in Bills :
          \/ \E s \in Subtotals, d \in Discounts : createBill(b, s, d)
          \/ \E c \in Received : createCashPayment(b, c)
          \/ confirmBill(b)
    \/ Tick
    \/ \E p \in Periods :
          \/ getBillSummary(p)
          \/ \E from, to \in Dates \cup {None} : getBillAnalytics(p, from, to)
    \/ ReadCurrent \/ GroupByStatus \/ CompareAnalytics \/ ReadPrevious \/ NextReport

Spec == Init /\ [][Next]_vars

-----------------------------------------------------------------------------
(* Properties                                                              *)

Answered(kind) == report.at = "answered" /\ report.kind = kind

\* What was billed is what the rates stand for, up to the rounding, and what stays in
\* the drawer for a bill paid in cash is its total.
AmountsAreFair ==
    \A b \in Existing :
        /\ IsFair(bill[b].totals)
        /\ bill[b].received > 0 =>
              bill[b].received - bill[b].change = bill[b].totals.totalAmount

\* Bills are made and paid between the reads of a summary, and still it adds up: the
\* numbers by status come to the number of bills, but for the bills made since.
SummaryAddsUp ==
    Answered("summary") =>
        LET paid == report.statuses["PAID"]
            sum  == paid + PendingBills(report) + report.statuses["CANCELLED"]
        IN  sum - Cardinality(report.current) \in 0..Cardinality(Existing \ report.known)

\* No bill is counted on both sides of a comparison, and none that is recent enough is
\* left out of a summary, however close to midnight it was made or the report asked for.
\* (Without dates analytics compares windows taken from two readings of the clock, which
\* touch or overlap; with dates it leaves out the day between them.)
CountedOnOneSide ==
    /\ Answered("summary") \/ (Answered("analytics") /\ report.dated) =>
          report.current \cap report.previous = {}
    /\ Answered("summary") =>
          report.current \cup report.previous =
              {b \in report.known : /\ report.other.from <= bill[b].createdAt
                                    /\ bill[b].createdAt < report.window.to}

\* The three trends of a summary do not contradict one another: when bills have become
\* more and larger, so has revenue; when fewer and smaller, it has not grown.
TrendsAgree ==
    Answered("summary") =>
        /\ BillCountChange = "up" /\ AvgBillValueChange = "up" => RevenueChange = "up"
        /\ BillCountChange = "down" /\ AvgBillValueChange = "down" => RevenueChange = "down"

-----------------------------------------------------------------------------
(* The inductive invariant of these                                        *)

Window == [from: Int, to: Int, last: BOOLEAN]
Report == [at: {"idle", "totals", "statuses", "compare", "previous", "answered"},
           kind: {"none", "summary", "analytics"}, period: Periods, dated: BOOLEAN,
           current: SUBSET Bills, previous: SUBSET Bills, statuses: [BillStatus -> Nat],
           window: Window, other: Window, known: SUBSET Bills]

Read == report.at \in {"statuses", "compare", "previous", "answered"}

\* A summary compares two periods that meet, at a moment that has passed.
WindowsMeet ==
    report.kind = "summary" =>
        /\ report.other.from <= report.other.to
        /\ report.other.to = report.window.from
        /\ report.window.from <= now
        /\ report.window.from <= report.window.to
        /\ ~report.window.last /\ ~report.other.last /\ report.at # "compare"

\* Analytics with dates compares two periods with a day between them.
DatesApart ==
    report.dated => /\ report.kind = "analytics" /\ report.at # "statuses"
                    /\ report.window.from # None /\ report.window.to # None
                    /\ report.at \in {"previous", "answered"} =>
                          report.other.to < report.window.from

\* What was counted, was: createdAt does not change.  Bills made since belong to no
\* period before.
CountStands ==
    Read => /\ report.known \subseteq Existing
            /\ report.current = {b \in report.known : In(bill[b].createdAt, report.window)}
            /\ report.kind = "summary" =>
                  \A b \in Existing \ report.known : report.window.from <= bill[b].createdAt

\* The numbers by status are those of the bills counted and of some made since.
StatusesCount ==
    report.kind = "summary" /\ report.at \in {"previous", "answered"} =>
        \E S \in SUBSET Existing :
            /\ S \cap report.known = report.current
            /\ Cardinality(S) = report.statuses["PENDING"] + report.statuses["CONFIRMED"]
                                  + report.statuses["PAID"] + report.statuses["CANCELLED"]

\* The bills of the period before; a summary already knew them.
BeforeStands ==
    report.at = "answered" =>
        /\ report.previous \subseteq Existing
        /\ \A b \in report.previous : In(bill[b].createdAt, report.other)
        /\ report.kind = "summary" =>
              report.previous = {b \in report.known : In(bill[b].createdAt, report.other)}

\* All a report holds agrees with the bills there are, at every step of it.
ReportsInv == /\ now \in Moments /\ report \in Report
              /\ WindowsMeet /\ DatesApart /\ CountStands /\ StatusesCount /\ BeforeStands
=============================================================================
