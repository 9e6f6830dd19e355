---------------------------- MODULE BillPayment ----------------------------
(***************************************************************************)
(* Taking money for a bill: BillService (bill.service.ts), the payment     *)
(* half of BillRepository (bill.repo.ts) and the PayOS gateway behind      *)
(* PayOSService.  Every request is a handler that runs in its own slot and *)
(* can be interleaved with the others at each await: one action is one     *)
(* database call or one gateway call, and what a handler decided from a    *)
(* row it read is kept in its slot, so it may be stale when it is used.    *)
(*                                                                         *)
(* A payment p stands for one Payment row and, when it is a bank transfer, *)
(* for the PayOS link whose orderCode is the row's payosOrderId.           *)
(***************************************************************************)
EXTENDS Naturals

CONSTANTS
    Bills,        \* bills created by BillService.createBill, all of them PENDING at first
    Tables,       \* dining tables
    TableOf,      \* TableOf[b]: the table bill b was made for (bill.tableNumber)
    Pays,         \* ids a payment can get (autoincrement), a bound on the payments made
    Reqs,         \* request slots, a bound on the handlers in flight together
    MaxFailures,  \* bound on the handlers that stop half-way (crash, lost connection)
    None          \* no bill, no payment

ASSUME PaysAssumption == Pays \subseteq Nat
ASSUME TableOfAssumption == TableOf \in [Bills -> Tables]
ASSUME FailuresAssumption == MaxFailures \in Nat
ASSUME NoneAssumption == None \notin Bills /\ None \notin Pays

VARIABLES
    bill,      \* bill[b]: the Bill row's status and paymentMethod
    orders,    \* orders[b]: the status shared by the orders linked to b
    tables,    \* tables[t]: the Table row's status
    pay,       \* pay[p]: the Payment row, NoRow before it is inserted
    link,      \* link[p]: the state of p's payment link at PayOS
    notices,   \* the webhooks PayOS has sent
    acked,     \* payments whose PAID webhook has been answered 2xx
    hearsay,   \* history: what redirects said, and were believed, against the link
    req,       \* req[r]: where the handler in slot r stands and what it holds
    failures   \* handlers stopped half-way so far

vars == <<bill, orders, tables, pay, link, notices, acked, hearsay, req, failures>>
db   == <<bill, orders, tables, pay>>     \* what the database holds
told == <<notices, acked, hearsay>>       \* what has been said of payments

-----------------------------------------------------------------------------
BillStatus    == {"PENDING", "CONFIRMED", "PAID"}
PaymentMethod == {"CASH", "BANK_TRANSFER"}
PaymentStatus == {"PENDING", "PAID", "FAILED", "CANCELLED"}
TableStatus   == {"AVAILABLE", "UNAVAILABLE", "OCCUPIED", "CLEANING"}
LinkStatus    == {"NONE", "OPEN", "PAID", "CANCELLED", "EXPIRED"}

\* A webhook body or the query of a redirect, reduced to what the handlers look at.
Notice == [pay: Pays, result: {"PAID", "FAILED", "CANCELLED"}]

NoRow   == [status |-> "NONE", method |-> "NONE", bill |-> None]
Payment == [status: PaymentStatus \cup {"NONE"}, method: PaymentMethod \cup {"NONE"},
            bill: Bills \cup {None}]

\* at: the call the handler makes next.  op: confirm, the method it charges with, or
\* webhook for one that PayOS waits on.
\* to: the status it has decided to write in the payment row.
Handler == [at: {"idle", "confirm", "reread", "charge", "insert",
                 "query", "revoke", "mark", "settle"},
            op: {"none", "confirm", "webhook"} \cup PaymentMethod,
            bill: Bills \cup {None}, pay: Pays \cup {None},
            to: PaymentStatus \cup {"NONE"}]

Idle == [at |-> "idle", op |-> "none", bill |-> None, pay |-> None, to |-> "NONE"]
OnBill(b, op, at) == [Idle EXCEPT !.at = at, !.op = op, !.bill = b]
OnPay(p, at, to)  == [Idle EXCEPT !.at = at, !.pay = p, !.to = to]

Exists(p) == pay[p].status # "NONE"
Free(p)   == ~Exists(p) /\ link[p] = "NONE"
NewId(p)  == Free(p) /\ \A q \in Pays : Free(q) => p <= q

TypeOK ==
    /\ bill \in [Bills -> [status: BillStatus, method: PaymentMethod \cup {"NONE"}]]
    /\ orders \in [Bills -> {"DELIVERED", "COMPLETED"}]
    /\ tables \in [Tables -> TableStatus]
    /\ pay \in [Pays -> Payment]
    /\ link \in [Pays -> LinkStatus]
    /\ notices \subseteq Notice /\ acked \subseteq Pays /\ hearsay \subseteq Notice
    /\ req \in [Reqs -> Handler]
    /\ failures \in 0..MaxFailures

Init ==
    /\ bill = [b \in Bills |-> [status |-> "PENDING", method |-> "NONE"]]
    /\ orders = [b \in Bills |-> "DELIVERED"]
    /\ tables = [t \in Tables |-> "OCCUPIED"]
    /\ pay = [p \in Pays |-> NoRow]
    /\ link = [p \in Pays |-> "NONE"]
    /\ notices = {} /\ acked = {} /\ hearsay = {}
    /\ req = [r \in Reqs |-> Idle]
    /\ failures = 0

-----------------------------------------------------------------------------
(* confirmBill, createCashPayment, createPayOSPayment                      *)

\* Mutant of ReadToConfirm: the check that the bill is PENDING is gone.
ReadToConfirmUnguarded(r, b) ==
    /\ req[r].at = "idle"
    /\ req' = [req EXCEPT ![r] = OnBill(b, "confirm", "confirm")]
    /\ UNCHANGED <<db, link, told, failures>>

\* confirmBill reads the bill; any status but PENDING is answered 409.
ReadToConfirm(r, b) ==
    /\ req[r].at = "idle"
    /\ bill[b].status = "PENDING"
    /\ req' = [req EXCEPT ![r] = OnBill(b, "confirm", "confirm")]
    /\ UNCHANGED <<db, link, told, failures>>

\* The two payment handlers read the bill.  A PENDING bill is confirmed first,
\* a CONFIRMED one is charged, a PAID one is answered 409.
ReadToCharge(r, b, m) ==
    /\ req[r].at = "idle"
    /\ \/ /\ bill[b].status = "PENDING"
          /\ req' = [req EXCEPT ![r] = OnBill(b, m, "confirm")]
       \/ /\ bill[b].status = "CONFIRMED"
          /\ req' = [req EXCEPT ![r] = OnBill(b, m, "charge")]
    /\ UNCHANGED <<db, link, told, failures>>

\* updateBill(id, CONFIRMED): the row is written whatever its status is by now.
WriteConfirmed(r) ==
    /\ req[r].at = "confirm"
    /\ bill' = [bill EXCEPT ![req[r].bill].status = "CONFIRMED"]
    /\ req' = [req EXCEPT ![r] = IF req[r].op = "confirm" THEN Idle
                                 ELSE [req[r] EXCEPT !.at = "reread"]]
    /\ UNCHANGED <<orders, tables, pay, link, told, failures>>

\* The bill is read again and must be CONFIRMED.
Reread(r) ==
    /\ req[r].at = "reread"
    /\ req' = [req EXCEPT ![r] = IF bill[req[r].bill].status = "CONFIRMED"
                                 THEN [req[r] EXCEPT !.at = "charge"] ELSE Idle]
    /\ UNCHANGED <<db, link, told, failures>>

\* validatePaymentAmount finds too little cash, or PayOS refuses to make the link.
RefuseCharge(r) ==
    /\ req[r].at = "charge"
    /\ req' = [req EXCEPT ![r] = Idle]
    /\ UNCHANGED <<db, link, told, failures>>

\* Mutant of ChargeCash: the call of completeBillPayment is forgotten.
ChargeCashOnly(r) ==
    /\ req[r].at = "charge" /\ req[r].op = "CASH"
    /\ \E p \in Pays :
        /\ NewId(p)
        /\ pay' = [pay EXCEPT ![p] =
                     [status |-> "PAID", method |-> "CASH", bill |-> req[r].bill]]
    /\ req' = [req EXCEPT ![r] = Idle]
    /\ UNCHANGED <<bill, orders, tables, link, told, failures>>

\* createPayment for cash: the row is PAID from the start, completion comes after.
ChargeCash(r) ==
    /\ req[r].at = "charge" /\ req[r].op = "CASH"
    /\ \E p \in Pays :
        /\ NewId(p)
        /\ pay' = [pay EXCEPT ![p] =
                     [status |-> "PAID", method |-> "CASH", bill |-> req[r].bill]]
        /\ req' = [req EXCEPT ![r] = OnPay(p, "settle", "PAID")]
    /\ UNCHANGED <<bill, orders, tables, link, told, failures>>

\* createPaymentLink: PayOS opens a link under a fresh order code.
OpenLink(r) ==
    /\ req[r].at = "charge" /\ req[r].op = "BANK_TRANSFER"
    /\ \E p \in Pays :
        /\ NewId(p)
        /\ link' = [link EXCEPT ![p] = "OPEN"]
        /\ req' = [req EXCEPT ![r].at = "insert", ![r].pay = p]
    /\ UNCHANGED <<db, told, failures>>

\* createPayment for the link; the checkout URL is returned to the client.
InsertPending(r) ==
    /\ req[r].at = "insert"
    /\ pay' = [pay EXCEPT ![req[r].pay] = [status |-> "PENDING", method |-> "BANK_TRANSFER",
                                           bill |-> req[r].bill]]
    /\ req' = [req EXCEPT ![r] = Idle]
    /\ UNCHANGED <<bill, orders, tables, link, told, failures>>

-----------------------------------------------------------------------------
(* handlePayOSWebhook, handlePayOSReturn, handlePayOSCancel                *)

\* Mutants of Unprocessed: the check is gone, or asks for a PENDING row.
AlwaysUnprocessed(p) == TRUE
StillPending(p)      == pay[p].status = "PENDING"

\* The webhook and the return handler skip a row that is PAID already; a success
\* code decides for PAID, anything else for FAILED, or CANCELLED on a cancelled return.
Unprocessed(p) == pay[p].status # "PAID"

Decide(r, op, n) ==
    req' = [req EXCEPT ![r] = [OnPay(n.pay, "mark", n.result) EXCEPT !.op = op]]

\* A webhook is signed by PayOS, so it is one PayOS has sent; a row that is PAID already
\* is answered 200 at once.
HandlePayOSWebhook(r, n) ==
    /\ req[r].at = "idle" /\ n \in notices /\ Exists(n.pay)
    /\ \/ Unprocessed(n.pay) /\ Decide(r, "webhook", n) /\ UNCHANGED acked
       \/ /\ ~Unprocessed(n.pay) /\ n.result = "PAID"
          /\ acked' = acked \cup {n.pay} /\ UNCHANGED req
    /\ UNCHANGED <<db, link, notices, hearsay, failures>>

\* What the link has come to, when somebody says it is paid or given up.
LinkSays(p, result) == /\ pay[p].method = "BANK_TRANSFER"
                       /\ result = "PAID" => link[p] = "PAID"
                       /\ result = "CANCELLED" => link[p] \in {"CANCELLED", "EXPIRED"}

\* A redirect is a public GET, and the handlers take its query at its word: PayOS is not
\* asked.  A URL opened again, or late, or put together wrongly, says anything of any
\* transfer, the link being what it is; hearsay keeps what was said against it.
TakeRedirect(r, n) ==
    /\ req[r].at = "idle" /\ pay[n.pay].method = "BANK_TRANSFER"
    /\ Decide(r, "none", n)
    /\ hearsay' = IF LinkSays(n.pay, n.result) THEN hearsay ELSE hearsay \cup {n}
    /\ UNCHANGED <<db, link, notices, acked, failures>>

HandlePayOSReturn(r, n) == Unprocessed(n.pay) /\ TakeRedirect(r, n)

\* The cancel redirect acts on a PENDING row only, and cancels whatever its query says.
HandlePayOSCancel(r, n) ==
    pay[n.pay].status = "PENDING" /\ n.result = "CANCELLED" /\ TakeRedirect(r, n)

(* getPaymentStatus *)

\* A PENDING bank transfer is looked up at PayOS ...
ReadStatus(r, p) ==
    /\ req[r].at = "idle"
    /\ pay[p].method = "BANK_TRANSFER" /\ pay[p].status = "PENDING"
    /\ req' = [req EXCEPT ![r] = OnPay(p, "query", "NONE")]
    /\ UNCHANGED <<db, link, told, failures>>

\* Mutant of SyncsToPaid: any link that is not dead counts as paid.
SyncsUnlessDead(p) == link[p] \in {"OPEN", "PAID"}

\* ... and marked PAID when the link is; any other answer changes nothing.
SyncsToPaid(p) == link[p] = "PAID"

\* Mutant of QueryLink: the status PayOS gives is written as it is (EXPIRED and all).
QueryLinkAsIs(r) ==
    /\ req[r].at = "query"
    /\ req' = [req EXCEPT ![r] = OnPay(req[r].pay, "mark", link[req[r].pay])]
    /\ UNCHANGED <<db, link, told, failures>>

QueryLink(r) ==
    /\ req[r].at = "query"
    /\ req' = [req EXCEPT ![r] = IF SyncsToPaid(req[r].pay)
                                 THEN OnPay(req[r].pay, "mark", "PAID") ELSE Idle]
    /\ UNCHANGED <<db, link, told, failures>>

(* cancelPayOSPayment *)

\* Mutant of ReadToCancel: the row is marked without asking PayOS.
ReadToCancelLocally(r, p) ==
    /\ req[r].at = "idle"
    /\ pay[p].method = "BANK_TRANSFER" /\ pay[p].status # "PAID"
    /\ req' = [req EXCEPT ![r] = OnPay(p, "mark", "CANCELLED")]
    /\ UNCHANGED <<db, link, told, failures>>

ReadToCancel(r, p) ==
    /\ req[r].at = "idle"
    /\ pay[p].method = "BANK_TRANSFER" /\ pay[p].status # "PAID"
    /\ req' = [req EXCEPT ![r] = OnPay(p, "revoke", "CANCELLED")]
    /\ UNCHANGED <<db, link, told, failures>>

\* PayOS cancels a link that is not paid or expired; otherwise its error ends the handler.
Revocable(p) == link[p] \in {"OPEN", "CANCELLED"}

RevokeLink(r) ==
    /\ req[r].at = "revoke"
    /\ IF Revocable(req[r].pay)
       THEN /\ link' = [link EXCEPT ![req[r].pay] = "CANCELLED"]
            /\ req' = [req EXCEPT ![r].at = "mark"]
       ELSE /\ req' = [req EXCEPT ![r] = Idle]
            /\ UNCHANGED link
    /\ UNCHANGED <<db, told, failures>>

-----------------------------------------------------------------------------
(* What the handlers above do to the database                              *)

\* Mutant of MarkPayment: nothing is completed after a PAID is written.
MarkPaymentOnly(r) ==
    /\ req[r].at = "mark"
    /\ pay' = [pay EXCEPT ![req[r].pay].status = req[r].to]
    /\ req' = [req EXCEPT ![r] = Idle]
    /\ UNCHANGED <<bill, orders, tables, link, told, failures>>

\* updatePayment: the row's status is overwritten, whatever it is by now.
MarkPayment(r) ==
    /\ req[r].at = "mark"
    /\ pay' = [pay EXCEPT ![req[r].pay].status = req[r].to]
    /\ req' = [req EXCEPT ![r] = IF req[r].to = "PAID"
                                 THEN [req[r] EXCEPT !.at = "settle"] ELSE Idle]
    /\ UNCHANGED <<bill, orders, tables, link, told, failures>>

\* completeBillPayment: payment, bill, its orders and its table, in one transaction.
\* The webhook's handler then answers 200.
CompleteBillPayment(r) ==
    LET p == req[r].pay
        b == pay[p].bill
    IN /\ req[r].at = "settle"
       /\ pay' = [pay EXCEPT ![p].status = "PAID"]
       /\ bill' = [bill EXCEPT ![b] = [status |-> "PAID", method |-> pay[p].method]]
       /\ orders' = [orders EXCEPT ![b] = "COMPLETED"]
       /\ tables' = [tables EXCEPT ![TableOf[b]] = "CLEANING"]
       /\ acked' = IF req[r].op = "webhook" THEN acked \cup {p} ELSE acked
       /\ req' = [req EXCEPT ![r] = Idle]
       /\ UNCHANGED <<link, notices, hearsay, failures>>

\* A handler stops at an await: the call fails, or the server goes down.  A webhook is
\* then answered 400 or not at all, and PayOS will send it again.
Fail(r) ==
    /\ req[r].at # "idle"
    /\ failures < MaxFailures
    /\ failures' = failures + 1
    /\ req' = [req EXCEPT ![r] = Idle]
    /\ UNCHANGED <<db, link, told>>

-----------------------------------------------------------------------------
(* PayOS and the customer.  A link can be used once its checkout URL has    *)
(* been handed out, that is once the row is there.  A webhook once sent may *)
(* arrive late, more than once, or never: notices are never taken back.     *)

GatewayPaid(p) ==
    /\ Exists(p) /\ link[p] = "OPEN"
    /\ link' = [link EXCEPT ![p] = "PAID"]
    /\ notices' = notices \cup {[pay |-> p, result |-> "PAID"]}
    /\ UNCHANGED <<db, acked, hearsay, req, failures>>

\* A failed attempt; the link stays open for another one.
GatewayAttemptFailed(p) ==
    /\ Exists(p) /\ link[p] = "OPEN"
    /\ notices' = notices \cup {[pay |-> p, result |-> "FAILED"]}
    /\ UNCHANGED <<db, link, acked, hearsay, req, failures>>

\* The customer cancels on the checkout page (and the browser may be sent to the cancel
\* or the return URL), or the link's time is over.
GatewayGivenUp(p) ==
    /\ link[p] = "OPEN"
    /\ \/ Exists(p) /\ link' = [link EXCEPT ![p] = "CANCELLED"]
       \/ link' = [link EXCEPT ![p] = "EXPIRED"]
    /\ UNCHANGED <<db, told, req, failures>>

\* The table's other users: staff sets any status at any time, and an order that found
\* the table fit writes OCCUPIED some awaits later, whatever it has become.
SetTable(t, s) ==
    /\ tables[t] # s
    /\ tables' = [tables EXCEPT ![t] = s]
    /\ UNCHANGED <<bill, orders, pay, link, told, req, failures>>

-----------------------------------------------------------------------------
Continue(r) ==
    \/ WriteConfirmed(r) \/ Reread(r) \/ RefuseCharge(r) \/ ChargeCash(r)
    \/ OpenLink(r) \/ InsertPending(r) \/ QueryLink(r) \/ RevokeLink(r)
    \/ MarkPayment(r) \/ CompleteBillPayment(r)

Receive(r) ==
    \/ \E b \in Bills : ReadToConfirm(r, b)
    \/ \E b \in Bills, m \in PaymentMethod : ReadToCharge(r, b, m)
    \/ \E n \in Notice :
          HandlePayOSWebhook(r, n) \/ HandlePayOSReturn(r, n) \/ HandlePayOSCancel(r, n)
    \/ \E p \in Pays : ReadStatus(r, p) \/ ReadToCancel(r, p)

Gateway == \E p \in Pays : GatewayPaid(p) \/ GatewayAttemptFailed(p) \/ GatewayGivenUp(p)

Next == \/ \E r \in Reqs : Receive(r) \/ Continue(r) \/ Fail(r)
        \/ Gateway
        \/ \E t \in Tables, s \in TableStatus : SetTable(t, s)

Spec == Init /\ [][Next]_vars

\* The server finishes what it has started, and PayOS sends the webhook of a paid link
\* again until it is answered 2xx, no longer (SF: a slot is free again and again).
WebhookTaken(p) ==
    p \notin acked /\ \E r \in Reqs : HandlePayOSWebhook(r, [pay |-> p, result |-> "PAID"])

Fairness == /\ \A r \in Reqs : WF_vars(Continue(r))
            /\ \A p \in Pays : SF_vars(WebhookTaken(p))

FairSpec == Spec /\ Fairness

-----------------------------------------------------------------------------
(* Properties                                                              *)

\* Money for p has been handed over: in cash, or through its link.
Collected(p) == pay[p].method = "CASH" \/ link[p] = "PAID"

\* A redirect has said so of p, against the link.
SaidOnly(p, result) == [pay |-> p, result |-> result] \in hearsay

\* What a record of p as PAID rests on.
Backed(p) == Collected(p) \/ SaidOnly(p, "PAID")

\* A bill is PAID, and says by which method, only if a payment of it by that method was
\* made, or a redirect said so.
PaidBillIsBacked ==
    \A b \in Bills : bill[b].status = "PAID" =>
        \E p \in Pays : /\ pay[p].bill = b
                        /\ pay[p].method = bill[b].method
                        /\ Backed(p)

\* A payment row is PAID only if the payment was made, or a redirect said so.
PaidPaymentIsBacked ==
    \A p \in Pays : pay[p].status = "PAID" => Backed(p)

\* However stale what a handler read, neither a bill nor a payment is recorded as PAID
\* that nobody paid (completeBillPayment is reached by cash, webhook, return and poll
\* alike), but for one thing: a return URL that says PAID of an unpaid link is believed
\* (bill.service.ts:684), whoever opens it.
PaidIsBacked == PaidBillIsBacked /\ PaidPaymentIsBacked

\* A row is CANCELLED only when its link can no longer be paid, so that money never goes
\* to a payment the system has given up; but for a return or cancel URL opened while the
\* link is not given up: the row is CANCELLED (bill.service.ts:705, :751), the link is not.
CancelledPaymentIsDead ==
    \A p \in Pays : pay[p].status = "CANCELLED" =>
        link[p] \in {"CANCELLED", "EXPIRED"} \/ SaidOnly(p, "CANCELLED")

\* What makes the three inductive: what the rows, the webhooks and the slots of running
\* handlers say about the links.  A handler's decision may be stale, but it can only be
\* stale about rows: a link that is paid or given up stays so.
RowsMatch ==
    \A p \in Pays : /\ Exists(p) <=> pay[p].bill \in Bills
                    /\ Exists(p) <=> pay[p].method # "NONE"
                    /\ pay[p].method = "CASH" => link[p] = "NONE"
                    /\ pay[p].method = "BANK_TRANSFER" => link[p] # "NONE"

NoticesMatch == \A n \in notices : LinkSays(n.pay, n.result)

\* Hearsay is about transfers: the rows of cash have no order code to be found by.
HearsayMatches == \A n \in hearsay : pay[n.pay].method = "BANK_TRANSFER"

SlotMatches(h) ==
    /\ h.at \in {"confirm", "reread", "charge", "insert"} => h.bill \in Bills
    /\ h.at \in {"query", "revoke"} =>
          h.pay \in Pays /\ pay[h.pay].method = "BANK_TRANSFER"
    /\ h.at = "revoke" => h.to = "CANCELLED"
    /\ h.at = "mark" => /\ h.pay \in Pays
                        /\ h.to \in {"PAID", "FAILED", "CANCELLED"}
                        /\ LinkSays(h.pay, h.to) \/ SaidOnly(h.pay, h.to)
    /\ h.at = "settle" => h.pay \in Pays /\ Exists(h.pay) /\ Backed(h.pay)

HandlersMatch == \A r \in Reqs : SlotMatches(req[r])

\* A slot about to insert a row is the only one to hold that row's id.
InsertsMatch ==
    \A r \in Reqs : req[r].at = "insert" =>
        /\ req[r].pay \in Pays /\ ~Exists(req[r].pay) /\ link[req[r].pay] # "NONE"
        /\ \A s \in Reqs : req[s].at = "insert" /\ req[s].pay = req[r].pay => s = r

BackedInv == /\ RowsMatch /\ NoticesMatch /\ HearsayMatches /\ HandlersMatch /\ InsertsMatch
             /\ PaidBillIsBacked /\ PaidPaymentIsBacked /\ CancelledPaymentIsDead

\* Handlers, webhooks, retries and stops aside, payments are taken as the ledger promises:
\* whatever overlaps, the money of a payment is collected or given up once, the rows say
\* of it what became of it, and bills are settled by what has been collected; or by
\* hearsay, which enters the books only where a redirect spoke against the link.
Money(p) ==
    IF Collected(p) THEN "COLLECTED"
    ELSE CASE link[p] = "OPEN" -> "ASKED"
           [] link[p] \in {"CANCELLED", "EXPIRED"} -> "VOID"
           [] OTHER -> "NONE"

Settled(b) == IF bill[b].status = "PAID" THEN bill[b].method ELSE "NO"

Ledger == INSTANCE PaymentLedger WITH
             money <- [p \in Pays |-> Money(p)],
             book <- pay,
             hearsay <- hearsay,
             settled <- [b \in Bills |-> Settled(b)]

KeepsTheLedger == Ledger!Spec

AtRest == \A r \in Reqs : req[r].at = "idle"

\* When nothing is running, a PAID payment has its bill PAID and the orders COMPLETED.
SettledAtRest ==
    AtRest => \A p \in Pays : pay[p].status = "PAID" =>
                 bill[pay[p].bill].status = "PAID" /\ orders[pay[p].bill] = "COMPLETED"

\* What is PAID stays PAID: confirmBill and the auto-confirmation are for PENDING bills, and
\* a PAID payment is neither processed again nor cancelled, whatever notices come late.
\* (For handlers that do not overlap: a confirmation that read the bill PENDING writes
\* CONFIRMED after it was paid.)
PaidStaysPaid ==
    [][ /\ \A b \in Bills : bill[b].status = "PAID" => bill'[b].status = "PAID"
        /\ \A p \in Pays : pay[p].status = "PAID" => pay'[p].status = "PAID" ]_vars

\* Two payments of one bill are recorded as PAID.
PaidTwice(b) ==
    \E p, q \in Pays : /\ p # q /\ pay[p].bill = b /\ pay[q].bill = b
                       /\ pay[p].status = "PAID" /\ pay[q].status = "PAID"

\* A handler sends a table with guests to CLEANING only with the payment that settles its
\* bill: a repeated webhook, return or poll does not clear the table of the next guests.
\* (The second payment of a bill paid twice does: charging looks at no other payment.
\* Staff may set any status, which is not a step of a handler here.)
OccupiedTableClearedOnce ==
    [][\A t \in Tables : tables[t] = "OCCUPIED" /\ tables'[t] = "CLEANING" /\ req' # req =>
          \E b \in Bills : /\ TableOf[b] = t
                           /\ \/ bill[b].status # "PAID" /\ bill'[b].status = "PAID"
                              \/ PaidTwice(b)]_vars

\* A paid link PayOS has had no 2xx for gets its row recorded as PAID, whatever reads are
\* stale and whatever stops: the webhook comes again until a handler has seen it through
\* or found the row PAID.  It does not say for good: a handler that holds an older FAILED
\* may still write it after the 2xx, and nothing comes again to undo that.
PaidLinkIsRecorded ==
    \A p \in Pays : (link[p] = "PAID" /\ p \notin acked) ~> pay[p].status = "PAID"

\* Money paid through a link reaches the bill, some time after, if no handler stops
\* half-way: no interleaving of handlers alone keeps the transaction that completes the
\* bill from being run.  (It shows in the orders, which stay COMPLETED; the bill itself
\* may be taken back to CONFIRMED, see PaidStaysPaid.)
PaidLinkReachesBill ==
    \A p \in Pays, b \in Bills :
        (link[p] = "PAID" /\ pay[p].bill = b) ~> (orders[b] = "COMPLETED" \/ failures > 0)

\* The same whatever stops: the repeated webhook makes up for a handler that was lost.
RetryReachesBill ==
    \A p \in Pays, b \in Bills :
        (link[p] = "PAID" /\ pay[p].bill = b) ~> (orders[b] = "COMPLETED")

-----------------------------------------------------------------------------
(* What makes SettledAtRest, PaidStaysPaid and OccupiedTableClearedOnce    *)
(* inductive when handlers do not overlap.                                 *)

\* A payment other than p is recorded as PAID for p's bill.
AnotherPaid(p) == \E q \in Pays \ {p} : pay[q].status = "PAID" /\ pay[q].bill = pay[p].bill

\* What the handler has read of bill and payment has not changed under it, and a payment
\* about to settle a bill that is PAID is not the one that has settled it.
ReadStillHolds(h) ==
    /\ h.at = "confirm" => bill[h.bill].status = "PENDING"
    /\ h.at = "charge" => bill[h.bill].status = "CONFIRMED"
    /\ h.at \in {"query", "revoke", "mark"} => pay[h.pay].status # "PAID"
    /\ h.at = "settle" => /\ pay[h.pay].status = "PAID"
                          /\ bill[pay[h.pay].bill].status = "PAID" => AnotherPaid(h.pay)

\* A PAID bill has a PAID payment; a PAID payment has settled its bill, is about to, or
\* some handler has stopped.
PaidByPayment ==
    \A b \in Bills : bill[b].status = "PAID" =>
        \E p \in Pays : pay[p].status = "PAID" /\ pay[p].bill = b

SettledOrAbout ==
    \A p \in Pays : pay[p].status = "PAID" =>
        \/ bill[pay[p].bill].status = "PAID" /\ orders[pay[p].bill] = "COMPLETED"
        \/ \E r \in Reqs : req[r].at = "settle" /\ req[r].pay = p
        \/ failures > 0

SequentialInv == /\ \A r \in Reqs : ReadStillHolds(req[r])
                 /\ PaidByPayment /\ SettledOrAbout
=============================================================================
