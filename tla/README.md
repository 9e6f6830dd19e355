# QOS-BE in TLA+

A verification development for the restaurant ordering backend (NestJS, Prisma,
PostgreSQL). Guests scan a table's QR code and order; the kitchen and the staff move
the orders along; the staff makes a bill from what was served and takes the money, in
cash or through a PayOS payment link. The code runs every request as an `async`
handler: each `await` of a Prisma call is one database transaction, each `await` of the
PayOS client one remote call, and handlers interleave freely between them. Nothing is
locked across two awaits, no row is updated on a condition on its old status. What the
handlers read is therefore old when they use it, and that is the subject of most of
these modules.

Paths below are relative to the application sources, `src/` of the repository
(`prisma/` is beside it).

## Inventory

| Component | State | Operations | Hard about it | What makes it correct |
|---|---|---|---|---|
| Bill payment (`routes/bill/bill.service.ts`, `bill.repo.ts`) | `Bill.status`, `Payment` rows | confirm, cash, PayOS link, webhook, return, cancel redirect, poll, cancel | check and write in different awaits; the webhook, the return page and the poll do the same work at once; a stop between two writes | PAID only with money behind it; money in ends at a PAID bill, once; nothing PAID is taken back |
| PayOS client (`shared/payos.service.ts`) | the link, at PayOS | create, query, cancel, verify webhook | late, repeated, lost, overtaken webhooks; redirects that may say anything | order codes tell payments apart |
| Bill creation (`createBill`, `createBillWithOrders`) | `Bill`, `Order.billId` | read the orders, insert and link | the orders change between the two | an order is billed once, after being served, for what it cost |
| Bill arithmetic (`bill.utils.ts`) | none | totals, cash validation, change | three roundings, discount in the tax base | close to the exact amounts; the drawer balances |
| Bill reports (`getBillSummary`, `getBillAnalytics`) | none: windows of time and several reads | read, compare, name trends | bills change between the reads; windows touch at midnight | the parts add up; no bill on both sides; trends agree |
| Orders (`routes/order`) | `Order`, `DishSnapshot`, `Table.status` | create, update, status, deliver, delete | create is five awaits over three tables; any status follows any other | all of an order or nothing; dishes as they were on the menu |
| Socket events (`websockets`) | rooms | events about orders | sent after a second read nobody waits for; overtaking | everybody concerned is told the final state |
| Tables (`routes/table`) | `Table` | create, update, status, delete | number checked, then inserted | one row per number; orders only at tables in use |
| Guest sessions (`routes/guest`) | `Guest.refreshToken` | login, refresh, logout | last write wins; the table's status is read first and used throughout | the row keeps a current token, wherever a request stops |
| Dishes and categories | `Dish`, `Category` | create, update, delete | edited while orders copy them | see orders |
| Staff sessions (`routes/auth`, cron job) | `Device`, `RefreshToken` | login, refresh, logout, nightly clean-up | delete and insert side by side in `Promise.all`; concurrent refreshes | one usable token per session, dead after logout |
| Accounts and one-time codes (`routes/account`, `routes/auth`) | `User`, `VerificationCode` | create, update, delete, change and reset password, send code | the role is checked, then the row written; a code is validated and removed in different calls | a code is good for one reset; the password people are told works; admins are changed by who acts as an admin |
| Roles, permissions, guard, seed scripts | `Role`, `Permission`, the admin role's id in memory | create, update, delete; access check; `create-permissions` | cached id, soft-deleted permissions, names as identity | base roles stay; the script leaves the admin role with what is served |
| Notifications, media, S3, e-mail, health | rows, files | input and output | little | |

Interaction: orders occupy tables and copy dishes into snapshots; bill creation reads
orders and links them; `completeBillPayment` is the one transaction that joins payment,
bill, orders and table; the guards read what roles and permissions write; the order
service calls the gateways. `PROJECT.json` lists every component with its status and
every hazard with its line.

## Modules

### BillPayment (with `MCBillPayment`, `BillPayment_proofs`)

| State | Code |
|---|---|
| `bill[b]` | `Bill.status`, `Bill.paymentMethod` |
| `orders[b]` | the status of the orders linked to b (they only change together here) |
| `tables[t]` | `Table.status` |
| `pay[p]` | a `Payment` row; a bank transfer's row and its link share the id, as the code matches them by `payosOrderId` |
| `link[p]` | the link at PayOS |
| `notices` | webhooks PayOS has sent: never removed, so each may arrive late, repeatedly, out of order or never |
| `acked` | payments whose PAID webhook has been answered 2xx, after which PayOS sends it no more |
| `hearsay` | history: what redirects said of a payment, against its link |
| `req[r]` | a handler in flight: the call it makes next and what it holds from earlier reads |

Every handler is cut at its awaits. `ReadToConfirm`, `ReadToCharge`, `ReadStatus`,
`ReadToCancel`, `HandlePayOSWebhook`, `HandlePayOSReturn` and `HandlePayOSCancel` are the
reads handlers begin with, guards included; `WriteConfirmed`, `Reread`, `RefuseCharge`,
`ChargeCash`, `OpenLink`, `InsertPending`, `QueryLink`, `RevokeLink`, `MarkPayment` and
`CompleteBillPayment` the calls that follow. An early return or an exception is a
handler that does not start or goes back to `Idle`. `Fail` ends a handler at any await: a
call that throws, or the process going down (handlers keep nothing else in memory).
`GatewayPaid`, `GatewayAttemptFailed` and `GatewayGivenUp` are PayOS and the customer, modelled
from what the handlers rely on; `SetTable` is everybody else at the table, who sets any
status at any time (`table.service.ts:44`; an order writes OCCUPIED some awaits after it
read the table, `order.service.ts:64`).

Webhooks and redirects differ in what the code does to trust them. A webhook's
signature is verified, so it is one PayOS has sent; a body that fails verification changes
nothing. The return and the cancel URL are public GETs whose query is taken at its word:
nobody asks PayOS (`bill.service.ts:684`, `:705`, `:751`). `TakeRedirect` lets a redirect say
anything of any transfer at any moment, and notes in `hearsay` what was said against the
link. The properties then say how much depends on it: a payment is PAID only if money was
collected or a redirect said PAID of that payment, it is CANCELLED only if its link is given
up or a redirect said so, and nothing else ever goes wrong in the books. Order codes are
taken to be fresh.

### PaymentLedger

What BillPayment promises, with no handlers, notices or retries in it: money is asked
for, collected or given up (`money`), entered in a `book`, and settles a bill. `Note`
and `Settle` are what matters: the books never say PAID before the money is in, nor
CANCELLED while it could come in, but for what somebody has said of the payment when it
was not so (`Believe`). BillPayment instantiates it with

| PaymentLedger | BillPayment |
|---|---|
| `money[p]` | the link of p, or for cash the row: NONE, ASKED (open link), COLLECTED, VOID (cancelled or expired) |
| `book[p]` | `pay[p]` |
| `hearsay` | `hearsay` |
| `settled[b]` | `bill[b].method` while the bill is PAID, else "NO" |

and `KeepsTheLedger` says that every step of a handler, of PayOS or of a customer is a
step of the ledger or leaves it alone. `Reopen` is there because the code does not exclude
it: a confirmation that read the bill PENDING writes CONFIRMED after it was paid.

### TableRegistry (with `MCTableRegistry`, `TableRegistry_proofs`)

Table rows, orders that are to be billed, table numbers with an unpaid bill, requests
between two awaits. Orders and bills know a table by its number only, the database has
no index on it, and a deleted table keeps its row. `CheckNew` and `InsertTable` are the two
awaits of `create`, `CheckNumber` and `WriteTable` those of `update`; `ReadTable`, `Occupy` and
`PlaceOrder` an order at a table. `Edit` is anything the order endpoints can make of an
order, `CreateBill` and `CompleteBillPayment` what bills do to orders and tables.
`DeliveredOrdersCount` is the join of `findOccupiedTablesWithDeliveredOrders`: one for each
pair of an order and a row, whether the row is deleted or not. The amount it sums is in
the same proportion. QR tokens are left out: a token that is taken makes the write fail,
which is `Abandon`. `RetiresInUse` is the assumption on people here: whether an occupied
table is deleted, which the code does not refuse.

### OrderBilling (with `MCOrderBilling`, `OrderBilling_proofs`)

Orders, their snapshots, tables and bills. Creating orders (`ReadTable`, `OccupyTable`,
`TakeSnapshot` once per item, `CreateMany`) and creating a bill (`ReadDelivered`,
`CreateBillWithOrders`) run in request slots; `Update`, `UpdateStatus`, `Delete`,
`SetTable` are single database calls. `Abandon` drops a request between two awaits,
leaving behind what it wrote. `served` is a history variable: the orders that have been
DELIVERED at some time. Amounts are line totals (price times quantity of the snapshot);
PENDING stands for CONFIRMED and SHIPPED too, which no guard tells apart. `calm` is a
history variable: no request has come in while another was under way, and no order that
was served has been edited. The code sees to neither. The properties that need it are
what `createBill` promises to requests one at a time; without it two of them bill the same
order, and the first bill may be paid by then (`BilledWasServed` needs no such thing).

### BillReports and BillTotals (with `MCBillReports`, `BillReports_proofs`)

`BillTotals` is the arithmetic: `calculateBillTotals`, `validatePaymentAmount` for cash and
`calculateChange` on whole dong. `Math.round(0.05 * x)` and `Math.round(0.1 * x)` are integer
divisions, halves upwards: the doubles nearest to the rates lie above them by less than
the rounding of the product can show, for negative x too.

`BillReports` makes, confirms and pays bills with it while the clock goes on, and computes
the two reports read by read. `getBillSummary` fixes its windows by one reading of the
clock, then reads totals (`ReadCurrent`), numbers by status (`GroupByStatus`) and the
period before (`ReadPrevious`); `getBillAnalytics` reads one window, takes the comparison
window from the dates asked for or from the clock again (`CompareAnalytics`), and reads
that. A read is kept as the set of bills it counted: sums, averages and trends are
functions of that set. Time is a small set of moments; `MonthStarts` and `YearAgo` are the
calendar, `Closed` and `HalfOpen` the two kinds of window the queries use. Trends are compared without
division (averages over a common denominator). Nothing in the code sets a bill CANCELLED,
so no bill here is.

### RoleAccess (with `MCRoleAccess`, `RoleAccess_proofs`)

| State | Code |
|---|---|
| `roles[i]`, `perms[p]` | `Role` with the permissions joined to it, `Permission`; deleting sets `deletedAt`, GONE is a row the script removed |
| `adminRoleId` | the field of `SharedRoleRepository`, lost when the process starts again (`Restart`) |
| `req[r]` | an update, a deletion or the first `getAdminRoleId` between its read and its write |
| `script` | how far `initialScript/create-permissions.ts` has come, and what it has read |
| `lone` | history: what is under way has not been overlapped |

`VerifyRole` and `DeleteRole` are the two awaits of a deletion, `CheckPermissions` and
`SetRole` those of an update with permissions, `ReadAdminRole` and `KeepAdminRole` those of the
cached id. `CanAccess` is the check of `AccessTokenGuard`. `KeepsBaseNames` is the assumption
on people: they neither rename a base role nor give its name to another.

### StaffAccounts (with `MCStaffAccounts`, `StaffAccounts_proofs`)

Accounts (`users`), the roles in the access tokens signed for them (`tokens`), one-time codes
(`codes`) and requests on them. Who acts has the role of a token (`AgentRoles`), signed when
its owner logged in or refreshed (`Login`, `Refresh`): it outlives a change of role and a
deletion, as in the code, where the guard looks up the role the token names. Expiry would
only take tokens away. `Login` takes a live row with the e-mail address, whichever is found
first: no index keeps two accounts from sharing one. `create` mails the password
first and inserts afterwards; `update`, `delete` and `changePassword` read the row, decide,
and write by id. An update stores the body's password as it is (`Stored.hashed` is FALSE):
no password matches such a value. `sendOTP` upserts a code by e-mail, value and type;
`forgotPassword` finds the user, validates the code, then writes the password and removes
the code side by side (`todo`, in any order), and is refused if either fails (`AnswerReset`).
`Stop` ends a request at any await. `told` (the password the owner was last told), `resets`
(the resets answered, with the rows they removed) and `clean` (no request was overlapped
or stopped) are history. The roles are those of RoleAccess: `AdminRole` stands for the id
`getAdminRoleId` gives, which `BaseRolesSurvive` says is right. The status INACTIVE, which login
refuses whatever the password, is left out.

Two comments of the code say more than it does, and the properties do not repeat them. That
an e-mail address is taken is meant to be refused (`account.service.ts:92`, `:141`), but nothing
makes it unique; `ToldPasswordWorks` is about owners who share theirs with nobody. That only an
admin gives the admin role (`:248`) holds of `create`; `update` verifies the role the account had
and writes the one in the body (`:125`). `AdminsChangedByAdmins` is about accounts that are
admins' already.

### OrderFeed (with `MCOrderFeed`, `GuestOrders_proofs`)

Order rows with the number of their last write (`ver`) and its writer (`by`), and the tasks
that go on after a request has been answered: `ReadAgain` is the second read, `sendOrderToChef`,
`handleUpdateOrder`, `notifyOrderDelivered` and `sendOrderToGuest` the emissions of the
gateways. A task may be overtaken by any other. `sent` is everything emitted, `last` what
each audience (kitchen, staff, a table's room) was told last about each order. Whom a
write tells depends on the role of the writer, as in `update` and `updateStatus`; managers,
payments and deletions tell nobody. `Crash` loses all tasks; so does a second read that fails
where nobody waits for it, an unhandled rejection that ends the process (`ReadAgain`,
`Crash`). A delivery waits for its second read: if that fails (`FailToReadDelivered`) the
order is DELIVERED, nobody is told, and the server goes on. `silent` and `clean` are history:
the orders whose last write was such a delivery, and whether no order was written while an
earlier write of it was being announced. The kitchen hears of no delivery: the comment at
`order.service.ts:315` means its list to be updated, but `ChefGateway.handleUpdateOrder` emits to
guests and staff, and so does the model. Sockets are taken to deliver
what is emitted, in order, to those connected.

### GuestVisit (with `MCGuestVisit`, `GuestOrders_proofs`)

One table, its guests, the menu. `login`, `CreateGuest`, `generateTokens`, `UpdateGuest` are the
awaits of a login, `refreshToken` enters at `generateTokens`; `Answer` gives the guest the token
(`held`), and `Stop` ends a request at any await, or loses its answer: what it has written
stays. A login whose table is missing or whose QR token is not the table's is refused like
one at a closed table (`valid`). Signing is a step of its own, a token its number. `CreateOrder`, `OccupyTable`,
`CreateSnapshot` once per item and `InsertOrders` are those of an order; a deleted dish ends the
request. Staff edits dishes and categories and sets the table at any moment. Two fields
of a request are for the properties: `menu`, what has been offered of the dishes asked for;
`before`, the tokens written when a refresh began. `written` are the tokens that requests now
over have written to the row: those in `held`, and those whose answer was lost. `outdated` are
those of them a later logout or refresh has replaced. Its names are kept apart from OrderFeed's (`VisitInit`, `VisitSpec`, `InsertOrders`
for the `createMany` both meet), since one module of proofs extends the two.

### AuthSession (with `MCAuthSession`, `AuthSession_proofs`)

Devices, refresh tokens and the requests on them. In `refreshToken` the deletion of the
old row and the insertion of the new one are both under way after `ReadToken`; `todo` holds
the ones not done, in any order, and a request whose deletion failed still inserts. Only
`Answer` gives a token to the client (`held`). The cron job is `RemoveExpired`. Device
attributes other than `isActive` are left out, and so are access tokens, which nothing
stored refers to.

## Runs

| Run | Bounds | Shows |
|---|---|---|
| BillPaymentRace | 1 bill, 2 payments, 2 handlers, 1 failure; `RaceBound` | type invariant; PAID bills and payments are backed by money, CANCELLED links are dead, but for what a redirect said of them; the refinement of PaymentLedger |
| BillPaymentSequential | 2 bills of a table, 2 payments, 1 handler, no failure | at rest payments, bills and orders agree; PAID is final; repeated notices leave the next guests' table alone |
| BillPaymentFair | 1 bill, 1 payment, 2 handlers, 1 failure, fairness | a paid link is recorded whatever races or stops, and completes the bill unless a handler stops half-way |
| BillPaymentLost | as Fair with 1 handler | violated: a stop between the two writes loses the bill for good |
| OrderBilling | 2 orders, 2 bills, 1 table, 2 requests, all edits | a billed order has been served; while `calm`, the subtotal is the orders', an order is billed once, as DELIVERED |
| BillReports | 3 bills, 2 discounts, 3 moments around midnight of a month's first day within a week, dated and undated reports | amounts are fair; a summary adds up; no bill on both sides of a comparison; trends agree |
| TableRegistry | 3 rows, 2 numbers, 2 orders, 1 request, no occupied table deleted | numbers are unique; the list of tables to be billed counts each order once |
| AuthSession | 2 logins, 4 tokens, 2 requests | one usable token per session, exchanged once, dead after logout |
| RoleAccess | 3 roles, 2 of them base roles, 3 permissions, 2 served paths and an old one, 2 request slots, 4 requests or script runs | base roles and the cached id survive; roles are given live permissions; the script leaves the admin with the served paths |
| StaffAccounts | 2 accounts, 2 addresses, 2 roles, 2 code rows of one value, 2 request slots, 4 requests; `AccountBound` | a code is good for one reset; the told password works; admins are changed by tokens of admins |
| OrderFeed | 2 orders, 2 tables, 2 tasks, 3 writes, crash, failed reads | the final state is announced to those concerned; ready orders are called out; a staff screen shows the list |
| GuestVisit | 1 guest, 2 dishes, 1 category, 2 requests (one may be an order of up to 2 items), 3 tokens; `OrdersBeforeLastToken` | orders take dishes as offered, wherever requests stop; the row's token is current |

Two handlers are enough for every race on one row: a handler decides from at most one
old read, so one other handler makes it stale. Two payments of one bill cover the second
charge, two bills of one table the table's next use. `RaceBound` leaves out of the run what
its properties do not look at or what another step does as well: tables are OCCUPIED or
CLEANING, failed attempts are told by redirects only (a FAILED webhook does the same to the
rows), and redirects speak against one link, in one way; the theorems have none of these
bounds. Three table rows are
two with one number and one to be occupied in between; with overlapping requests numbers
are not unique, with occupied tables deleted orders are counted twice, and the theorems
have both as hypotheses. In BillReports three bills are what a trend of the average needs
against a trend of the number; the amounts are such that the tax rounds differently with
and without the discount. In RoleAccess the third permission is the one the script adds
while the other two are doubled, deleted or moved; four requests are a script run and
three edits before it. In StaffAccounts all codes have one value, so that a code drawn
again meets the row in use; four requests are sending a code, two resets with it and
sending it again. `AccountBound`: once requests have overlapped or stopped, which two of the
properties do not speak of, no more accounts are made or edited, and codes for registration,
which no request here uses, are not drawn. In OrderFeed three writes are two of one order, announced across
each other, and one of another order. In GuestVisit three tokens are a login
and two refreshes that overlap; once all three are signed nothing is ordered any more
(`OrdersBeforeLastToken`), which would multiply the menu's states by those of the tokens,
neither of which decides on the other. A quiet system may stop, so no run checks for
deadlock.

Some properties hold only without overlap: of the sequential run, of `calm`, `clean` and
`lone`. They say what the checks in the handlers achieve at all. That they are lost when
requests overlap is how the code is: a late confirmation takes a PAID bill back to
CONFIRMED; a bill that is charged in cash while its link is open is paid twice, even
without overlap; two `createBill` requests for one order both bill it; two requests make
the same table number; of two resets with one code the one that is refused may have the last word
on the password. Each is listed as a hazard, with its line. The violated run goes against
what the code's own retry is for, and is the one finding in `PROJECT.json`.

Fairness (`FairSpec`): weak fairness of every handler's next step, since the event loop
runs what is ready and a call returns or throws; strong fairness of taking in the webhook
of a paid link as long as it has not been answered 2xx (`acked`), since PayOS sends a webhook
again until then, and request slots become free again and again. A webhook that was
answered is not sent again on purpose: a handler that read the payment before and writes
FAILED after it has the last word, which `PaidLinkIsRecorded` does not exclude (it says that
the row becomes PAID). Nothing is assumed of customers, of the staff or of polls and redirects.

Every property of a passing run has a mutant beside the definition it changes (the
operators whose comment starts with "Mutant"), a bug that could have been made there, and
is violated when it takes the definition's place.

## Proofs

Every property the passing runs check is also proved for every value of the constants,
but for liveness (see the end of this section).
What a run gets from its bounds (one handler, no failure, no overlap) is a hypothesis of the
theorem. Each component has its theorems in a module of its own, but for OrderFeed and
GuestVisit, which share `GuestOrders_proofs`. The inductive invariants
the proofs need stand at the end of the component's module or before its proofs; TLC
checked them on the run's instance before they were proved.

* `TypeCorrect`, `BackedInvariant`, `PaidMeansCollected`, `CancelledMeansDead`
  (`BillPayment_proofs`). That a PAID bill has money behind it is not inductive: a handler
  about to write PAID has left the read that justified it behind. `BackedInv` adds what
  slots, webhooks and rows say about links: a link that is PAID or CANCELLED stays so,
  hence a decision taken from it, however old, is still right (`LinkSays`), and one taken from
  a redirect that spoke against the link is in `hearsay`, which is never shortened; a slot
  about to insert a row is the only one with that id (`InsertsMatch`). One lemma per kind
  of step, `BackedStep` puts them together. Assumed: payments are numbered,
  `None` is none of them, the bounds are naturals.
* `PaymentsKeepTheLedger` (`BillPayment_proofs`): BillPayment implements PaymentLedger.
  Initial states map to initial states; each kind of step maps to one of the ledger's or
  to a stutter, with `BackedInv` supplying, for a handler that acts on an old read, that the
  money is where the read found it.
* `SettledWhenSequential`, `PaidStaysWhenSequential`, `TablesClearedOnceWhenSequential`
  (`BillPayment_proofs`), for one handler at a time (`OneAtATime`), the first also for none
  that stops (`MaxFailures = 0`). `SequentialInv` says what overlap would take away: the status a handler
  read is still there when it writes (`ReadStillHolds`), and a PAID payment has settled
  its bill unless its handler is just about to (`SettledOrAbout`). That PAID is final holds
  also when handlers stop; that payment and bill agree does not, which is the finding.
* `TypeCorrect`, `NumbersStayUnique`, `OrdersCountedOnce` (`TableRegistry_proofs`). Uniqueness needs
  `ChecksHold`: with one request in flight the number it found free is free when it writes.
  Counting needs `DeletedNotOccupied` too: then at most one row can be joined with an order,
  and the product with a set of at most one element has no more elements than orders.
  Assumed: the set of orders is finite, `None` is no number.
* `TypeCorrect`, `BilledHasBeenServed`, `BillsAskForTheirOrders`, `DeliveredOrdersAreBilled`,
  `OrdersAreBilledOnce` (`OrderBilling_proofs`). What a createBill has read may be wrong
  about the present, not about the past: `ServedInv` says so for the orders a request
  holds and for DELIVERED orders. The last three are about `calm` histories: `BillingInv`
  says that then a request is alone, that orders and amounts it read are unchanged when it
  writes, and that a billed order stays served and its bill there. Assumed: the set of
  orders is finite, amounts are naturals.
* `BillArithmetic`, `BilledAmountsAreFair` (`BillReports_proofs`). The first is about the operators, for
  all natural amounts, from one lemma on rounding by an integer division: total, discount,
  split bills, change, and that a discount the food covers leaves nothing negative. The
  second carries it over to every bill there ever is: the invariant is that a row is `NoBill`
  or has totals that `calculateBillTotals` gave, with cash that `ValidCash` let through.
* `SummariesAddUp`, `BillsCountOnOneSide`, `SummaryTrendsAgree` (`BillReports_proofs`). `ReportsInv`
  says what a report that has come so far holds: the windows meet and begin in the past
  (`WindowsMeet`, `DatesApart`), what was counted is what is in the window of the bills
  known at the time, and bills made since are in no earlier period (`CountStands`); the
  numbers by status are those of some set between the bills known and the bills there are
  (`StatusesCount`). That the periods of a day, a week and a month meet around any moment
  is `PeriodsMeet`. Trends are products compared, from the same invariant; they are proved
  for discounts no larger than subtotals (`DiscountsCovered`), which the code does not
  validate: without it revenue may be negative, and its trend means little. Assumed of the
  calendar: a month begins before the one of any moment, and after it; a year before
  a moment is a moment. Assumed of bills: there are finitely many.
* `TypeCorrect`, `BaseRolesStay` (`RoleAccess_proofs`). That the base roles are there is not
  inductive: a deletion that has verified a name acts on an id later. `NamesMatch` adds that no
  other live row has a base role's name, that a slot about to delete holds no base role's id,
  one about to be kept is the admin's, and an update leaves base names where they are; it
  stays true because of `KeepsBaseNames`. Assumed: the roles of the seed script
  are among the rows and names there can be, and exactly one of them is called ADMIN.
* `DeletedPermissionsAreNotGiven`, `ScriptServesTheRoutes` (`RoleAccess_proofs`), for what nothing
  overlaps. `LoneInv` follows the script: after each of its phases the paths with a live
  permission are the served ones among those it had read, then all served ones, and the
  ids it connects to the admin are those of the live permissions.
* `TypeCorrect`, `CodesAnsweredOnce`, `ToldPasswordsWork`, `AdminsAreSafe` (`StaffAccounts_proofs`). A code
  row that a reset removes stays gone, and no two resets, answered or under way, hold the
  same row (`TakenOnce`): that is enough under any interleaving. The other two are about
  `clean` histories: what a request has verified still holds when it writes (`ReadsHold`),
  and the only wrong told password is that of a reset whose answer is on its way
  (`ToldMatches`). The agent's role is that of a token, about which nothing is assumed. Assumed: the admin is a user, there are an e-mail address, a password and a code.
* `TypeCorrect`, `ChangesAreAnnounced`, `ShippedIsCalledOut`, `ScreensShowTheList` (`GuestOrders_proofs`).
  The events about an order's last write are out, or some task is about to send them, and
  reads that state if it has not yet (`ToldOrPending`); a task that reads late announces a
  later state, which is why none is missed; a delivery that could not be read again is `silent`,
  until the order is written again. For the screen, `ReadsAreCurrent`: in a `clean`
  history what a task read is still so when it sends. Assumed: tables are neither kitchen
  nor staff.
* `VisitTypeCorrect`, `OrdersTakeWhatIsOffered` (`GuestOrders_proofs`). `VisitInv`
  ties stages to data: an order about to snapshot a dish has one left to take, one that
  inserts its orders has taken all. With it `HonestInv` follows what requests notice: what is
  on the menu now of the dishes it asks for it has noticed (`UpToDate`), so the dish it takes
  next is among those; those taken stay in the order of the items (`Ordered`). One lemma
  per kind of step says what it does to a request (it begins, moves on, learns of a change,
  takes a dish), and the invariants are proved from these.
* `RowTokensAreCurrent` (`GuestOrders_proofs`). Which token is in the row says nothing by itself
  while a login or refresh has written it and is not over. `TokenInv` adds that tokens of
  requests under way are not among those `written` and are pairwise different (`TokenFits`), that a
  refresh that has written the row has taken out every token written when it began, that a guest
  about to be created is known to no other request (`SessionFits`), and that the row's token
  is current, or that of a request still under way, or there has never been
  one (`RowFits`). An answer, or a stop, that comes after another one's write therefore outdates
  only what the row no longer has. Assumed for these three: `NoId` is no guest and no category, an
  order has a natural number of items at most.
* `TypeCorrect`, `OneTokenGoesOn`, `TokensExchangedOnce`, `LogoutIsFinal` (`AuthSession_proofs`). Between the deletion of the old row and the
  answer no client has a token that works, so the three properties cannot be kept by
  themselves. `SessionInv` says who has the session meanwhile: the one request that
  deleted the row itself (`HasSession`); `SlotsMatch` and `TokensMatch` say what slots,
  tokens and devices agree on. Assumed: `None` is no device and no token.

Sums. The subtotal of a bill and the revenue of a report are sums over a finite set of any
size, `SumFunction` of the community modules, a recursive function. That it is a natural number is
an induction; the induction theorems of the library take the induction hypothesis as an
operator, which the provers cannot instantiate, so these inductions go by a least counterexample
(`Least`, from the well-foundedness of < on the naturals): sets of any size can be added up
(`Solvable`), so the recursive definition has a value (`IterAdds`), and no smallest set
comes to something else than a natural (`SumIsNat`). `Least` also gives the last month begun. The
argument is in `OrderBilling_proofs` and again in `BillReports_proofs`: the two have
different variables and cannot extend one another.

Only model-checked: liveness under fairness and the violated retry, which are out of the
prover's reach.

## Not modelled

Lists and other endpoints that return what one query finds, pages, input validation,
soft deletion of bills and payments (no endpoint does it), `findBillsWithFilters` (nobody
calls it), unequal order codes and bill numbers (taken to be fresh), `updateMe` and the
renaming of categories (nothing else depends on them), `confirmWebhook` and the signatures of
PayOS's webhooks (a body that fails verification changes nothing), the JWTs' text and expiry, the
joining of socket rooms, and the components marked `not_modelled` in `PROJECT.json`:
notifications are rows nothing decides on, media, S3, e-mail, health and hashing are input
and output without state.

## Plan

1. `Restaurant`: OrderBilling and BillPayment over the same bills, orders and tables, for the
   table that is sent to CLEANING with orders still in the kitchen.
2. An order code drawn from a small space, so that two links can meet.
