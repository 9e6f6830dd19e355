------------------------------ MODULE OrderFeed ------------------------------
(***************************************************************************)
(* What kitchen, staff and guests are told about orders: the events that   *)
(* OrderService sends after each write, and the lists the screens start    *)
(* from (order.repo.ts).                                                   *)
(*                                                                         *)
(* After the write, what is announced of it is read again, which only a    *)
(* delivery waits for: other requests have been answered by then.  What    *)
(* was read may be sent after something newer has been.  The awaits before *)
(* the orders of a request are inserted are in OrderBilling.               *)
(***************************************************************************)
EXTENDS Naturals

CONSTANTS
    Orders,    \* ids of Order rows
    Tables,    \* table numbers; each has a room on the guests' namespace
    Tasks,     \* slots for requests that go on after their write
    None,      \* no row, no table
    Asked,     \* statuses that requests ask for
    MaxWrites  \* bound: requests that write, deletions aside

VARIABLES
    orders,   \* orders[o]: the Order row
    writes,   \* writes so far
    task,     \* task[k]: what a request has still to announce
    sent,     \* the events sent so far
    last,     \* last[a][o]: what audience a was told last about o
    silent,   \* history: orders whose delivery, their last write, could not be read again
    clean,    \* history: no order was written while a task about it was under way
    crashed   \* history: tasks have been lost

vars == <<orders, writes, task, sent, last, silent, clean, crashed>>

-----------------------------------------------------------------------------
OrderStatus == {"PENDING", "CONFIRMED", "SHIPPED", "DELIVERED", "COMPLETED", "CANCELLED"}

\* ver counts the writes to the row; by is who made the last one.  "desk" is a manager or
\* an admin, "bill" the payment of the order's bill.
Writers == {"guest", "chef", "staff", "desk", "delivery", "bill"}
Order   == [state: {"ABSENT", "LIVE", "DELETED"}, status: OrderStatus, table: Tables \cup {None},
            ver: 0..MaxWrites, by: Writers]
NoOrder == [state |-> "ABSENT", status |-> "PENDING", table |-> None, ver |-> 0, by |-> "guest"]

ASSUME FeedAssumption ==
    /\ MaxWrites \in Nat /\ Asked \subseteq OrderStatus
    /\ Tables \cap {"chef", "staff", None} = {} /\ None \notin Order

\* kind: what is to be announced.  table: the room.  got: what was read, None: no row.
Task == [kind: {"idle", "created", "changed", "delivered", "refresh"},
         step: {"read", "emit"}, orders: SUBSET Orders, table: Tables \cup {None},
         got: [Orders -> Order \cup {None}]]
NothingRead == [o \in Orders |-> None]
Idle == [kind |-> "idle", step |-> "read", orders |-> {}, table |-> None,
         got |-> NothingRead]

Audiences == {"chef", "staff"} \cup Tables
Event     == [event: {"send-order-to-chef", "update-order", "order-ready-for-delivery",
                      "order-delivered"},
              to: Audiences, order: Orders, ver: 1..MaxWrites]

Untold == [ver |-> 0, status |-> "PENDING"]

TypeOK ==
    /\ orders \in [Orders -> Order] /\ writes \in 0..MaxWrites /\ task \in [Tasks -> Task]
    /\ sent \subseteq Event
    /\ last \in [Audiences -> [Orders -> [ver: 0..MaxWrites, status: OrderStatus]]]
    /\ silent \subseteq Orders /\ clean \in BOOLEAN /\ crashed \in BOOLEAN

Init ==
    /\ orders = [o \in Orders |-> NoOrder] /\ writes = 0
    /\ task = [k \in Tasks |-> Idle]
    /\ sent = {} /\ last = [a \in Audiences |-> [o \in Orders |-> Untold]]
    /\ silent = {} /\ clean = TRUE /\ crashed = FALSE

-----------------------------------------------------------------------------
(* The lists (each one query; pages are left out)                          *)

Live(o) == orders[o].state = "LIVE"
staffDeliveryList    == {o \in Orders : Live(o) /\ orders[o].status = "SHIPPED"}
findByTableNumber(t) == {o \in Orders : /\ Live(o) /\ orders[o].table = t
                                        /\ orders[o].status # "COMPLETED"}

-----------------------------------------------------------------------------
Busy(o) == \E k \in Tasks : o \in task[k].orders

\* A write: it is overlapped if an earlier one of the same row is still being announced.
Wrote(os) == /\ writes < MaxWrites /\ writes' = writes + 1
             /\ clean' = (clean /\ \A o \in os : ~Busy(o))

Start(k, kind, step, os, t) ==
    /\ task[k].kind = "idle"
    /\ task' = [task EXCEPT ![k] = [kind |-> kind, step |-> step, orders |-> os, table |-> t,
                                    got |-> NothingRead]]

\* The last call of create; a dish that is not ACTIVE makes its order CANCELLED.
CreateMany(k, os, t) ==
    /\ os # {} /\ \A o \in os : orders[o].state = "ABSENT"
    /\ \E inactive \in SUBSET os :
          orders' = [o \in Orders |->
              IF o \in os
              THEN [state |-> "LIVE", status |-> IF o \in inactive THEN "CANCELLED" ELSE "PENDING",
                    table |-> t, ver |-> 1, by |-> "guest"]
              ELSE orders[o]]
    /\ Start(k, "created", "read", os, t)
    /\ Wrote(os)
    /\ UNCHANGED <<sent, last, silent, crashed>>

\* One more write of a live row.
Put(o, status, t, by) ==
    /\ Live(o)
    /\ orders' = [orders EXCEPT ![o] = [state |-> "LIVE", status |-> status, table |-> t,
                                        ver |-> @.ver + 1, by |-> by]]
    /\ silent' = silent \ {o}
    /\ Wrote({o})

\* Mutant of Announce: what is announced was read before the write.
AnnounceOld(k, o, t, by) ==
    CASE by = "chef"  -> /\ task[k].kind = "idle"
                         /\ task' = [task EXCEPT ![k] = [kind |-> "changed", step |-> "emit",
                                        orders |-> {o}, table |-> t,
                                        got |-> [NothingRead EXCEPT ![o] = orders[o]]]]
      [] by = "staff" -> Start(k, "refresh", "emit", {o}, t)
      [] OTHER        -> UNCHANGED task

\* Mutant of Announce: the task is labelled with the role.
AnnounceByRole(k, o, t, by) ==
    IF by \in {"chef", "staff"} THEN Start(k, by, "read", {o}, t) ELSE UNCHANGED task

\* Whom update and updateStatus tell depends on the role in the token: a chef's change is
\* read again, for the staff's only the table's room is needed, others tell nobody.
Announce(k, o, t, by) ==
    CASE by = "chef"  -> Start(k, "changed", "read", {o}, t)
      [] by = "staff" -> Start(k, "refresh", "emit", {o}, t)
      [] OTHER        -> UNCHANGED task

\* update: status and table of the body, whatever they were (a body without a status sets
\* PENDING).
Update(k, o, status, t, by) ==
    /\ Put(o, status, t, by)
    /\ Announce(k, o, t, by)
    /\ UNCHANGED <<sent, last, crashed>>

updateStatus(k, o, status, by) ==
    /\ Put(o, status, orders[o].table, by)
    /\ Announce(k, o, orders[o].table, by)
    /\ UNCHANGED <<sent, last, crashed>>

\* deliverOrderByStaff waits for what it reads again; nobody else does.
deliverOrderByStaff(k, o) ==
    /\ Put(o, "DELIVERED", orders[o].table, "delivery")
    /\ Start(k, "delivered", "read", {o}, orders[o].table)
    /\ UNCHANGED <<sent, last, crashed>>

\* delete tells nobody.
Delete(o) ==
    /\ Live(o)
    /\ orders' = [orders EXCEPT ![o].state = "DELETED"]
    /\ UNCHANGED <<writes, task, sent, last, silent, clean, crashed>>

\* completeBillPayment, of the orders' side: it tells nobody either.
CompleteBillPayment(o) ==
    /\ orders[o].status = "DELIVERED"
    /\ Put(o, "COMPLETED", orders[o].table, "bill")
    /\ UNCHANGED <<task, sent, last, crashed>>

-----------------------------------------------------------------------------
(* Tasks                                                                   *)

\* The server goes down: what was still to be announced is lost.
GoDown == /\ task' = [k \in Tasks |-> Idle] /\ crashed' = TRUE
          /\ UNCHANGED <<orders, writes, sent, last, silent, clean>>

Crash == (\E k \in Tasks : task[k].kind # "idle") /\ GoDown

\* findWithGuestDishSnapshot takes deleted rows along, findByIdWithFullData does not.
\* sendOrderToStaffGuestByChef throws when there is no row.  Nobody waits for it or handles
\* what it throws, which ends the process; so does a read that fails, in it or in
\* sendOrderToChef, which Crash stands for.
ReadAgain(k) ==
    /\ task[k].kind \in {"created", "changed", "delivered"} /\ task[k].step = "read"
    /\ LET row(o) == IF task[k].kind = "created" \/ Live(o) THEN orders[o] ELSE None
           got    == [o \in Orders |-> IF o \in task[k].orders THEN row(o) ELSE None]
       IN  IF task[k].kind = "changed" /\ \E o \in task[k].orders : got[o] = None
           THEN GoDown
           ELSE /\ task' = [task EXCEPT ![k] = [@ EXCEPT !.step = "emit", !.got = got]]
                /\ UNCHANGED <<orders, writes, sent, last, silent, clean, crashed>>

\* deliverOrderByStaff waits for its second read: one that fails is the request's error,
\* the order stays DELIVERED and nobody is told.
FailToReadDelivered(k) ==
    /\ task[k].kind = "delivered" /\ task[k].step = "read"
    /\ task' = [task EXCEPT ![k] = Idle]
    /\ silent' = silent \cup task[k].orders
    /\ UNCHANGED <<orders, writes, sent, last, clean, crashed>>

\* The orders a task has read.
Got(k) == {o \in task[k].orders : task[k].got[o] # None}

\* An event about the orders os, with what row says of them, to the audiences as.
Emit(events, as, os, row) ==
    /\ sent' = sent \cup {[event |-> e, to |-> a, order |-> o, ver |-> row[o].ver] :
                            e \in events, a \in as, o \in os}
    /\ last' = [a \in Audiences |-> [o \in Orders |->
                  IF a \in as /\ o \in os THEN [ver |-> row[o].ver, status |-> row[o].status]
                  ELSE last[a][o]]]

Done(k) == /\ task' = [task EXCEPT ![k] = Idle]
           /\ UNCHANGED <<orders, writes, silent, clean, crashed>>

\* GuestGateway.sendOrderToChef.
sendOrderToChef(k) ==
    /\ task[k].kind = "created" /\ task[k].step = "emit"
    /\ Emit({"send-order-to-chef"}, {"chef"}, Got(k), task[k].got)
    /\ Done(k)

\* Mutant of Ready: staff are called when the kitchen takes the order on.
ReadyWhenConfirmed(o, row) ==
    IF row[o].status = "CONFIRMED"
    THEN {[event |-> "order-ready-for-delivery", to |-> "staff", order |-> o, ver |-> row[o].ver]}
    ELSE {}

\* What a row that has become SHIPPED adds for the staff.
Ready(o, row) ==
    IF row[o].status = "SHIPPED"
    THEN {[event |-> "order-ready-for-delivery", to |-> "staff", order |-> o, ver |-> row[o].ver]}
    ELSE {}

\* Mutant of handleUpdateOrder: the guests are left out.
handleUpdateStaff(k) ==
    /\ task[k].kind = "changed" /\ task[k].step = "emit"
    /\ \E o \in Got(k) :
         /\ sent' = sent \cup {[event |-> "update-order", to |-> a, order |-> o,
                                ver |-> task[k].got[o].ver] : a \in {"staff"}}
                         \cup Ready(o, task[k].got)
         /\ last' = [last EXCEPT !["staff"][o] = [ver |-> task[k].got[o].ver,
                                                  status |-> task[k].got[o].status]]
    /\ Done(k)

\* ChefGateway.handleUpdateOrder, and for a shipped order notifyShippedOrderToStaff.
handleUpdateOrder(k) ==
    /\ task[k].kind = "changed" /\ task[k].step = "emit"
    /\ \E o \in Got(k) :
         LET row == task[k].got
             to  == {task[k].table, "staff"}
         IN  /\ sent' = sent \cup {[event |-> "update-order", to |-> a, order |-> o,
                                    ver |-> row[o].ver] : a \in to}
                             \cup Ready(o, row)
             /\ last' = [a \in Audiences |->
                  IF a \in to
                  THEN [last[a] EXCEPT ![o] = [ver |-> row[o].ver, status |-> row[o].status]]
                  ELSE last[a]]
    /\ Done(k)

\* notifyOrderDeliveredToGuest, then handleUpdateOrder: room and staff.  A row that is
\* gone is sent as null, which says nothing.
notifyOrderDelivered(k) ==
    /\ task[k].kind = "delivered" /\ task[k].step = "emit"
    /\ Emit({"order-delivered", "update-order"}, {task[k].table, "staff"}, Got(k), task[k].got)
    /\ Done(k)

\* StaffGateway.sendOrderToGuest carries nothing: the guests' pages read the list again.
sendOrderToGuest(k) ==
    /\ task[k].kind = "refresh"
    /\ Emit({"update-order"}, {task[k].table}, findByTableNumber(task[k].table), orders)
    /\ Done(k)

-----------------------------------------------------------------------------
Write(k) ==
    \/ \E os \in SUBSET Orders, t \in Tables : CreateMany(k, os, t)
    \/ \E o \in Orders :
         \/ \E s \in Asked, by \in {"chef", "staff", "desk"} :
               updateStatus(k, o, s, by) \/ \E t \in Tables : Update(k, o, s, t, by)
         \/ deliverOrderByStaff(k, o)

Tell(k) == \/ ReadAgain(k) \/ FailToReadDelivered(k) \/ sendOrderToChef(k)
           \/ handleUpdateOrder(k) \/ notifyOrderDelivered(k) \/ sendOrderToGuest(k)

Next == \/ \E k \in Tasks : Write(k) \/ Tell(k)
        \/ \E o \in Orders : Delete(o) \/ CompleteBillPayment(o)
        \/ Crash

Spec == Init /\ [][Next]_vars

-----------------------------------------------------------------------------
(* Properties                                                              *)

AtRest == ~crashed /\ \A k \in Tasks : task[k].kind = "idle"

Told(event, to, o) == [event |-> event, to |-> to, order |-> o, ver |-> orders[o].ver] \in sent

\* A row last written by somebody who has staff and table told what it was read again as.
ToldOfAll(o) == orders[o].by = "chef" \/ (orders[o].by = "delivery" /\ o \notin silent)

\* However requests and what they announce overlap, in the end the state an order is left
\* in has been announced to those its last writer tells: a new order to the kitchen, a
\* chef's change and a delivery to the staff and the order's table, the staff's change to
\* the table.  Announcements are lost if the process goes down, and that of a delivery if
\* its second read fails (order.service.ts:310).  The kitchen is told of no delivery: the
\* comment at order.service.ts:315 means it to be, but ChefGateway.handleUpdateOrder
\* emits to guests and staff only.
ChangeIsAnnounced ==
    AtRest => \A o \in Orders : Live(o) =>
        LET t == orders[o].table
        IN  /\ orders[o].by = "guest" => Told("send-order-to-chef", "chef", o)
            /\ ToldOfAll(o) => Told("update-order", "staff", o) /\ Told("update-order", t, o)
            /\ orders[o].by = "staff" /\ o \in findByTableNumber(t) => Told("update-order", t, o)

\* An order the kitchen leaves SHIPPED has been called out to the staff as ready, although
\* the status that decides is not the one written but the one read again.
ShippedIsReady ==
    AtRest => \A o \in staffDeliveryList :
        orders[o].by = "chef" => Told("order-ready-for-delivery", "staff", o)

\* A staff screen kept up to date by events alone agrees with staffDeliveryList on every
\* order last changed by kitchen or delivery, if no order was written while an earlier
\* write of it was being announced.  Tasks about different orders may overlap.  Not meant
\* are orders whose delivery could not be read again: they stay on the screen as SHIPPED.
ScreenShowsTheList ==
    AtRest /\ clean => \A o \in Orders :
        Live(o) /\ ToldOfAll(o) =>
            (o \in staffDeliveryList <=> last["staff"][o].status = "SHIPPED")

-----------------------------------------------------------------------------
(* What the proofs of these properties maintain                            *)

\* A row is written at most as often as requests write, and what tasks read of it was
\* there.
RowsMatch ==
    \A o \in Orders : /\ orders[o].ver <= writes
                      /\ orders[o].state # "ABSENT" => orders[o].ver > 0 /\ orders[o].table \in Tables
TasksMatch ==
    \A k \in Tasks :
       /\ task[k].kind # "idle" => task[k].table \in Tables
       /\ task[k].kind = "changed" => \E o \in Orders : task[k].orders = {o}
       /\ \A o \in task[k].orders : orders[o].state # "ABSENT"
       /\ \A o \in Orders : task[k].got[o] # None => task[k].got[o].ver > 0

\* While no write overlaps the telling of an earlier one, what a task has read of an order
\* is still so.
ReadsAreCurrent ==
    clean => \A k \in Tasks : task[k].kind # "refresh" /\ task[k].step = "emit" =>
       \A o \in task[k].orders : Live(o) => task[k].got[o] = orders[o]

\* The task of the last write of an order: it will tell of that write.
Announces(kind, by) == \/ by = "guest" /\ kind = "created"
                       \/ by = "chef" /\ kind = "changed"
                       \/ by = "delivery" /\ kind = "delivered"
                       \/ by = "staff" /\ kind = "refresh"
Pending(k, o) ==
    /\ o \in task[k].orders /\ task[k].table = orders[o].table
    /\ Announces(task[k].kind, orders[o].by)
    /\ task[k].kind # "refresh" /\ task[k].step = "emit" => task[k].got[o] = orders[o]

\* What ChangeIsAnnounced, ShippedIsReady and ScreenShowsTheList ask about o.
Announced(o) ==
    LET t == orders[o].table
    IN  /\ orders[o].by = "guest" => Told("send-order-to-chef", "chef", o)
        /\ ToldOfAll(o) => Told("update-order", "staff", o) /\ Told("update-order", t, o)
        /\ orders[o].by = "staff" /\ orders[o].status # "COMPLETED" => Told("update-order", t, o)
CalledOut(o) == orders[o].by = "chef" /\ orders[o].status = "SHIPPED" =>
                   Told("order-ready-for-delivery", "staff", o)
Shown(o)     == clean /\ ToldOfAll(o) =>
                   last["staff"][o].status = orders[o].status

ToldOrPending ==
    ~crashed => \A o \in Orders : Live(o) =>
       \/ Announced(o) /\ CalledOut(o) /\ Shown(o)
       \/ \E k \in Tasks : Pending(k, o)

FeedInv == RowsMatch /\ TasksMatch /\ ReadsAreCurrent /\ ToldOrPending
=============================================================================
