----------------------------- MODULE GuestVisit -----------------------------
(***************************************************************************)
(* A guest at a table: GuestService (login, logout, refreshToken), the     *)
(* menu that staff edits meanwhile (DishService, CategoryService), and     *)
(* OrderService.create, which copies each dish into a snapshot             *)
(* (DishSnapshotService.create).                                           *)
(*                                                                         *)
(* Any call may throw and the process may stop, so a request may end at    *)
(* each of its awaits, and an answer may be lost.  What staff and payments *)
(* do to the table is an arbitrary change of its status (see TableRegistry *)
(* and BillPayment), what becomes of orders is in OrderFeed and            *)
(* OrderBilling.  The name, picture and description of a dish are copied   *)
(* like its price.  A name that is taken, by a deleted row even, makes a   *)
(* write fail, which changes nothing.                                      *)
(***************************************************************************)
EXTENDS Naturals, Sequences, FiniteSets

CONSTANTS
    Guests,      \* ids a Guest row can get
    Dishes,      \* ids a Dish row can get
    Categories,  \* ids a Category row can get
    Prices,      \* prices of dishes
    Reqs,        \* request slots
    OrderReqs,   \* those an order may be in
    MaxItems,    \* items of an order
    MaxTokens,   \* refresh tokens that are ever signed
    NoId         \* no guest, no category

ASSUME VisitAssumption == NoId \notin Guests /\ NoId \notin Categories /\ MaxItems \in Nat

VARIABLES
    table,     \* the status of the Table row
    guest,     \* guest[g]: the Guest row
    held,      \* held[g]: the refresh tokens g has been given
    written,   \* written[g]: those that requests now over have written to the row of g:
               \* what g holds, and what the answer never reached g with
    outdated,  \* those of them that a later logout or refresh has replaced, by its end
    signed,    \* how many refresh tokens have been signed
    category,  \* category[c]: the state of the Category row
    dish,      \* dish[d]: the Dish row
    req        \* req[r]: the request in slot r

visitVars == <<table, guest, held, written, outdated, signed, category, dish, req>>

-----------------------------------------------------------------------------
\* CLEANING, UNAVAILABLE and deleted are CLOSED: nothing here tells them apart.
TableStatus == {"AVAILABLE", "OCCUPIED", "CLOSED"}
InUse       == {"AVAILABLE", "OCCUPIED"}
TableInUse  == table \in InUse

\* refreshToken is null in a new row and '' after logout: both are no token's number.
Null     == MaxTokens + 1
LoggedOut == 0

NoGuest == [exists |-> FALSE, refreshToken |-> Null]
NoDish  == [state |-> "NONE", price |-> 0, status |-> "INACTIVE", category |-> NoId]

NoRequest == [at |-> "idle", kind |-> "none", guest |-> NoId, token |-> Null, items |-> <<>>,
              taken |-> <<>>, orders |-> {}, before |-> {}, menu |-> {}]

\* What findById gives of a dish: a deleted one is not found.
Offer(d) == [dish |-> d, price |-> dish[d].price, status |-> dish[d].status]
Menu     == {Offer(d) : d \in {e \in Dishes : dish[e].state = "LIVE"}}

Wanted(q) == {q.items[i] : i \in DOMAIN q.items}

VisitInit ==
    /\ table \in InUse
    /\ guest = [g \in Guests |-> NoGuest]
    /\ held = [g \in Guests |-> {}]
    /\ written = [g \in Guests |-> {}]
    /\ outdated = [g \in Guests |-> {}]
    /\ signed = 0
    /\ category = [c \in Categories |-> "NONE"]
    /\ dish = [d \in Dishes |-> NoDish]
    /\ req = [r \in Reqs |-> NoRequest]

\* Two fields are for the properties: before, what had been written to the row when a
\* refresh began; and menu, what has been offered since it began of the dishes asked for.
Begin(r, q) ==
    req' = [req EXCEPT ![r] = [q EXCEPT !.menu = {o \in Menu : o.dish \in Wanted(q)}]]

\* What a request in flight, at q now, sees of a change of the menu.
Sees(q) == IF q.at = "idle" THEN q
           ELSE [q EXCEPT !.menu = @ \cup {o \in Menu' : o.dish \in Wanted(q)}]

EveryoneSees == req' = [r \in Reqs |-> Sees(req[r])]

-----------------------------------------------------------------------------
(* GuestService                                                            *)

\* The table is looked up by its number; valid: it is there, and its token is the one in
\* the QR code.  (g is the id the row will get.)
login(r, g, valid) ==
    /\ req[r].at = "idle"
    /\ ~guest[g].exists /\ \A s \in Reqs : req[s].guest # g
    /\ Begin(r, [NoRequest EXCEPT !.at = IF valid /\ TableInUse THEN "create" ELSE "refused",
                                  !.kind = "login", !.guest = g])
    /\ UNCHANGED <<table, guest, held, written, outdated, signed, category, dish>>

CreateGuest(r) ==
    /\ req[r].at = "create"
    /\ guest' = [guest EXCEPT ![req[r].guest] = [NoGuest EXCEPT !.exists = TRUE]]
    /\ req' = [req EXCEPT ![r].at = "sign"]
    /\ UNCHANGED <<table, held, written, outdated, signed, category, dish>>

\* Any token the guest was given will do: it is not compared with the row.
refreshToken(r, g) ==
    /\ req[r].at = "idle"
    /\ held[g] # {}
    /\ Begin(r, [NoRequest EXCEPT !.at = IF TableInUse THEN "sign" ELSE "refused",
                                  !.kind = "refresh", !.guest = g, !.before = written[g]])
    /\ UNCHANGED <<table, guest, held, written, outdated, signed, category, dish>>

generateTokens(r) ==
    /\ req[r].at = "sign" /\ signed < MaxTokens
    /\ signed' = signed + 1
    /\ req' = [req EXCEPT ![r].at = "update", ![r].token = signed']
    /\ UNCHANGED <<table, guest, held, written, outdated, category, dish>>

\* Mutant of UpdateGuest: only login writes the row.
UpdateAtLogin(r) ==
    /\ req[r].at = "update"
    /\ guest' = IF req[r].kind = "login"
                THEN [guest EXCEPT ![req[r].guest].refreshToken = req[r].token] ELSE guest
    /\ req' = [req EXCEPT ![r].at = "granted"]
    /\ UNCHANGED <<table, held, written, outdated, signed, category, dish>>

UpdateGuest(r) ==
    /\ req[r].at = "update"
    /\ guest' = [guest EXCEPT ![req[r].guest].refreshToken = req[r].token]
    /\ req' = [req EXCEPT ![r].at = "granted"]
    /\ UNCHANGED <<table, held, written, outdated, signed, category, dish>>

logout(g) ==
    /\ held[g] # {}
    /\ guest' = [guest EXCEPT ![g].refreshToken = LoggedOut]
    /\ outdated' = [outdated EXCEPT ![g] = written[g]]
    /\ UNCHANGED <<table, held, written, signed, category, dish, req>>

-----------------------------------------------------------------------------
(* CategoryService and DishService                                         *)

CreateCategory(c) ==
    /\ category[c] = "NONE"
    /\ category' = [category EXCEPT ![c] = "LIVE"]
    /\ UNCHANGED <<table, guest, held, written, outdated, signed, dish, req>>

\* Its dishes stay on the menu.
DeleteCategory(c) ==
    /\ category[c] = "LIVE"
    /\ category' = [category EXCEPT ![c] = "DELETED"]
    /\ UNCHANGED <<table, guest, held, written, outdated, signed, dish, req>>

\* The foreign key asks for a category row, deleted or not.
Body == [state: {"LIVE"}, price: Prices, status: {"ACTIVE", "INACTIVE"},
         category: {c \in Categories : category[c] # "NONE"}]

CreateDish(d, body) ==
    /\ dish[d].state = "NONE"
    /\ dish' = [dish EXCEPT ![d] = body]
    /\ UNCHANGED <<table, guest, held, written, outdated, signed, category>>
    /\ EveryoneSees

UpdateDish(d, body) ==
    /\ dish[d].state = "LIVE"
    /\ dish' = [dish EXCEPT ![d] = body]
    /\ UNCHANGED <<table, guest, held, written, outdated, signed, category>>
    /\ EveryoneSees

DeleteDish(d) ==
    /\ dish[d].state = "LIVE"
    /\ dish' = [dish EXCEPT ![d].state = "DELETED"]
    /\ UNCHANGED <<table, guest, held, written, outdated, signed, category>>
    /\ EveryoneSees

-----------------------------------------------------------------------------
(* OrderService.create                                                     *)

CreateOrder(r, g, items) ==
    /\ req[r].at = "idle" /\ r \in OrderReqs
    /\ guest[g].exists
    /\ Begin(r, [NoRequest EXCEPT !.kind = "order", !.guest = g, !.items = items,
                        !.at = CASE table = "OCCUPIED"  -> "dish"
                                 [] table = "AVAILABLE" -> "occupy"
                                 [] OTHER               -> "refused"])
    /\ UNCHANGED <<table, guest, held, written, outdated, signed, category, dish>>

OccupyTable(r) ==
    /\ req[r].at = "occupy"
    /\ table' = "OCCUPIED"
    /\ req' = [req EXCEPT ![r].at = "dish"]
    /\ UNCHANGED <<guest, held, written, outdated, signed, category, dish>>

Item(r) == req[r].items[Len(req[r].taken) + 1]

Take(q, o) ==
    [q EXCEPT !.taken = Append(@, o),
              !.at = IF Len(q.taken) + 1 = Len(q.items) THEN "many" ELSE "dish"]

\* Mutant of CreateSnapshot: a deleted dish is found as well.
SnapshotAny(r) ==
    /\ req[r].at = "dish"
    /\ req' = [req EXCEPT ![r] = IF dish[Item(r)].state = "NONE" THEN [@ EXCEPT !.at = "failed"]
                                ELSE Take(@, Offer(Item(r)))]
    /\ UNCHANGED <<table, guest, held, written, outdated, signed, category, dish>>

\* The next dish is read, and what was read is inserted: a row only this request knows of.
\* A deleted dish is not found.
CreateSnapshot(r) ==
    /\ req[r].at = "dish"
    /\ req' = [req EXCEPT ![r] = IF dish[Item(r)].state # "LIVE" THEN [@ EXCEPT !.at = "failed"]
                                ELSE Take(@, Offer(Item(r)))]
    /\ UNCHANGED <<table, guest, held, written, outdated, signed, category, dish>>

\* One transaction for the orders of all items.
InsertOrders(r) ==
    /\ req[r].at = "many"
    /\ req' = [req EXCEPT ![r].at = "granted", ![r].orders =
         {[snapshot |-> i, status |-> IF req[r].taken[i].status = "ACTIVE"
                                      THEN "PENDING" ELSE "CANCELLED"] :
             i \in DOMAIN req[r].taken}]
    /\ UNCHANGED <<table, guest, held, written, outdated, signed, category, dish>>

-----------------------------------------------------------------------------
SetTable(s) ==
    /\ s # table /\ table' = s
    /\ UNCHANGED <<guest, held, written, outdated, signed, category, dish, req>>

\* The request in slot r has written its token to the row of its guest.
HasWritten(r) == req[r].at = "granted" /\ req[r].kind # "order"

\* The slot is free; what was written to the row, answered or not, has replaced what had
\* been written before the request began.
End(r) ==
    /\ IF HasWritten(r)
       THEN /\ written' = [written EXCEPT ![req[r].guest] = @ \cup {req[r].token}]
            /\ outdated' = [outdated EXCEPT ![req[r].guest] = @ \cup req[r].before]
       ELSE UNCHANGED <<written, outdated>>
    /\ req' = [req EXCEPT ![r] = NoRequest]
    /\ UNCHANGED <<table, guest, signed, category, dish>>

\* The answer: a guest who has been let in holds the token.
Answer(r) ==
    /\ req[r].at \in {"granted", "refused", "failed"}
    /\ held' = IF HasWritten(r) THEN [held EXCEPT ![req[r].guest] = @ \cup {req[r].token}]
               ELSE held
    /\ End(r)

\* A call throws, the process stops, or the answer is lost: what has been written stays.
Stop(r) ==
    /\ req[r].at # "idle"
    /\ UNCHANGED held
    /\ End(r)

Handle(r) ==
    \/ CreateGuest(r) \/ generateTokens(r) \/ UpdateGuest(r)
    \/ \E g \in Guests :
          \/ refreshToken(r, g)
          \/ \E valid \in BOOLEAN : login(r, g, valid)
          \/ \E n \in 1..MaxItems, items \in [1..MaxItems -> Dishes] :
                CreateOrder(r, g, SubSeq(items, 1, n))
    \/ OccupyTable(r) \/ CreateSnapshot(r) \/ InsertOrders(r)
    \/ Answer(r) \/ Stop(r)

Staff ==
    \/ \E c \in Categories : CreateCategory(c) \/ DeleteCategory(c)
    \/ \E d \in Dishes : \/ DeleteDish(d)
                         \/ \E body \in Body : CreateDish(d, body) \/ UpdateDish(d, body)
    \/ \E s \in TableStatus : SetTable(s)

VisitNext ==
    \/ \E r \in Reqs : Handle(r)
    \/ \E g \in Guests : logout(g)
    \/ Staff

VisitSpec == VisitInit /\ [][VisitNext]_visitVars

-----------------------------------------------------------------------------
(* Properties                                                              *)

\* An order takes each dish asked for as it was on the menu, undeleted, at some moment of
\* the request, whatever is edited between its items; all of them or none, and with the
\* status CANCELLED exactly if the dish was not being served then (the kitchen is told of
\* the new orders all the same).
OrdersAreOffered ==
    \A r \in Reqs :
        LET q == req[r] IN
        /\ \A i \in DOMAIN q.taken : q.taken[i].dish = q.items[i] /\ q.taken[i] \in q.menu
        /\ q.kind = "order" /\ q.at = "granted" =>
              \A i \in DOMAIN q.items : \E o \in q.orders :
                  o.snapshot = i /\ (o.status = "PENDING" <=> q.taken[i].status = "ACTIVE")

\* Between requests, the row of a guest has a token a request wrote to it and that no later
\* refresh or logout had replaced, or none after a logout, in whatever order overlapping
\* requests wrote it, stopped and were answered.  (If the request that wrote it stopped
\* before its answer, the guest does not hold that token.)
RowTokenIsCurrent ==
    \A g \in Guests :
        (written[g] # {} /\ \A r \in Reqs : req[r].guest # g) =>
            guest[g].refreshToken \in (written[g] \ outdated[g]) \cup {LoggedOut}
=============================================================================
