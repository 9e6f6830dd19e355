--------------------------- MODULE PaymentLedger ---------------------------
(***************************************************************************)
(* What taking payments promises, without handlers, webhooks or retries:   *)
(* money moves one way only, the books say of a payment what became of     *)
(* its money, and a bill is settled by an entry whose money is in.  What   *)
(* the payment handlers do not exclude is an action of its own: settling   *)
(* can be undone (Reopen), and the books may go by what somebody says of a *)
(* transfer instead of its money (Believe).                                *)
(***************************************************************************)
CONSTANTS
    Bills,
    Pays,   \* payments that can be made
    None    \* no bill

VARIABLES
    money,    \* money[p]: not asked for, asked for, collected, or given up for good
    book,     \* book[p]: the entry made for payment p
    hearsay,  \* [pay, result]: what was said of a payment's money when it was not so
    settled   \* settled[b]: the method by which b counts as settled, or "NO"

vars == <<money, book, hearsay, settled>>

Blank == [status |-> "NONE", method |-> "NONE", bill |-> None]

Entered(p) == book[p].status # "NONE"

Init ==
    /\ money = [p \in Pays |-> "NONE"]
    /\ book = [p \in Pays |-> Blank]
    /\ hearsay = {}
    /\ settled = [b \in Bills |-> "NO"]

\* A customer is asked for a bank transfer.
Ask(p) ==
    /\ money[p] = "NONE" /\ ~Entered(p)
    /\ money' = [money EXCEPT ![p] = "ASKED"]
    /\ UNCHANGED <<book, hearsay, settled>>

Enter(p, b) ==
    /\ money[p] # "NONE" /\ ~Entered(p)
    /\ book' = [book EXCEPT ![p] =
                  [status |-> "PENDING", method |-> "BANK_TRANSFER", bill |-> b]]
    /\ UNCHANGED <<money, hearsay, settled>>

\* Money comes in through a transfer that has been entered, or in cash.
Collect(p) ==
    /\ money[p] = "ASKED" /\ Entered(p)
    /\ money' = [money EXCEPT ![p] = "COLLECTED"]
    /\ UNCHANGED <<book, hearsay, settled>>

TakeCash(p, b) ==
    /\ money[p] = "NONE" /\ ~Entered(p)
    /\ money' = [money EXCEPT ![p] = "COLLECTED"]
    /\ book' = [book EXCEPT ![p] = [status |-> "PAID", method |-> "CASH", bill |-> b]]
    /\ UNCHANGED <<hearsay, settled>>

\* Cancelled or expired: the customer cannot pay any more.
Void(p) ==
    /\ money[p] = "ASKED"
    /\ money' = [money EXCEPT ![p] = "VOID"]
    /\ UNCHANGED <<book, hearsay, settled>>

\* What became of p's money, when it is said to be PAID or CANCELLED.
SoItIs(p, s) == /\ s = "PAID" => money[p] = "COLLECTED"
                /\ s = "CANCELLED" => money[p] = "VOID"

\* It is said of a transfer that it is paid or given up, when it is not.
Believe(p, s) ==
    /\ book[p].method = "BANK_TRANSFER" /\ ~SoItIs(p, s)
    /\ hearsay' = hearsay \cup {[pay |-> p, result |-> s]}
    /\ UNCHANGED <<money, book, settled>>

Goes(p, s) == SoItIs(p, s) \/ [pay |-> p, result |-> s] \in hearsay

\* But for hearsay, the books never say PAID without the money, nor CANCELLED while it
\* could come in.
Note(p, s) ==
    /\ Entered(p) /\ Goes(p, s)
    /\ book' = [book EXCEPT ![p].status = s]
    /\ UNCHANGED <<money, hearsay, settled>>

Settle(p) ==
    /\ Entered(p) /\ Goes(p, "PAID")
    /\ book' = [book EXCEPT ![p].status = "PAID"]
    /\ settled' = [settled EXCEPT ![book[p].bill] = book[p].method]
    /\ UNCHANGED <<money, hearsay>>

Reopen(b) ==
    /\ settled' = [settled EXCEPT ![b] = "NO"]
    /\ UNCHANGED <<money, book, hearsay>>

Next ==
    \/ \E p \in Pays :
          \/ Ask(p) \/ Collect(p) \/ Void(p) \/ Settle(p)
          \/ \E b \in Bills : Enter(p, b) \/ TakeCash(p, b)
          \/ \E s \in {"PAID", "FAILED", "CANCELLED"} : Note(p, s) \/ Believe(p, s)
    \/ \E b \in Bills : Reopen(b)

Spec == Init /\ [][Next]_vars
=============================================================================
