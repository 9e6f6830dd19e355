----------------------------- MODULE BillTotals -----------------------------
(***************************************************************************)
(* The arithmetic of a bill (bill.utils.ts): calculateBillTotals at        *)
(* createBill, validatePaymentAmount and calculateChange at                *)
(* createCashPayment.  BillReports bills, takes cash and adds up with it.  *)
(*                                                                         *)
(* Amounts are whole dong.  For those, rate * amount is computed exactly   *)
(* enough in a double for Math.round to see on which side of a half it is, *)
(* so Math.round(x / n) is the integer division below, for negative x too. *)
(***************************************************************************)
EXTENDS Integers

\* x / 20 and x / 10, rounded to the nearest integer, halves upwards.
Twentieth(x) == (x + 10) \div 20
Tenth(x)     == (x + 5) \div 10

ServiceCharge(sub) == Twentieth(sub)

\* Mutant of TaxAmount: the discount is left out of its base.
TaxBeforeDiscount(sub, disc) == Tenth(sub + ServiceCharge(sub))
TaxAmount(sub, disc) == Tenth(sub + ServiceCharge(sub) - disc)

TotalAmount(sub, disc) == sub + ServiceCharge(sub) + TaxAmount(sub, disc) - disc

calculateBillTotals(sub, disc) ==
    [subtotal |-> sub, discountAmount |-> disc, serviceCharge |-> ServiceCharge(sub),
     taxAmount |-> TaxAmount(sub, disc), totalAmount |-> TotalAmount(sub, disc)]

ValidCash(total, received) == received > 0 /\ received >= total

calculateChange(total, received) == IF received >= total THEN received - total ELSE 0

-----------------------------------------------------------------------------
\* Three roundings, one inside another, never drift: the total is within 1.05 dong of
\* the exact (1 + 10%) * ((1 + 5%) * subtotal - discount) the rates stand for.
IsFair(b) ==
    1000 * b.totalAmount - (1155 * b.subtotal - 1100 * b.discountAmount) \in -1050..1050

\* What stays in the drawer after the change is the bill's total.
Balances(total, received) == received - calculateChange(total, received) = total
=============================================================================
