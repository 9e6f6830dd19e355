---------------------------- MODULE MCGuestVisit ----------------------------
(* GuestVisit on a small instance.                                          *)
EXTENDS GuestVisit, TLC

Symmetry == Permutations(Dishes)

\* A bound: once all tokens have been signed, nothing is ordered any more.
OrdersBeforeLastToken == signed = MaxTokens => \A r \in Reqs : req[r].kind # "order"
=============================================================================
