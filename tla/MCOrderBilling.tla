--------------------------- MODULE MCOrderBilling --------------------------
(* OrderBilling on small instances.                                        *)
EXTENDS OrderBilling, TLC

OrderSymmetry == Permutations(Orders) \cup Permutations(Bills) \cup Permutations(Reqs)
=============================================================================
