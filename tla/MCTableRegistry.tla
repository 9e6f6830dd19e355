--------------------------- MODULE MCTableRegistry ---------------------------
(* TableRegistry on a small instance.                                       *)
EXTENDS TableRegistry, TLC

Symmetry == Permutations(Rows) \cup Permutations(Numbers) \cup Permutations(Orders)
=============================================================================
