--------------------------- MODULE MCAuthSession ---------------------------
(* AuthSession on small instances.                                         *)
EXTENDS AuthSession, TLC

SessionSymmetry == Permutations(Tokens) \cup Permutations(Reqs) \cup Permutations(Devices)
=============================================================================
