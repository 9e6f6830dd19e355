----------------------------- MODULE MCOrderFeed -----------------------------
(* OrderFeed on small instances.                                           *)
EXTENDS OrderFeed, TLC

FeedSymmetry == Permutations(Orders) \cup Permutations(Tables) \cup Permutations(Tasks)
=============================================================================
