--------------------------- MODULE MCBillPayment ---------------------------
(* BillPayment on small instances: one table, one or two bills of it.       *)
EXTENDS BillPayment, TLC, FiniteSets

MCTableOf == [b \in Bills |-> CHOOSE t \in Tables : TRUE]
ReqSymmetry == Permutations(Reqs)

\* Bounds of the two-handler run: staff leaves tables alone (its properties look at none),
\* failed attempts are told by redirects only (a FAILED webhook does to the rows what a
\* FAILED return does), and redirects speak against one link in one way.
RaceBound == /\ \A t \in Tables : tables[t] \in {"OCCUPIED", "CLEANING"}
             /\ \A n \in notices : n.result = "PAID"
             /\ Cardinality(hearsay) <= 1
=============================================================================
