---------------------------- MODULE MCQueryCache ----------------------------
(***************************************************************************)
(* Model checking of QueryCache: three queries and a ring of two entries,  *)
(* so that entries are filled again while they are read; two threads, so   *)
(* that one reads, or asks the database, while the other fills.            *)
(***************************************************************************)
EXTENDS QueryCache, TLC

CONSTANTS a, b, q1, q2, q3

MCWorker == {a, b}
MCQuery == {q1, q2, q3}
MCKnown == {q1, q2}
MCSize == 2

\* The two queries with a row can be exchanged, and so can the threads.
MCSymmetry == Permutations(MCWorker) \cup Permutations(MCKnown)

=============================================================================
