---------------------------- MODULE MCComThreads ----------------------------
(* Instances of ComThreads.  No thread is special before it acts, so their *)
(* identifiers are interchangeable.                                        *)
EXTENDS ComThreads, TLC

ThreadSymmetry == Permutations(Threads)

\* Bound: the host has COM on one thread at a time.
OneHost == Cardinality({t \in Threads : host[t] > 0 \/ t \in overdrawn}) =< 1
=============================================================================
