----------------------------- MODULE MCTraceMap -----------------------------
(* Instances of TraceMap: who lives where.  Handle values are given out     *)
(* without regard to their order, so they are interchangeable.              *)
EXTENDS TraceMap, TLC

CONSTANTS p1, p2, t1, t2

\* Two processes of one thread each.
Apart == t1 :> p1 @@ t2 :> p2

\* Bound: a poor process is looked at while the others have opened nothing.
PoorAlone ==
  poor = {} \/ \A p \in Procs \ poor : ~tracer[p] /\ \A h \in Values : handles[p][h] = Free

ValueSymmetry == Permutations(Values)
=============================================================================
