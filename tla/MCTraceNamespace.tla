-------------------------- MODULE MCTraceNamespace --------------------------
(* Instances of TraceNamespace: two processes of one session, one of them *)
(* elevated, and an elevated one (a service) in another.                  *)
EXTENDS TraceNamespace, TLC

CONSTANTS p1, p2, p3, s1, s2

Sessions == p1 :> s1 @@ p2 :> s1 @@ p3 :> s2
=============================================================================
