---------------------------- MODULE MCTraceBuffer ----------------------------
(* Instances of TraceBuffer: how much each writer has to say. *)
EXTENDS TraceBuffer, TLC

CONSTANTS w1, w2

\* One text of several chunks, which fills the buffer, and a short one.
LongAndShort == w1 :> 3 @@ w2 :> 1

Even == [w \in Writers |-> MaxUnits]
=============================================================================
