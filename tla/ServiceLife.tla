----------------------------- MODULE ServiceLife -----------------------------
(***************************************************************************)
(* What a service tells the service control manager (SCM) of itself, as    *)
(* the SCM records it: a service that is started runs or stops, one that   *)
(* runs goes through "stop pending" or directly to "stopped", and only a   *)
(* new start takes it out of "stopped".  While it is pending every report  *)
(* carries a larger check point, so that the SCM sees progress.            *)
(***************************************************************************)
EXTENDS Naturals

CONSTANT Services

VARIABLES state,  \* state[s]: the state the SCM records for service s
          check   \* check[s]: the check point that came with it

lifeVars == <<state, check>>

LifeInit == /\ state = [s \in Services |-> "STOPPED"]
            /\ check = [s \in Services |-> 0]

\* What a service tells next: state st with check point c.
Tells(s, st, c) == /\ state' = [state EXCEPT ![s] = st]
                   /\ check' = [check EXCEPT ![s] = c]

Start(s) == state[s] = "STOPPED" /\ Tells(s, "START_PENDING", 0)

Run(s) == state[s] = "START_PENDING" /\ Tells(s, "RUNNING", 0)

Stopping(s) == /\ state[s] \in {"RUNNING", "STOP_PENDING"}
               /\ check'[s] > check[s]
               /\ Tells(s, "STOP_PENDING", check'[s])

Stopped(s) == state[s] # "STOPPED" /\ Tells(s, "STOPPED", 0)

LifeNext == \E s \in Services : Start(s) \/ Run(s) \/ Stopping(s) \/ Stopped(s)

LifeSpec == LifeInit /\ [][LifeNext]_lifeVars
=============================================================================
