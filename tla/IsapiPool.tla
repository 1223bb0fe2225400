------------------------------ MODULE IsapiPool ------------------------------
(***************************************************************************)
(* The thread pool of isapi/threaded_extension.py: IIS calls               *)
(* GetExtensionVersion once, HttpExtensionProc for every request and       *)
(* TerminateExtension at the end; the workers take requests from a         *)
(* completion port and dispatch them to the extension, each under the      *)
(* token of the request's user.  The GIL may change hands between any two  *)
(* steps of a worker.                                                      *)
(*                                                                         *)
(* External: IIS, which sends requests between the first call and the last *)
(* only, so that nothing is posted after the shutdown messages; and the    *)
(* port, a queue.  What a sub-class does in Dispatch is to end the session *)
(* of the request or to raise.                                             *)
(***************************************************************************)
EXTENDS Naturals, Sequences, FiniteSets

CONSTANTS Workers,      \* max_workers threads
          Requests,
          None,         \* no request, no user
          TokenMayFail, \* GetImpersonationToken or SetThreadToken may raise
          MayBeLate     \* a worker may outlive worker_shutdown_wait

ASSUME PoolAssumption == /\ IsFiniteSet(Workers)
                         /\ None \notin Requests
                         /\ TokenMayFail \in BOOLEAN
                         /\ MayBeLate \in BOOLEAN

VARIABLES
  host,       \* how far IIS is with the extension
  pc,         \* where each worker is; "dead": it ended by an exception
  running,    \* worker.running
  work,       \* the request a worker has taken from the port
  token,      \* the user a worker impersonates: the request he made
  port,       \* the requests queued in io_req_port
  shutdowns,  \* ISAPI_SHUTDOWN messages queued behind them
  dispatch,   \* dispatch_map has its entry
  session     \* each request: "none", "pending" or "done"

iis == <<host, session>>
queued == <<port, shutdowns>>
vars == <<iis, pc, running, work, token, queued, dispatch>>

Ended == {"ended", "dead"}
Alive == {w \in Workers : pc[w] \notin Ended}

Init == /\ host = "start"
        /\ pc = [w \in Workers |-> "unborn"]
        /\ running = [w \in Workers |-> FALSE]
        /\ work = [w \in Workers |-> None]
        /\ token = [w \in Workers |-> None]
        /\ port = << >>
        /\ shutdowns = 0
        /\ dispatch = TRUE
        /\ session = [r \in Requests |-> "none"]

Goto(w, from, to) == pc[w] = from /\ pc' = [pc EXCEPT ![w] = to]

(***************************************************************************)
(* The calls of IIS.                                                       *)
(***************************************************************************)
StartWorker(w) == /\ host = "start"
                  /\ Goto(w, "unborn", "born")
                  /\ UNCHANGED <<iis, running, work, token, queued, dispatch>>

PoolStarted == /\ host = "start"
               /\ \A w \in Workers : pc[w] # "unborn"
               /\ host' = "serving"
               /\ UNCHANGED <<session, pc, running, work, token, queued, dispatch>>

\* PostQueuedCompletionStatus; the answer is HSE_STATUS_PENDING.
HttpExtensionProc(r) == /\ host = "serving" /\ session[r] = "none"
                        /\ session' = [session EXCEPT ![r] = "pending"]
                        /\ port' = Append(port, r)
                        /\ UNCHANGED <<host, pc, running, work, token, shutdowns, dispatch>>

TerminateExtension == /\ host = "serving"
                      /\ host' = "posting"
                      /\ running' = [w \in Workers |-> FALSE]
                      /\ UNCHANGED <<session, pc, work, token, queued, dispatch>>

\* Mutant of PostShutdowns: one message for each worker that waits just now.
PostToWaiting == /\ host = "posting"
                 /\ host' = "polling"
                 /\ shutdowns' = Cardinality({w \in Workers : pc[w] = "wait"})
                 /\ UNCHANGED <<session, pc, running, work, token, port, dispatch>>

\* One message for every worker, whatever it is doing.
PostShutdowns == /\ host = "posting"
                 /\ host' = "polling"
                 /\ shutdowns' = Cardinality(Workers)
                 /\ UNCHANGED <<session, pc, running, work, token, port, dispatch>>

\* The map is emptied to "break circles", when the last worker has ended ...
AllEnded == /\ host = "polling"
            /\ Alive = {}
            /\ host' = "closing"
            /\ dispatch' = FALSE
            /\ UNCHANGED <<session, pc, running, work, token, queued>>

\* ... or after worker_shutdown_wait.
GiveUp == /\ host = "polling"
          /\ MayBeLate
          /\ host' = "closing"
          /\ dispatch' = FALSE
          /\ UNCHANGED <<session, pc, running, work, token, queued>>

ClosePort == /\ host = "closing"
             /\ host' = "closed"
             /\ UNCHANGED <<session, pc, running, work, token, queued, dispatch>>

(***************************************************************************)
(* WorkerThread.run                                                        *)
(***************************************************************************)
RunStarts(w) == /\ Goto(w, "born", "loop")
                /\ running' = [running EXCEPT ![w] = TRUE]
                /\ UNCHANGED <<iis, work, token, queued, dispatch>>

Loop(w) == /\ Goto(w, "loop", IF running[w] THEN "wait" ELSE "ended")
           /\ UNCHANGED <<iis, running, work, token, queued, dispatch>>

\* Mutant of TakeRequest: the request stays in the port.
PeekRequest(w) == /\ host # "closed" /\ port # << >>
                  /\ Goto(w, "wait", "taken")
                  /\ work' = [work EXCEPT ![w] = Head(port)]
                  /\ UNCHANGED <<iis, running, token, queued, dispatch>>

TakeRequest(w) == /\ host # "closed" /\ port # << >>
                  /\ Goto(w, "wait", "taken")
                  /\ work' = [work EXCEPT ![w] = Head(port)]
                  /\ port' = Tail(port)
                  /\ UNCHANGED <<iis, running, token, shutdowns, dispatch>>

TakeShutdown(w) == /\ host # "closed" /\ port = << >> /\ shutdowns > 0
                   /\ Goto(w, "wait", "ended")
                   /\ shutdowns' = shutdowns - 1
                   /\ UNCHANGED <<iis, running, work, token, port, dispatch>>

\* A port that is closed gives an error, key 0 and the map no dispatcher.
PortGone(w) == /\ host = "closed"
               /\ Goto(w, "wait", "dead")
               /\ UNCHANGED <<iis, running, work, token, queued, dispatch>>

\* "Bad request" when the map is empty.
GetDispatcher(w) == /\ Goto(w, "taken", IF dispatch THEN "connect" ELSE "dead")
                    /\ UNCHANGED <<iis, running, work, token, queued, dispatch>>

(***************************************************************************)
(* DispatchConnection                                                      *)
(***************************************************************************)
Impersonate(w) == /\ Goto(w, "connect", "dispatch")
                  /\ token' = [token EXCEPT ![w] = work[w]]
                  /\ UNCHANGED <<iis, running, work, queued, dispatch>>

\* Both calls are made before the try: the exception ends the worker.
TokenFails(w) == /\ TokenMayFail
                 /\ Goto(w, "connect", "dead")
                 /\ UNCHANGED <<iis, running, work, token, queued, dispatch>>

Dispatch(w) == /\ Goto(w, "dispatch", "revert")
               /\ session' = [session EXCEPT ![work[w]] = "done"]
               /\ UNCHANGED <<host, running, work, token, queued, dispatch>>

DispatchRaises(w) == /\ Goto(w, "dispatch", "error")
                     /\ UNCHANGED <<iis, running, work, token, queued, dispatch>>

\* Mutant of HandleDispatchError: the session is left open.
ErrorUnfinished(w) == /\ Goto(w, "error", "revert")
                      /\ UNCHANGED <<iis, running, work, token, queued, dispatch>>

\* Mutant of HandleDispatchError: goes on in the loop as the user it served.
ErrorUnreverted(w) == /\ Goto(w, "error", "loop")
                      /\ session' = [session EXCEPT ![work[w]] = "done"]
                      /\ work' = [work EXCEPT ![w] = None]
                      /\ UNCHANGED <<host, running, token, queued, dispatch>>

\* Whatever happens while the error is rendered, DoneWithSession is called ...
HandleDispatchError(w) == /\ Goto(w, "error", "revert")
                          /\ session' = [session EXCEPT ![work[w]] = "done"]
                          /\ UNCHANGED <<host, running, work, token, queued, dispatch>>

\* ... but setting HttpStatusCode, printing what went wrong and DoneWithSession
\* itself may raise: the exception leaves, before or after the session is done.
HandlerRaises(w) == /\ Goto(w, "error", "leave")
                    /\ \E left \in {"pending", "done"} :
                         session' = [session EXCEPT ![work[w]] = left]
                    /\ UNCHANGED <<host, running, work, token, queued, dispatch>>

\* "reset the security context", also on the way out.
Revert(w) == /\ \/ Goto(w, "revert", "loop") /\ work' = [work EXCEPT ![w] = None]
                \/ Goto(w, "leave", "dead") /\ UNCHANGED work
             /\ token' = [token EXCEPT ![w] = None]
             /\ UNCHANGED <<iis, running, queued, dispatch>>

WorkerStep(w) == \/ RunStarts(w) \/ Loop(w) \/ TakeRequest(w) \/ TakeShutdown(w)
                 \/ PortGone(w) \/ GetDispatcher(w) \/ Impersonate(w) \/ TokenFails(w)
                 \/ Dispatch(w) \/ DispatchRaises(w) \/ HandleDispatchError(w)
                 \/ HandlerRaises(w) \/ Revert(w)

HostStep == \/ \E w \in Workers : StartWorker(w)
            \/ \E r \in Requests : HttpExtensionProc(r)
            \/ PoolStarted \/ TerminateExtension \/ PostShutdowns \/ AllEnded
            \/ GiveUp \/ ClosePort

Next == HostStep \/ \E w \in Workers : WorkerStep(w)

Spec == Init /\ [][Next]_vars

\* The workers are scheduled, Dispatch returns, and a termination goes on;
\* that it gives up in time is nothing the workers may count on.
FairSpec == /\ Spec
            /\ \A w \in Workers : WF_vars(WorkerStep(w))
            /\ WF_vars(PostShutdowns \/ AllEnded \/ ClosePort)

(***************************************************************************)
(* Properties                                                              *)
(***************************************************************************)
TypeOK ==
  /\ host \in {"start", "serving", "posting", "polling", "closing", "closed"}
  /\ pc \in [Workers -> {"unborn", "born", "loop", "wait", "taken", "connect", "dispatch",
                         "error", "revert", "leave"} \cup Ended]
  /\ running \in [Workers -> BOOLEAN]
  /\ work \in [Workers -> Requests \cup {None}]
  /\ token \in [Workers -> Requests \cup {None}]
  /\ port \in Seq(Requests)
  /\ shutdowns \in Nat
  /\ dispatch \in BOOLEAN
  /\ session \in [Requests -> {"none", "pending", "done"}]

\* Nobody acts for a stranger: the extension's code runs as the user of its
\* request, and a worker that takes the next request, or has ended, is nobody.
ActsForItsUser ==
  \A w \in Workers :
    token[w] = IF pc[w] \in {"dispatch", "error", "revert", "leave"} THEN work[w]
                                                                    ELSE None

\* A request that was answered "pending" is in the port or with one worker,
\* and with nobody else, until its session is done.
InOnePlace ==
  \A r \in Requests :
    LET places == {i \in DOMAIN port : port[i] = r}
        holders == {w \in Workers : work[w] = r}
    IN IF session[r] = "pending" THEN Cardinality(places) + Cardinality(holders) = 1
                                 ELSE places = {}

\* However the workers end, every one that is left has a message to end it.
ShutdownForEach ==
  host \in {"polling", "closing", "closed"} => Cardinality(Alive) =< shutdowns

\* A termination ends every worker.
WorkersEnd == host = "polling" ~> Alive = {}

\* A request is served unless the extension is terminated, or the worker that
\* has it, or all workers, have died.
RequestServed ==
  \A r \in Requests :
    session[r] = "pending" ~> \/ session[r] = "done" \/ host # "serving"
                              \/ \E w \in Workers : pc[w] = "dead" /\ work[w] = r
                              \/ Alive = {}
=============================================================================
