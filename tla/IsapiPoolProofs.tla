--------------------------- MODULE IsapiPoolProofs ---------------------------
(***************************************************************************)
(* Proofs about the thread pool of the ISAPI extension, for any number of  *)
(* workers and requests, tokens that fail and workers that are late        *)
(* included.                                                               *)
(***************************************************************************)
EXTENDS IsapiPool, FiniteSetTheorems, TLAPS

LEMMA TypeInit == Init => TypeOK
BY PoolAssumption DEF Init, TypeOK, Ended

LEMMA TypeStep == TypeOK /\ [Next]_vars => TypeOK'
<1> SUFFICES ASSUME TypeOK, [Next]_vars PROVE TypeOK'
  OBVIOUS
<1> USE PoolAssumption DEF TypeOK, Ended, Goto, iis, queued
<1>1. CASE HostStep
  <2>1. ASSUME NEW w \in Workers, StartWorker(w) PROVE TypeOK'
    BY <2>1 DEF StartWorker
  <2>2. ASSUME NEW r \in Requests, HttpExtensionProc(r) PROVE TypeOK'
    BY <2>2 DEF HttpExtensionProc
  <2>3. CASE PoolStarted \/ TerminateExtension \/ AllEnded \/ GiveUp \/ ClosePort
    BY <2>3 DEF PoolStarted, TerminateExtension, AllEnded, GiveUp, ClosePort
  <2>4. CASE PostShutdowns
    <3>1. Cardinality(Workers) \in Nat
      BY FS_CardinalityType
    <3> QED BY <2>4, <3>1 DEF PostShutdowns
  <2> QED BY <1>1, <2>1, <2>2, <2>3, <2>4 DEF HostStep
<1>2. ASSUME NEW w \in Workers, WorkerStep(w) PROVE TypeOK'
  <2>1. CASE RunStarts(w) \/ Loop(w) \/ PortGone(w) \/ GetDispatcher(w)
    BY <2>1 DEF RunStarts, Loop, PortGone, GetDispatcher
  <2>2. CASE TakeRequest(w)
    <3>1. Head(port) \in Requests /\ Tail(port) \in Seq(Requests)
      BY <2>2 DEF TakeRequest
    <3> QED BY <2>2, <3>1 DEF TakeRequest
  <2>3. CASE TakeShutdown(w)
    BY <2>3 DEF TakeShutdown
  <2>4. CASE Impersonate(w) \/ TokenFails(w) \/ DispatchRaises(w) \/ Revert(w)
    BY <2>4 DEF Impersonate, TokenFails, DispatchRaises, Revert
  <2>5. CASE Dispatch(w) \/ HandleDispatchError(w) \/ HandlerRaises(w)
    BY <2>5 DEF Dispatch, HandleDispatchError, HandlerRaises
  <2> QED BY <1>2, <2>1, <2>2, <2>3, <2>4, <2>5 DEF WorkerStep
<1>3. CASE UNCHANGED vars
  BY <1>3 DEF vars
<1> QED BY <1>1, <1>2, <1>3 DEF Next

(***************************************************************************)
(* The user a worker acts for.                                             *)
(***************************************************************************)
LEMMA UserStep == TypeOK /\ ActsForItsUser /\ [Next]_vars => ActsForItsUser'
<1> SUFFICES ASSUME TypeOK, ActsForItsUser, [Next]_vars PROVE ActsForItsUser'
  OBVIOUS
<1> USE DEF TypeOK, ActsForItsUser, Ended, Goto, iis, queued
<1>1. ASSUME NEW w \in Workers, StartWorker(w) PROVE ActsForItsUser'
  BY <1>1 DEF StartWorker
<1>2. ASSUME NEW r \in Requests, HttpExtensionProc(r) PROVE ActsForItsUser'
  BY <1>2 DEF HttpExtensionProc
<1>3. CASE \/ PoolStarted \/ TerminateExtension \/ PostShutdowns \/ AllEnded \/ GiveUp
           \/ ClosePort
  BY <1>3 DEF PoolStarted, TerminateExtension, PostShutdowns, AllEnded, GiveUp, ClosePort
<1>4. ASSUME NEW w \in Workers, WorkerStep(w) PROVE ActsForItsUser'
  <2>1. CASE RunStarts(w) \/ Loop(w) \/ PortGone(w) \/ GetDispatcher(w)
    BY <2>1 DEF RunStarts, Loop, PortGone, GetDispatcher
  <2>2. CASE TakeRequest(w) \/ TakeShutdown(w) \/ TokenFails(w)
    BY <2>2 DEF TakeRequest, TakeShutdown, TokenFails
  <2>3. CASE Impersonate(w)
    BY <2>3 DEF Impersonate
  <2>4. CASE Dispatch(w) \/ DispatchRaises(w) \/ HandleDispatchError(w) \/ HandlerRaises(w)
    BY <2>4 DEF Dispatch, DispatchRaises, HandleDispatchError, HandlerRaises
  <2>5. CASE Revert(w)
    BY <2>5 DEF Revert
  <2> QED BY <1>4, <2>1, <2>2, <2>3, <2>4, <2>5 DEF WorkerStep
<1>5. CASE UNCHANGED vars
  BY <1>5 DEF vars
<1> QED BY <1>1, <1>2, <1>3, <1>4, <1>5 DEF Next, HostStep

(***************************************************************************)
(* A shutdown message for each worker.                                     *)
(***************************************************************************)

\* Nobody comes back to life, and whoever takes a message ends by it.
LEMMA AliveStep ==
  TypeOK /\ [Next]_vars =>
    /\ Alive' \subseteq Alive
    /\ \/ UNCHANGED shutdowns
       \/ PostShutdowns
       \/ /\ shutdowns > 0 /\ shutdowns' = shutdowns - 1
          /\ \E w \in Alive : Alive' = Alive \ {w}
<1> SUFFICES ASSUME TypeOK, [Next]_vars
             PROVE  /\ Alive' \subseteq Alive
                    /\ \/ UNCHANGED shutdowns
                       \/ PostShutdowns
                       \/ /\ shutdowns > 0 /\ shutdowns' = shutdowns - 1
                          /\ \E w \in Alive : Alive' = Alive \ {w}
  OBVIOUS
<1> DEFINE Fewer == Alive' \subseteq Alive /\ UNCHANGED shutdowns
<1> USE DEF TypeOK, Alive, Ended, Goto, iis, queued
<1>1. ASSUME NEW w \in Workers, StartWorker(w) PROVE Fewer
  BY <1>1 DEF StartWorker
<1>2. CASE \/ PoolStarted \/ TerminateExtension \/ AllEnded \/ GiveUp \/ ClosePort
           \/ \E r \in Requests : HttpExtensionProc(r)
  BY <1>2 DEF PoolStarted, TerminateExtension, AllEnded, GiveUp, ClosePort,
              HttpExtensionProc
<1>3. CASE PostShutdowns
  BY <1>3 DEF PostShutdowns
<1>4. ASSUME NEW w \in Workers, WorkerStep(w), ~TakeShutdown(w) PROVE Fewer
  BY <1>4 DEF WorkerStep, RunStarts, Loop, TakeRequest, PortGone, GetDispatcher, Impersonate,
              TokenFails, Dispatch, DispatchRaises, HandleDispatchError, HandlerRaises, Revert
<1>5. ASSUME NEW w \in Workers, TakeShutdown(w)
      PROVE  /\ Alive' = Alive \ {w} /\ w \in Alive
             /\ shutdowns > 0 /\ shutdowns' = shutdowns - 1
  BY <1>5 DEF TakeShutdown
<1>6. CASE UNCHANGED vars
  BY <1>6 DEF vars
<1> QED BY <1>1, <1>2, <1>3, <1>4, <1>5, <1>6 DEF Next, HostStep

LEMMA ShutdownStep == TypeOK /\ ShutdownForEach /\ [Next]_vars => ShutdownForEach'
<1> SUFFICES ASSUME TypeOK, ShutdownForEach, [Next]_vars,
                    host' \in {"polling", "closing", "closed"}
             PROVE  Cardinality(Alive') =< shutdowns'
  BY DEF ShutdownForEach
<1>1. IsFiniteSet(Alive) /\ Alive \subseteq Workers /\ Cardinality(Alive) \in Nat
  BY PoolAssumption, FS_Subset, FS_CardinalityType DEF Alive
<1>2. Alive' \subseteq Alive
  BY AliveStep
<1>3. Cardinality(Alive') =< Cardinality(Alive) /\ Cardinality(Alive') \in Nat
  BY <1>1, <1>2, FS_Subset, FS_CardinalityType
<1>4. CASE PostShutdowns
  <2>1. Cardinality(Alive') =< Cardinality(Workers)
    BY <1>1, <1>2, PoolAssumption, FS_Subset
  <2> QED BY <1>4, <2>1 DEF PostShutdowns
<1>5. ASSUME ~PostShutdowns PROVE host \in {"polling", "closing", "closed"}
  BY <1>5 DEF Next, HostStep, WorkerStep, StartWorker, HttpExtensionProc, PoolStarted,
      TerminateExtension, AllEnded, GiveUp, ClosePort, RunStarts, Loop, TakeRequest,
      TakeShutdown, PortGone, GetDispatcher, Impersonate, TokenFails, Dispatch,
      DispatchRaises, HandleDispatchError, HandlerRaises, Revert, vars, iis
<1>6. CASE UNCHANGED shutdowns /\ ~PostShutdowns
  BY <1>1, <1>3, <1>5, <1>6 DEF ShutdownForEach, TypeOK
<1>7. ASSUME NEW w \in Alive, Alive' = Alive \ {w}, shutdowns' = shutdowns - 1,
             ~PostShutdowns
      PROVE  Cardinality(Alive') =< shutdowns'
  <2>1. Cardinality(Alive \ {w}) = Cardinality(Alive) - 1
    BY <1>1, <1>7, FS_RemoveElement
  <2> QED BY <1>1, <1>5, <1>7, <2>1 DEF ShutdownForEach, TypeOK
<1> QED BY <1>4, <1>6, <1>7, AliveStep

(***************************************************************************)
(* Where a request is.                                                     *)
(***************************************************************************)
Once == /\ \A i, j \in DOMAIN port : port[i] = port[j] => i = j
        /\ \A w, v \in Workers : work[w] = work[v] /\ work[w] # None => w = v
        /\ \A i \in DOMAIN port, w \in Workers : port[i] # work[w]

Known == /\ \A i \in DOMAIN port : session[port[i]] = "pending"
         /\ \A r \in Requests :
              /\ session[r] = "none" => \A w \in Workers : work[w] # r
              /\ session[r] = "pending" => \/ \E i \in DOMAIN port : port[i] = r
                                           \/ \E w \in Workers : work[w] = r

Holding == \A w \in Workers :
  /\ pc[w] \in {"unborn", "born", "loop", "wait", "ended"} => work[w] = None
  /\ pc[w] \in {"taken", "connect", "dispatch", "error"} =>
       work[w] \in Requests /\ session[work[w]] = "pending"
  /\ pc[w] = "leave" => work[w] \in Requests /\ session[work[w]] \in {"pending", "done"}
  /\ pc[w] = "revert" => work[w] \in Requests /\ session[work[w]] = "done"

Tracked == Once /\ Known /\ Holding

LEMMA TrackedInit == Init => Tracked
<1> SUFFICES ASSUME Init PROVE Tracked
  OBVIOUS
<1>1. DOMAIN port = {}
  BY DEF Init
<1>2. \A w \in Workers : pc[w] = "unborn" /\ work[w] = None
  BY DEF Init
<1>3. \A r \in Requests : session[r] = "none"
  BY DEF Init
<1>4. Once
  BY <1>1, <1>2 DEF Once
<1>5. Known
  BY <1>1, <1>2, <1>3, PoolAssumption DEF Known
<1>6. Holding
  BY <1>2 DEF Holding
<1> QED BY <1>4, <1>5, <1>6 DEF Tracked

LEMMA TrackedStep == TypeOK /\ Tracked /\ [Next]_vars => Tracked'
<1> SUFFICES ASSUME TypeOK, Tracked, [Next]_vars PROVE Tracked'
  OBVIOUS
<1> USE PoolAssumption DEF TypeOK, Tracked, Once, Known, Holding, Ended, Goto, iis, queued
<1>1. ASSUME NEW w \in Workers, StartWorker(w) PROVE Tracked'
  BY <1>1 DEF StartWorker
<1>2. ASSUME NEW r \in Requests, HttpExtensionProc(r) PROVE Tracked'
  <2>1. /\ DOMAIN port' = 1..(Len(port) + 1) /\ DOMAIN port = 1..Len(port)
        /\ \A i \in DOMAIN port : port'[i] = port[i]
        /\ port'[Len(port) + 1] = r
        /\ Len(port) \in Nat
    BY <1>2 DEF HttpExtensionProc
  <2>2. session[r] = "none" /\ session' = [session EXCEPT ![r] = "pending"]
        /\ UNCHANGED <<pc, work>>
    BY <1>2 DEF HttpExtensionProc
  <2>3. \A i \in DOMAIN port : port[i] # r
    BY <2>2
  <2>4. Once'
    BY <2>1, <2>2, <2>3
  <2>5. Known'
    BY <2>1, <2>2, <2>3
  <2>6. Holding'
    BY <2>2
  <2> QED BY <2>4, <2>5, <2>6
<1>3. CASE \/ PoolStarted \/ TerminateExtension \/ PostShutdowns \/ AllEnded \/ GiveUp
           \/ ClosePort
  BY <1>3 DEF PoolStarted, TerminateExtension, PostShutdowns, AllEnded, GiveUp, ClosePort
<1>4. ASSUME NEW w \in Workers, WorkerStep(w) PROVE Tracked'
  <2>1. CASE RunStarts(w) \/ Loop(w) \/ PortGone(w) \/ GetDispatcher(w)
    BY <2>1 DEF RunStarts, Loop, PortGone, GetDispatcher
  <2>2. CASE TakeShutdown(w) \/ TokenFails(w) \/ Impersonate(w) \/ DispatchRaises(w)
    BY <2>2 DEF TakeShutdown, TokenFails, Impersonate, DispatchRaises
  <2>3. CASE TakeRequest(w)
    <3>1. /\ DOMAIN port = 1..Len(port) /\ Len(port) \in Nat /\ Len(port) > 0
          /\ DOMAIN port' = 1..(Len(port) - 1)
          /\ \A i \in DOMAIN port' : port'[i] = port[i + 1] /\ i + 1 \in DOMAIN port
          /\ Head(port) = port[1] /\ 1 \in DOMAIN port
      BY <2>3 DEF TakeRequest
    <3>2. /\ work' = [work EXCEPT ![w] = port[1]] /\ work[w] = None
          /\ pc[w] = "wait" /\ pc' = [pc EXCEPT ![w] = "taken"]
          /\ UNCHANGED session
      BY <2>3, <3>1 DEF TakeRequest
    <3>3. Once'
      BY <3>1, <3>2
    <3>4. ASSUME NEW i \in DOMAIN port PROVE i = 1 \/ (i - 1 \in DOMAIN port' /\ port'[i - 1] = port[i])
      BY <3>1
    <3>5. Known'
      <4>1. \A i \in DOMAIN port' : session'[port'[i]] = "pending"
        BY <3>1, <3>2
      <4>2. \A r \in Requests : session'[r] = "none" => \A v \in Workers : work'[v] # r
        BY <3>1, <3>2
      <4>3. ASSUME NEW r \in Requests, session'[r] = "pending"
            PROVE  \/ \E i \in DOMAIN port' : port'[i] = r
                   \/ \E v \in Workers : work'[v] = r
        <5>1. CASE \E i \in DOMAIN port : port[i] = r
          BY <5>1, <3>2, <3>4
        <5>2. CASE \E v \in Workers : work[v] = r
          BY <5>2, <3>2
        <5> QED BY <4>3, <3>2, <5>1, <5>2
      <4> QED BY <4>1, <4>2, <4>3
    <3>6. Holding'
      BY <3>1, <3>2
    <3> QED BY <3>3, <3>5, <3>6
  <2>4. CASE Dispatch(w) \/ HandleDispatchError(w) \/ HandlerRaises(w)
    <3>1. PICK left \in {"pending", "done"}, stage \in {"revert", "leave"} :
            /\ stage = "revert" => left = "done"
            /\ pc[w] \in {"dispatch", "error"}
            /\ pc' = [pc EXCEPT ![w] = stage]
            /\ session' = [session EXCEPT ![work[w]] = left]
            /\ UNCHANGED <<port, work>>
      BY <2>4 DEF Dispatch, HandleDispatchError, HandlerRaises
    <3>2. work[w] \in Requests /\ session[work[w]] # "none"
      BY <3>1
    <3>3. /\ \A i \in DOMAIN port : port[i] # work[w]
          /\ \A v \in Workers : work[v] = work[w] => v = w
      BY <3>2
    <3>4. Once'
      BY <3>1
    <3>5. Known'
      BY <3>1, <3>2, <3>3
    <3>6. Holding'
      BY <3>1, <3>2, <3>3
    <3> QED BY <3>4, <3>5, <3>6
  <2>5. CASE Revert(w)
    BY <2>5 DEF Revert
  <2> QED BY <1>4, <2>1, <2>2, <2>3, <2>4, <2>5 DEF WorkerStep
<1>5. CASE UNCHANGED vars
  BY <1>5 DEF vars
<1> QED BY <1>1, <1>2, <1>3, <1>4, <1>5 DEF Next, HostStep

LEMMA TrackedInOnePlace == TypeOK /\ Tracked => InOnePlace
<1> SUFFICES ASSUME TypeOK, Tracked, NEW r \in Requests
             PROVE  LET places == {i \in DOMAIN port : port[i] = r}
                        holders == {w \in Workers : work[w] = r}
                    IN IF session[r] = "pending"
                       THEN Cardinality(places) + Cardinality(holders) = 1
                       ELSE places = {}
  BY DEF InOnePlace
<1> DEFINE places == {i \in DOMAIN port : port[i] = r}
           holders == {w \in Workers : work[w] = r}
<1> USE PoolAssumption DEF Tracked, Once, Known
<1>1. Cardinality({}) = 0
  BY FS_EmptySet
<1>2. ASSUME session[r] = "pending" PROVE Cardinality(places) + Cardinality(holders) = 1
  <2>1. CASE \E i \in DOMAIN port : port[i] = r
    <3>1. PICK i \in DOMAIN port : port[i] = r
      BY <2>1
    <3>2. places = {i} /\ holders = {}
      BY <3>1
    <3>3. Cardinality(places) = 1 /\ Cardinality(holders) = 0
      <4> HIDE DEF places, holders
      <4> QED BY <1>1, <3>2, FS_Singleton
    <3> HIDE DEF places, holders
    <3> QED BY <3>3
  <2>2. CASE \E w \in Workers : work[w] = r
    <3>1. PICK w \in Workers : work[w] = r
      BY <2>2
    <3>2. places = {} /\ holders = {w}
      BY <3>1
    <3>3. Cardinality(places) = 0 /\ Cardinality(holders) = 1
      <4> HIDE DEF places, holders
      <4> QED BY <1>1, <3>2, FS_Singleton
    <3> HIDE DEF places, holders
    <3> QED BY <3>3
  <2> QED BY <1>2, <2>1, <2>2
<1>3. ASSUME session[r] # "pending" PROVE places = {}
  BY <1>3
<1> QED BY <1>2, <1>3

(***************************************************************************)
(* A request that is pending is on its way.                                *)
(***************************************************************************)

\* A worker that starts while the extension serves stays with the port: it
\* has not begun, it was killed by an exception, or its loop goes on.
Employed ==
  /\ host \in {"start", "serving"} =>
       /\ shutdowns = 0
       /\ \A w \in Workers : pc[w] \notin {"unborn", "born", "dead"} =>
                             running[w] /\ pc[w] # "ended"
  /\ host = "serving" => \A w \in Workers : pc[w] # "unborn"

\* While the extension serves, a pending request is held by a worker that is
\* busy with it or died of it, or it is in the port, where every worker that is
\* alive will look again.
RequestIsOnItsWay ==
  host = "serving" =>
    /\ \A r \in Requests : session[r] = "pending" =>
         \/ \E w \in Workers :
               /\ work[w] = r
               /\ pc[w] \in {"taken", "connect", "dispatch", "error", "leave", "dead"}
         \/ \E i \in DOMAIN port : port[i] = r
    /\ \A w \in Alive : pc[w] = "born" \/ running[w]

LEMMA EmployedStep == TypeOK /\ Employed /\ [Next]_vars => Employed'
<1> SUFFICES ASSUME TypeOK, Employed, [Next]_vars PROVE Employed'
  OBVIOUS
<1> USE DEF TypeOK, Employed, Ended, Goto, iis, queued
<1>1. ASSUME NEW w \in Workers, StartWorker(w) PROVE Employed'
  BY <1>1 DEF StartWorker
<1>2. ASSUME NEW r \in Requests, HttpExtensionProc(r) PROVE Employed'
  BY <1>2 DEF HttpExtensionProc
<1>3. CASE PoolStarted
  BY <1>3 DEF PoolStarted
<1>4. CASE TerminateExtension \/ PostShutdowns \/ AllEnded \/ GiveUp \/ ClosePort
  BY <1>4 DEF TerminateExtension, PostShutdowns, AllEnded, GiveUp, ClosePort
<1>5. ASSUME NEW w \in Workers, WorkerStep(w) PROVE Employed'
  <2>1. CASE RunStarts(w) \/ Loop(w) \/ PortGone(w) \/ GetDispatcher(w)
    BY <2>1 DEF RunStarts, Loop, PortGone, GetDispatcher
  <2>2. CASE TakeRequest(w) \/ TakeShutdown(w) \/ TokenFails(w)
    BY <2>2 DEF TakeRequest, TakeShutdown, TokenFails
  <2>3. CASE Impersonate(w) \/ Revert(w)
    BY <2>3 DEF Impersonate, Revert
  <2>4. CASE Dispatch(w) \/ DispatchRaises(w) \/ HandleDispatchError(w) \/ HandlerRaises(w)
    BY <2>4 DEF Dispatch, DispatchRaises, HandleDispatchError, HandlerRaises
  <2> QED BY <1>5, <2>1, <2>2, <2>3, <2>4 DEF WorkerStep
<1>6. CASE UNCHANGED vars
  BY <1>6 DEF vars
<1> QED BY <1>1, <1>2, <1>3, <1>4, <1>5, <1>6 DEF Next, HostStep

(***************************************************************************)
(* The theorems.                                                           *)
(***************************************************************************)
LEMMA Invariants == Spec => [](TypeOK /\ ActsForItsUser /\ ShutdownForEach /\ Tracked)
<1>1. Init => TypeOK /\ ActsForItsUser /\ ShutdownForEach /\ Tracked
  BY TypeInit, TrackedInit DEF Init, ActsForItsUser, ShutdownForEach
<1> QED BY <1>1, TypeStep, UserStep, ShutdownStep, TrackedStep, PTL DEF Spec

\* Dispatch and the rendering of an error run under the token of the request's
\* user, and the worker drops it before it looks for more work, however they
\* ended.
THEOREM WorkersActForTheirUser == Spec => [](TypeOK /\ ActsForItsUser)
BY Invariants, PTL

\* A request that was answered HSE_STATUS_PENDING is never dispatched twice and
\* never dropped between the port and a worker.
THEOREM RequestsInOnePlace == Spec => []InOnePlace
BY Invariants, TrackedInOnePlace, PTL

\* Once TerminateExtension has posted its messages no worker that is alive is
\* without one, whether it is late to start, waiting or busy.
THEOREM ShutdownReachesAll == Spec => []ShutdownForEach
BY Invariants, PTL

\* No request is forgotten: as long as the extension serves, whoever waits for
\* an answer has a worker that is at it or is queued before workers that have
\* not left, whatever exceptions ended others.
THEOREM SpecRequestIsOnItsWay == Spec => []RequestIsOnItsWay
<1>1. Init => Employed
  BY DEF Init, Employed
<1>2. TypeOK /\ Tracked /\ Employed => RequestIsOnItsWay
  <2> SUFFICES ASSUME TypeOK, Tracked, Employed, host = "serving" PROVE RequestIsOnItsWay
    BY DEF RequestIsOnItsWay
  <2>1. ASSUME NEW r \in Requests, session[r] = "pending"
        PROVE  \/ \E w \in Workers :
                     /\ work[w] = r
                     /\ pc[w] \in {"taken", "connect", "dispatch", "error", "leave", "dead"}
               \/ \E i \in DOMAIN port : port[i] = r
    <3>1. CASE \E w \in Workers : work[w] = r
      BY <2>1, <3>1, PoolAssumption DEF Tracked, Holding, TypeOK, Ended
    <3> QED BY <2>1, <3>1 DEF Tracked, Known
  <2>2. \A w \in Alive : pc[w] = "born" \/ running[w]
    BY DEF Employed, Alive, Ended
  <2> QED BY <2>1, <2>2 DEF RequestIsOnItsWay
<1> QED BY <1>1, <1>2, EmployedStep, Invariants, PTL DEF Spec
=============================================================================
