------------------------------ MODULE ComServer ------------------------------
(***************************************************************************)
(* A local COM server written in Python: the process that localserver.py   *)
(* runs, with the lock count of dllmain.cpp that decides when it ends, the *)
(* class factory, the gateways that expose Python objects to COM, and the  *)
(* Python wrappers of COM objects.                                         *)
(*                                                                         *)
(* The server has one apartment (sys.coinit_flags = 2): every call of a    *)
(* client is a message of its main thread, and so is the WM_QUIT that ends *)
(* it.  While Python code waits for a call of its own to another process,  *)
(* the same thread handles further calls, nested in the first.             *)
(***************************************************************************)
EXTENDS Naturals, Sequences, FiniteSets

CONSTANTS Clients,   \* client threads, each with one call at a time
          Gateways,  \* gateway objects that may exist at a time
          None,      \* no gateway
          Quit       \* the WM_QUIT message

ASSUME ServerAssumption == /\ IsFiniteSet(Clients) /\ IsFiniteSet(Gateways)
                           /\ None \notin Gateways
                           /\ Quit \notin Clients

VARIABLES phase,       \* how far serve() has come
          quitThread,  \* dwQuitThreadId is set
          lockCount,   \* g_cLockCount
          queue,       \* the messages of the main thread
          stack,       \* the clients whose calls are being handled, innermost last
          call,        \* [Clients -> the call of the client]
          gw,          \* [Gateways -> the gateway object]
          held,        \* [Clients -> the gateways the client has a reference to]
          locks        \* the clients that have locked the server

vars == <<phase, quitThread, lockCount, queue, stack, call, gw, held, locks>>

-----------------------------------------------------------------------------
(* Data *)

Phases == {"start", "registered", "enabled", "resuming", "pumping",
           "left", "revoked", "ended"}
Ops == {"create", "lock", "unlock", "method", "query", "unknown", "release"}
Stages == {"none", "scm", "queued", "python", "made", "drop", "dropped", "done"}

\* keeps: the Python object has a COM object of a client.  A gateway that is
\* alive with no references is being deleted.
Gateway == [alive : BOOLEAN, refs : Nat, base : Gateways \cup {None}, keeps : BOOLEAN]
Free == [alive |-> FALSE, refs |-> 0, base |-> None, keeps |-> FALSE]

\* target: the gateway called; wrap: the gateway the Python result wraps;
\* result: what the client gets; dying: the gateways whose destructors wait
\* for the end of their Python object; late: WM_QUIT came first.
Call == [op : Ops, stage : Stages, target : Gateways \cup {None},
         wrap : Gateways \cup {None}, result : Gateways \cup {None},
         dying : SUBSET Gateways, late : BOOLEAN]
Idle == [op |-> "create", stage |-> "none", target |-> None, wrap |-> None,
         result |-> None, dying |-> {}, late |-> FALSE]

Init == /\ phase = "ended"
        /\ quitThread = FALSE
        /\ lockCount = 0
        /\ queue = <<>>
        /\ stack = <<>>
        /\ call = [c \in Clients |-> Idle]
        /\ gw = [g \in Gateways |-> Free]
        /\ held = [c \in Clients |-> {}]
        /\ locks = {}

Queued == {queue[i] : i \in DOMAIN queue}
Top(c) == stack # <<>> /\ stack[Len(stack)] = c
Pop == SubSeq(stack, 1, Len(stack) - 1)
Primary(g) == IF gw[g].base = None THEN g ELSE gw[g].base
FreeOnes == {g \in Gateways : ~gw[g].alive}

-----------------------------------------------------------------------------
(* The lock count *)

\* A second WM_QUIT is never read, so one in the queue is enough.
PostQuit(q) == IF quitThread /\ Quit \notin Queued THEN Append(q, Quit) ELSE q

\* n calls of PyCom_DLLAddRef, and n calls of PyCom_DLLReleaseRef, which see
\* the message queue q.
DLLAddRef(n) == lockCount' = lockCount + n
DLLReleaseRef(n, q) == /\ lockCount' = lockCount - n
                       /\ queue' = IF n > 0 /\ lockCount' = 0 THEN PostQuit(q) ELSE q

\* Mutant: CreateInstance without its lock.
NoTemporaryLock(c) == 0

\* The lock that CreateInstance holds while it makes an object.
TemporaryLock(c) == IF call[c].op = "create" THEN 1 ELSE 0

-----------------------------------------------------------------------------
(* serve() *)

\* The Python class factory object counts and un-counts itself: 0, 1, 0.
RegisterClassFactories ==
  /\ phase = "start"
  /\ phase' = "registered"
  /\ queue' = PostQuit(queue)
  /\ UNCHANGED <<quitThread, lockCount, stack, call, gw, held, locks>>

EnableQuitMessage ==
  /\ phase = "registered"
  /\ phase' = "enabled"
  /\ quitThread' = TRUE
  /\ UNCHANGED <<lockCount, queue, stack, call, gw, held, locks>>

CoResumeClassObjects ==
  /\ phase = "enabled"
  /\ phase' = "resuming"
  /\ UNCHANGED <<quitThread, lockCount, queue, stack, call, gw, held, locks>>

PumpMessages ==
  /\ phase = "resuming" /\ stack = <<>>
  /\ phase' = "pumping"
  /\ UNCHANGED <<quitThread, lockCount, queue, stack, call, gw, held, locks>>

\* GetMessage returns 0 for WM_QUIT: the loop is left, whatever is behind it.
LeaveLoop ==
  /\ phase = "pumping" /\ stack = <<>>
  /\ queue # <<>> /\ Head(queue) = Quit
  /\ phase' = "left"
  /\ queue' = Tail(queue)
  /\ UNCHANGED <<quitThread, lockCount, stack, call, gw, held, locks>>

RevokeClassFactories ==
  /\ phase = "left" /\ stack = <<>>
  /\ phase' = "revoked"
  /\ UNCHANGED <<quitThread, lockCount, queue, stack, call, gw, held, locks>>

\* The process ends: calls that are still in the queue fail.
CoUninitialize ==
  /\ phase = "revoked" /\ stack = <<>>
  /\ phase' = "ended"
  /\ queue' = <<>>
  /\ call' = [c \in Clients |-> IF call[c].stage = "scm" THEN call[c] ELSE Idle]
  /\ UNCHANGED <<quitThread, lockCount, stack, gw, held, locks>>

Serve == RegisterClassFactories \/ EnableQuitMessage \/ CoResumeClassObjects
           \/ PumpMessages \/ LeaveLoop \/ RevokeClassFactories \/ CoUninitialize

-----------------------------------------------------------------------------
(* The clients and COM's service control manager *)

\* A client asks for an object of the class.
Activate(c) ==
  /\ call[c].stage = "none"
  /\ call' = [call EXCEPT ![c] = [Idle EXCEPT !.stage = "scm"]]
  /\ UNCHANGED <<phase, quitThread, lockCount, queue, stack, gw, held, locks>>

\* With no server running, an activation starts one: a new process.
Launch ==
  /\ phase = "ended"
  /\ \E c \in Clients : call[c].stage = "scm"
  /\ phase' = "start"
  /\ quitThread' = FALSE
  /\ lockCount' = 0
  /\ gw' = [g \in Gateways |-> Free]
  /\ held' = [c \in Clients |-> {}]
  /\ locks' = {}
  /\ UNCHANGED <<queue, stack, call>>

Late == Quit \in Queued \/ phase \in {"left", "revoked"}

\* An activation reaches the class factory between CoResumeClassObjects and
\* CoRevokeClassObject.
Deliver(c) ==
  /\ call[c].stage = "scm"
  /\ phase \in {"resuming", "pumping", "left"}
  /\ call' = [call EXCEPT ![c].stage = "queued", ![c].late = Late]
  /\ queue' = Append(queue, c)
  /\ UNCHANGED <<phase, quitThread, lockCount, stack, gw, held, locks>>

Reached(op, c, g) ==
  \/ op \in {"method", "query", "release"} /\ g \in held[c]
  \/ op = "unknown" /\ g \in held[c] /\ gw[g].base # None /\ gw[g].base \notin held[c]
  \/ op = "lock" /\ g = None /\ c \notin locks /\ phase \in {"pumping", "left"}
  \/ op = "unlock" /\ g = None /\ c \in locks

\* A client calls the factory or an object that it has.
Send(c) ==
  /\ call[c].stage = "none"
  /\ phase # "ended"
  /\ \E op \in Ops, g \in Gateways \cup {None} :
        /\ Reached(op, c, g)
        /\ call' = [call EXCEPT ![c] = [Idle EXCEPT !.op = op, !.stage = "queued",
                                                    !.target = g, !.late = Late]]
  /\ queue' = Append(queue, c)
  /\ UNCHANGED <<phase, quitThread, lockCount, stack, gw, held, locks>>

-----------------------------------------------------------------------------
(* The main thread handles a call *)

\* Python code that calls another process, or COM itself, handles calls while
\* it waits; WM_QUIT stays in the queue.
RunsPython(c) == call[c].stage \in {"python", "made"} \/ call[c].dying # {}
Modal == IF stack = <<>> THEN phase \in {"resuming", "left", "revoked"}
                         ELSE RunsPython(stack[Len(stack)])
FirstCall(i) == /\ queue[i] # Quit
                /\ \A j \in 1..(i - 1) : queue[j] = Quit
CanHandle(i) == \/ i = 1 /\ queue[1] # Quit /\ phase = "pumping" /\ stack = <<>>
                \/ Modal /\ FirstCall(i)
Without(i) == [j \in 1..(Len(queue) - 1) |-> IF j < i THEN queue[j] ELSE queue[j + 1]]

Begin(c, stage) == /\ stack' = Append(stack, c)
                   /\ call' = [call EXCEPT ![c].stage = stage]

\* CreateInstance adds its temporary lock; Python code runs for these three.
HandlePython(c, i) ==
  /\ call[c].op \in {"create", "method", "query"}
  /\ Begin(c, "python")
  /\ queue' = Without(i)
  /\ DLLAddRef(TemporaryLock(c))
  /\ UNCHANGED <<gw, held, locks>>

HandleLockServer(c, i) ==
  /\ call[c].op \in {"lock", "unlock"}
  /\ Begin(c, "done")
  /\ IF call[c].op = "lock"
     THEN DLLAddRef(1) /\ locks' = locks \cup {c} /\ queue' = Without(i)
     ELSE DLLReleaseRef(1, Without(i)) /\ locks' = locks \ {c}
  /\ UNCHANGED <<gw, held>>

\* IUnknown comes from the base object.
HandleUnknown(c, i) ==
  LET b == gw[call[c].target].base IN
  /\ call[c].op = "unknown"
  /\ stack' = Append(stack, c)
  /\ call' = [call EXCEPT ![c].stage = "done", ![c].result = b]
  /\ queue' = Without(i)
  /\ gw' = [gw EXCEPT ![b].refs = @ + 1]
  /\ UNCHANGED <<lockCount, held, locks>>

\* Release: the last reference deletes a gateway, and with it a reference to
\* its base.  A Python object goes with the gateway that is the base of others.
Survives(g) == gw[g].refs > 1 \/ (gw[g].base # None /\ gw[gw[g].base].refs > 1)
Dying(g) == IF Survives(g) THEN {} ELSE {g, Primary(g)}
Gone(g) == gw[g].refs = 1 /\ Survives(g)
Released(g) ==
  LET b == gw[g].base IN
  IF gw[g].refs > 1 THEN [gw EXCEPT ![g].refs = @ - 1]
  ELSE IF b = None THEN [gw EXCEPT ![g].refs = 0]
  ELSE [gw EXCEPT ![b].refs = @ - 1,
                  ![g] = IF Gone(g) THEN Free ELSE [@ EXCEPT !.refs = 0, !.base = None]]

HandleRelease(c, i) ==
  LET g == call[c].target IN
  /\ call[c].op = "release"
  /\ stack' = Append(stack, c)
  /\ call' = [call EXCEPT ![c].stage = "done", ![c].dying = Dying(g)]
  /\ gw' = Released(g)
  /\ DLLReleaseRef(IF Gone(g) THEN 1 ELSE 0, Without(i))
  /\ held' = [held EXCEPT ![c] = @ \ {g}]
  /\ UNCHANGED locks

Handle(c) == /\ \E i \in DOMAIN queue :
                   /\ CanHandle(i) /\ queue[i] = c
                   /\ \/ HandlePython(c, i) \/ HandleLockServer(c, i)
                      \/ HandleUnknown(c, i) \/ HandleRelease(c, i)
             /\ UNCHANGED <<phase, quitThread>>

-----------------------------------------------------------------------------
(* The gateways and the Python objects behind them *)

At(c, stage) == Top(c) /\ call[c].dying = {} /\ call[c].stage = stage
Goto(c, stage) == call' = [call EXCEPT ![c].stage = stage]
New(base) == [alive |-> TRUE, refs |-> 1, base |-> base, keeps |-> FALSE]

\* The Python code fails, has no result, or does not support the interface.
NoResult(c) == /\ At(c, "python")
               /\ Goto(c, "done")
               /\ UNCHANGED <<lockCount, queue, gw>>

\* Python code makes an object: its gateway, and the PyIUnknown that wraps it.
WrapObject(c) ==
  /\ At(c, "python") /\ call[c].op \in {"create", "method"}
  /\ \E g \in FreeOnes :
        /\ gw' = [gw EXCEPT ![g] = New(None)]
        /\ call' = [call EXCEPT ![c].stage = "made", ![c].wrap = g]
  /\ DLLAddRef(2)
  /\ UNCHANGED queue

\* PyCom_InterfaceFromPyObject asks the new gateway for the interface: it
\* has it itself, ...
InterfaceIsOwn(c) ==
  /\ At(c, "made")
  /\ call' = [call EXCEPT ![c].stage = "drop", ![c].result = call[c].wrap]
  /\ gw' = [gw EXCEPT ![call[c].wrap].refs = @ + 1]
  /\ UNCHANGED <<lockCount, queue>>

\* ... or makes a second gateway with this one as its base, ...
InterfaceIsNew(c) ==
  /\ At(c, "made")
  /\ \E g \in FreeOnes :
        /\ gw' = [gw EXCEPT ![g] = New(call[c].wrap), ![call[c].wrap].refs = @ + 1]
        /\ call' = [call EXCEPT ![c].stage = "drop", ![c].result = g]
  /\ DLLAddRef(1)
  /\ UNCHANGED queue

\* ... or does not support it.
NoInterface(c) == /\ At(c, "made")
                  /\ Goto(c, "drop")
                  /\ UNCHANGED <<lockCount, queue, gw>>

\* Py_XDECREF(pNewInstance): the wrapper releases the gateway first, and is
\* no longer counted when that has been done.
DropWrapper(c) ==
  LET g == call[c].wrap IN
  /\ At(c, "drop")
  /\ gw' = Released(g)
  /\ call' = [call EXCEPT ![c].stage = "dropped", ![c].wrap = None, ![c].dying = Dying(g)]
  /\ UNCHANGED <<lockCount, queue>>

WrapperGone(c) == /\ At(c, "dropped")
                  /\ Goto(c, "done")
                  /\ DLLReleaseRef(1, queue)
                  /\ UNCHANGED gw

\* Mutant: the second gateway does not add a reference to its base.
SupportedWithoutBase(c) ==
  LET p == Primary(call[c].target) IN
  /\ At(c, "python") /\ call[c].op = "query"
  /\ \E g \in FreeOnes :
        /\ gw' = [gw EXCEPT ![g] = New(p)]
        /\ call' = [call EXCEPT ![c].stage = "done", ![c].result = g]
  /\ DLLAddRef(1)
  /\ UNCHANGED queue

\* QueryInterface of a gateway for an interface that Python code supports.
QuerySupported(c) ==
  LET p == Primary(call[c].target) IN
  /\ At(c, "python") /\ call[c].op = "query"
  /\ \E g \in FreeOnes :
        /\ gw' = [gw EXCEPT ![g] = New(p), ![p].refs = @ + 1]
        /\ call' = [call EXCEPT ![c].stage = "done", ![c].result = g]
  /\ DLLAddRef(1)
  /\ UNCHANGED queue

\* A method keeps a COM object of the client, or lets go of the one it has.
KeepCallback(c) ==
  LET p == Primary(call[c].target) IN
  /\ At(c, "python") /\ call[c].op = "method"
  /\ ~gw[p].keeps
  /\ gw' = [gw EXCEPT ![p].keeps = TRUE]
  /\ Goto(c, "done")
  /\ DLLAddRef(1)
  /\ UNCHANGED queue

DropCallback(c) ==
  LET p == Primary(call[c].target) IN
  /\ At(c, "python") /\ call[c].op = "method"
  /\ gw[p].keeps
  /\ gw' = [gw EXCEPT ![p].keeps = FALSE]
  /\ Goto(c, "done")
  /\ DLLReleaseRef(1, queue)

Deleting(c) == Top(c) /\ call[c].dying # {}

\* Mutant: the wrapper of a client's object is not un-counted with its owner.
InstanceStaysCounted(c) ==
  /\ Deleting(c)
  /\ \E g \in call[c].dying : /\ gw[g].keeps
                              /\ gw' = [gw EXCEPT ![g].keeps = FALSE]
  /\ UNCHANGED <<lockCount, queue, call>>

\* ~PyGatewayBase: what the Python object has is released with it, ...
DeleteInstance(c) ==
  /\ Deleting(c)
  /\ \E g \in call[c].dying : /\ gw[g].keeps
                              /\ gw' = [gw EXCEPT ![g].keeps = FALSE]
  /\ DLLReleaseRef(1, queue)
  /\ UNCHANGED call

\* ... and the lock count last.
DeleteDone(c) ==
  /\ Deleting(c)
  /\ \A g \in call[c].dying : ~gw[g].keeps
  /\ gw' = [g \in Gateways |-> IF g \in call[c].dying THEN Free ELSE gw[g]]
  /\ call' = [call EXCEPT ![c].dying = {}]
  /\ DLLReleaseRef(Cardinality(call[c].dying), queue)

\* Mutant: CreateInstance returns at once when it has no object.
ReturnEarly(c) ==
  /\ At(c, "done")
  /\ stack' = Pop
  /\ call' = [call EXCEPT ![c] = Idle]
  /\ held' = [held EXCEPT ![c] = @ \cup ({call[c].result} \ {None})]
  /\ DLLReleaseRef(IF call[c].result = None THEN 0 ELSE TemporaryLock(c), queue)
  /\ UNCHANGED <<phase, quitThread, gw, locks>>

\* The call returns to its client; CreateInstance drops its temporary lock.
Return(c) ==
  /\ At(c, "done")
  /\ stack' = Pop
  /\ call' = [call EXCEPT ![c] = Idle]
  /\ held' = [held EXCEPT ![c] = @ \cup ({call[c].result} \ {None})]
  /\ DLLReleaseRef(TemporaryLock(c), queue)
  /\ UNCHANGED <<phase, quitThread, gw, locks>>

Body(c) == /\ \/ NoResult(c) \/ WrapObject(c) \/ InterfaceIsOwn(c) \/ InterfaceIsNew(c)
              \/ NoInterface(c) \/ DropWrapper(c) \/ WrapperGone(c) \/ QuerySupported(c)
              \/ KeepCallback(c) \/ DropCallback(c) \/ DeleteInstance(c)
              \/ DeleteDone(c)
           /\ UNCHANGED <<phase, quitThread, stack, held, locks>>

Next == \/ Serve \/ Launch
        \/ \E c \in Clients : Activate(c) \/ Deliver(c) \/ Send(c) \/ Handle(c)
                                \/ Body(c) \/ Return(c)

\* Python code returns and COM's own calls come to an end, however many calls
\* are handled meanwhile; COM delivers what it has accepted.
Fairness == /\ SF_vars(Serve \/ Launch)
            /\ \A c \in Clients : SF_vars(Body(c) \/ Return(c)) /\ SF_vars(Handle(c) \/ Deliver(c))

Spec == Init /\ [][Next]_vars /\ Fairness

-----------------------------------------------------------------------------
(* Properties *)

TypeOK == /\ phase \in Phases
          /\ quitThread \in BOOLEAN
          /\ lockCount \in Nat
          /\ queue \in Seq(Clients \cup {Quit})
          /\ stack \in Seq(Clients)
          /\ call \in [Clients -> Call]
          /\ gw \in [Gateways -> Gateway]
          /\ held \in [Clients -> SUBSET Gateways]
          /\ locks \in SUBSET Clients

\* What PyCom_DLLAddRef was called for: gateways, Python wrappers of COM
\* objects, LockServer, and activations in progress.
Live == {g \in Gateways : gw[g].alive}
Keepers == {g \in Gateways : gw[g].keeps}
Wrapping == {c \in Clients : call[c].stage \in {"made", "drop", "dropped"}}
Creating == {c \in Clients : /\ call[c].op = "create"
                             /\ call[c].stage \notin {"none", "scm", "queued"}}

\* The lock count is exactly the number of things the server is needed for.
CountHeld == lockCount = Cardinality(Live) + Cardinality(Keepers)
                           + Cardinality(Wrapping) + Cardinality(Creating)
                           + Cardinality(locks)

\* Nobody has a pointer to a gateway that has been deleted or is being
\* deleted: not a client, not a gateway whose base it is, not a Python
\* wrapper, not a result on its way.
NoUseAfterDelete ==
  /\ \A c \in Clients : \A g \in held[c] \cup ({call[c].wrap, call[c].result} \ {None}) :
        gw[g].alive /\ gw[g].refs > 0
  /\ \A g \in Gateways : gw[g].base # None => gw[gw[g].base].refs > 0

InUse == Live # {} \/ Keepers # {} \/ Wrapping # {} \/ Creating # {} \/ locks # {}

\* WM_QUIT is posted only by the call that leaves nothing behind: no client
\* has an object or a lock, and no object is being made.
PostedWhenUnused == Quit \notin Queued /\ Quit \in Queued' => stack \o stack' # <<>> /\ ~InUse'

\* An activation or a call fails because the server ends only if it came
\* after the WM_QUIT.
EarlyHandled == \A c \in Clients : CoUninitialize /\ call[c].stage = "queued" => call[c].late

\* The end of the server takes nothing from a client that came in time.
QuitWhenUnused == [][PostedWhenUnused /\ EarlyHandled]_vars

\* A server that is not in use does not stay: it comes into use or it ends.
UnusedServerEnds == (phase = "pumping" /\ ~InUse) ~> (InUse \/ phase = "ended")
=============================================================================
