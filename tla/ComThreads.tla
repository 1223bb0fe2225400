------------------------------ MODULE ComThreads ------------------------------
(***************************************************************************)
(* COM in a process with many threads and one Python: the two locks of     *)
(* pywin32 (Python's interpreter lock and the framework lock of            *)
(* pywintypes), the initialization of Python by the first COM object, and  *)
(* the initialization of COM by Python and by its host.                    *)
(*                                                                         *)
(* A thread is what it still has to do: the steps of the functions that it *)
(* is in, the innermost first.                                             *)
(***************************************************************************)
EXTENDS Naturals, Sequences, FiniteSets

CONSTANTS Threads,     \* thread identifiers, which Windows uses again
          None,        \* no thread
          MaxObjects,  \* bound: gateways, wrappers and locks that are counted
          MaxInits     \* bound: initializations of COM by the host, and by
                       \* Python, per thread

ASSUME ThreadsAssumption == /\ None \notin Threads
                            /\ MaxObjects \in Nat /\ MaxInits \in Nat

VARIABLES todo,            \* [Threads -> the steps that the thread has to take]
          gil,             \* the thread that has the interpreter lock
          framework,       \* g_csMain: its owner and how often it was entered
          python,          \* the interpreter: down, starting or up
          imported,        \* the module pythoncom was imported
          lockCount,       \* g_cLockCount
          hasInitialized,  \* hasInitialized of PyCom_DLLAddRef
          objects,         \* things of COM that Python has, and that have it
          initThread,      \* g_dwCoInitThread
          hasInit,         \* g_bCoInitThreadHasInit
          sameThread,      \* initThread still is the thread that it was
          ole,             \* [Threads -> the apartment and how often it was entered]
          host,            \* [Threads -> the host's own initializations of COM]
          mine,            \* [Threads -> those that Python has to undo]
          overdrawn,       \* threads where Python undid one that was not its own
          ready            \* [Threads -> whether Python was told that COM is ready]

locks == <<gil, framework, python, imported>>
counted == <<lockCount, hasInitialized, objects>>
com == <<initThread, hasInit, sameThread, ole, host, mine, overdrawn, ready>>
vars == <<todo, locks, counted, com>>

-----------------------------------------------------------------------------
Modes == {"sta", "mta"}
Requests == Modes \cup {"any"}   \* PyCom_CoInitializeEx, PyCom_CoInitialize
Steps == {"lock", "unlock", "addref", "pyinit", "made", "release", "python", "body",
          "leave", "save", "restore", "failed", "uninit", "undone", "left"} \cup Requests
Outside == [mode |-> "none", count |-> 0]

\* The process is a Python program, or another one that Python serves.
Init == /\ todo = [t \in Threads |-> <<>>]
        /\ gil = None
        /\ framework = [owner |-> None, depth |-> 0]
        /\ python \in {"down", "up"}
        /\ imported = FALSE
        /\ lockCount = 0 /\ hasInitialized = FALSE /\ objects = 0
        /\ initThread = None /\ hasInit = FALSE /\ sameThread = TRUE
        /\ ole = [t \in Threads |-> Outside]
        /\ host = [t \in Threads |-> 0]
        /\ mine = [t \in Threads |-> 0]
        /\ overdrawn = {}
        /\ ready = [t \in Threads |-> "no"]

Idle(t) == todo[t] = <<>>
At(t, s) == todo[t] # <<>> /\ Head(todo[t]) = s
Then(t, steps) == todo' = [todo EXCEPT ![t] = steps \o Tail(@)]
Begin(t, steps) == Idle(t) /\ todo' = [todo EXCEPT ![t] = steps]

-----------------------------------------------------------------------------
(* The functions, as the steps they take *)

\* Mutant: the count is changed without the lock.
AddRefUnlocked == <<"addref">>
DLLAddRef == <<"lock", "addref", "unlock">>
DLLReleaseRef == <<"release">>
Make == DLLAddRef \o <<"made">>

DeleteWrapper == <<"save", "restore">> \o DLLReleaseRef

\* Mutant: the interpreter lock is released inside the framework lock.
InitializeInside(request) == <<"lock", "save", request, "restore", "unlock">>
CoInitialize(request) == <<"save", "lock", request, "unlock", "restore">>
CoUninitialize == <<"save", "lock", "uninit", "unlock", "restore">>
ImportPythoncom(mode) == <<"lock", mode, "unlock">>

CreateInstance == DLLAddRef \o <<"python">> \o DLLReleaseRef
DeleteGateway == <<"python">> \o DLLReleaseRef

-----------------------------------------------------------------------------
(* The locks *)

EnterFramework(t) ==
  /\ At(t, "lock")
  /\ framework.owner \in {None, t}
  /\ framework' = [owner |-> t, depth |-> framework.depth + 1]
  /\ Then(t, <<>>)
  /\ UNCHANGED <<gil, python, imported, counted, com>>

LeaveFramework(t) ==
  /\ At(t, "unlock")
  /\ framework' = [owner |-> IF framework.depth = 1 THEN None ELSE t,
                   depth |-> framework.depth - 1]
  /\ Then(t, <<>>)
  /\ UNCHANGED <<gil, python, imported, counted, com>>

\* CEnterLeavePython: a thread that has the interpreter lock goes on with it.
EnterPython(t) ==
  /\ At(t, "python")
  /\ gil \in {None, t}
  /\ gil' = t
  /\ Then(t, IF gil = t THEN <<"body">> ELSE <<"body", "leave">>)
  /\ UNCHANGED <<framework, python, imported, counted, com>>

GiveUpGil(t) ==
  /\ At(t, "leave") \/ At(t, "save")
  /\ gil' = None
  /\ Then(t, <<>>)
  /\ UNCHANGED <<framework, python, imported, counted, com>>

TakeGil(t) ==
  /\ At(t, "restore")
  /\ gil = None
  /\ gil' = t
  /\ Then(t, <<>>)
  /\ UNCHANGED <<framework, python, imported, counted, com>>

-----------------------------------------------------------------------------
(* The lock count and the start of Python *)

CountUp(t) ==
  /\ At(t, "addref")
  /\ lockCount' = lockCount + 1
  /\ LET first == lockCount' = 1 /\ ~hasInitialized IN
       /\ hasInitialized' = (hasInitialized \/ first)
       /\ python' = IF first /\ python = "down" THEN "starting" ELSE python
       /\ Then(t, IF first /\ python = "down" THEN <<"pyinit">> ELSE <<>>)
  /\ UNCHANGED <<gil, framework, imported, objects, com>>

\* Py_Initialize and the rest return; the interpreter lock is free.
PythonIsUp(t) ==
  /\ At(t, "pyinit")
  /\ python' = "up"
  /\ Then(t, <<>>)
  /\ UNCHANGED <<gil, framework, imported, counted, com>>

ObjectIsMade(t) ==
  /\ At(t, "made")
  /\ objects' = objects + 1
  /\ Then(t, <<>>)
  /\ UNCHANGED <<locks, lockCount, hasInitialized, com>>

CountDown(t) ==
  /\ At(t, "release")
  /\ lockCount' = lockCount - 1
  /\ Then(t, <<>>)
  /\ UNCHANGED <<locks, hasInitialized, objects, com>>

-----------------------------------------------------------------------------
(* The apartments *)

\* ole32: a thread enters an apartment once, and then only counts.
ChangedMode(t, mode) == ole[t].count > 0 /\ ole[t].mode # mode
OleInit(t, mode) == IF ChangedMode(t, mode) THEN ole
                    ELSE [ole EXCEPT ![t] = [mode |-> mode, count |-> @.count + 1]]
OleUninit(t) == [ole EXCEPT ![t] = IF @.count =< 1 THEN Outside
                                   ELSE [mode |-> @.mode, count |-> @.count - 1]]

\* Mutant: the thread is not compared.
AnyThreadHasInit(t) == hasInit
ThreadHasInit(t) == hasInit /\ initThread = t

ModeOf(request) == IF request = "any" THEN "sta" ELSE request
Told(t, how) == ready' = [ready EXCEPT ![t] = how]

\* PyCom_CoInitializeEx and PyCom_CoInitialize, in the framework lock.
AlreadyInit(t) ==
  /\ ThreadHasInit(t)
  /\ Told(t, "entered")
  /\ UNCHANGED <<initThread, hasInit, sameThread, ole, mine>>

\* CoInitializeEx raises RPC_E_CHANGED_MODE; CoInitialize ignores it, as "it
\* still means COM is ready for use on this thread".
AnotherMode(t, request) ==
  /\ ~ThreadHasInit(t) /\ ChangedMode(t, ModeOf(request))
  /\ IF request = "any" /\ ready[t] = "no" THEN Told(t, "borrowed") ELSE UNCHANGED ready
  /\ UNCHANGED <<initThread, hasInit, sameThread, ole, mine>>

EnterApartment(t, request) ==
  /\ ~ThreadHasInit(t) /\ ~ChangedMode(t, ModeOf(request))
  /\ ole' = OleInit(t, ModeOf(request))
  /\ mine' = [mine EXCEPT ![t] = @ + 1]
  /\ Told(t, "entered")
  /\ IF initThread = None /\ ole[t].count = 0
     THEN initThread' = t /\ hasInit' = TRUE /\ sameThread' = TRUE
     ELSE UNCHANGED <<initThread, hasInit, sameThread>>

InitializeCom(t) ==
  \E request \in Requests :
    /\ At(t, request)
    /\ Then(t, <<>>)
    /\ AlreadyInit(t) \/ AnotherMode(t, request) \/ EnterApartment(t, request)
    /\ UNCHANGED <<locks, counted, host, overdrawn>>

\* Both report another failure of ole32 with Python's logger, in the framework
\* lock.  Bound: a logger's own calls do not fail.
Reporting(t) == \E i \in DOMAIN todo[t] : todo[t][i] = "failed"
InitializeFails(t) ==
  /\ \E request \in Requests : At(t, request)
  /\ ~ThreadHasInit(t) /\ ~Reporting(t) /\ ole[t].count = 0
  /\ Then(t, <<"python", "failed">>)
  /\ UNCHANGED <<locks, counted, com>>

FailureIsReported(t) ==
  /\ At(t, "failed")
  /\ Then(t, <<>>)
  /\ UNCHANGED <<locks, counted, com>>

\* PyCom_CoUninitialize: on the first thread the flag decides, on another one
\* the caller.  The last CoUninitialize of a thread disconnects its objects,
\* which go.
UninitializeCom(t) ==
  /\ At(t, "uninit")
  /\ Told(t, "no")
  /\ IF initThread = t /\ ~hasInit
     THEN Then(t, <<>>) /\ UNCHANGED <<ole, mine, overdrawn, objects>>
     ELSE LET rest == IF initThread = t THEN <<"undone">> ELSE <<"left">> IN
          /\ ole' = OleUninit(t)
          /\ mine' = [mine EXCEPT ![t] = IF @ = 0 THEN 0 ELSE @ - 1]
          /\ overdrawn' = IF mine[t] = 0 /\ ole[t].count > 0 THEN overdrawn \cup {t}
                                                             ELSE overdrawn
          /\ \/ Then(t, rest) /\ UNCHANGED objects
             \/ /\ ole[t].count = 1 /\ objects > 0
                /\ objects' = objects - 1
                /\ Then(t, DeleteGateway \o rest)
  /\ UNCHANGED <<locks, lockCount, hasInitialized, initThread, hasInit, sameThread, host>>

\* PyCom_CoUninitialize has called ole32, which deletes Python objects.
Undoing(t) == \E i \in DOMAIN todo[t] : todo[t][i] \in {"undone", "left"}

\* Mutant: the flag stays set.
FlagStays == hasInit
FlagAfter == FALSE

\* ole32 returns; on the first thread the flag is cleared.
ComIsUndone(t) ==
  /\ \/ At(t, "undone") /\ hasInit' = FlagAfter
     \/ At(t, "left") /\ UNCHANGED hasInit
  /\ Told(t, "no")
  /\ Then(t, <<>>)
  /\ UNCHANGED <<locks, counted, initThread, sameThread, ole, host, mine, overdrawn>>

-----------------------------------------------------------------------------
(* Python code *)

ReturnFromPython(t) ==
  /\ At(t, "body")
  /\ Then(t, <<>>)
  /\ UNCHANGED <<locks, counted, com>>

Import(t) ==
  /\ At(t, "body") /\ ~imported
  /\ imported' = TRUE
  /\ \E mode \in Modes : Then(t, ImportPythoncom(mode))
  /\ UNCHANGED <<gil, framework, python, counted, com>>

\* A gateway or the wrapper of a COM object is made, or the wrapper deleted.
MakeObject(t) ==
  /\ At(t, "body") /\ imported /\ objects < MaxObjects
  /\ Then(t, Make)
  /\ UNCHANGED <<locks, counted, com>>

DropObject(t) ==
  /\ At(t, "body") /\ objects > 0
  /\ objects' = objects - 1
  /\ Then(t, DeleteWrapper)
  /\ UNCHANGED <<locks, lockCount, hasInitialized, com>>

CallCoInitialize(t) ==
  /\ At(t, "body") /\ imported
  /\ ThreadHasInit(t) \/ mine[t] < MaxInits
  /\ \E request \in Requests : Then(t, CoInitialize(request))
  /\ UNCHANGED <<locks, counted, com>>

\* On any thread, whatever was initialized there.
CallCoUninitialize(t) ==
  /\ At(t, "body") /\ imported
  /\ Then(t, CoUninitialize)
  /\ UNCHANGED <<locks, counted, com>>

Body(t) == ReturnFromPython(t) \/ Import(t) \/ MakeObject(t) \/ DropObject(t)
             \/ CallCoInitialize(t) \/ CallCoUninitialize(t)

-----------------------------------------------------------------------------
(* What the host and COM call *)

CallCreateInstance(t) ==
  /\ Begin(t, CreateInstance)
  /\ UNCHANGED <<locks, counted, com>>

\* A method of an object, or a Python thread that runs.
CallPython(t) ==
  /\ python = "up"
  /\ Begin(t, <<"python">>)
  /\ UNCHANGED <<locks, counted, com>>

ReleaseGateway(t) ==
  /\ objects > 0 /\ python = "up"
  /\ objects' = objects - 1
  /\ Begin(t, DeleteGateway)
  /\ UNCHANGED <<locks, lockCount, hasInitialized, com>>

CallLockServer(t) ==
  /\ \/ objects < MaxObjects /\ UNCHANGED objects /\ Begin(t, Make)
     \/ objects > 0 /\ objects' = objects - 1 /\ Begin(t, DLLReleaseRef)
  /\ UNCHANGED <<locks, lockCount, hasInitialized, com>>

HostInitializes(t) ==
  /\ Idle(t) /\ host[t] < MaxInits
  /\ \E mode \in Modes : /\ ~ChangedMode(t, mode)
                         /\ ole' = OleInit(t, mode)
  /\ host' = [host EXCEPT ![t] = @ + 1]
  /\ UNCHANGED <<todo, locks, counted, initThread, hasInit, sameThread, mine,
                 overdrawn, ready>>

HostUninitializes(t) ==
  /\ Idle(t) /\ host[t] > 0
  /\ ole' = OleUninit(t)
  /\ host' = [host EXCEPT ![t] = @ - 1]
  /\ UNCHANGED <<todo, locks, counted, initThread, hasInit, sameThread, mine,
                 overdrawn, ready>>

\* The thread ends, and another one gets its identifier.
ThreadEnds(t) ==
  /\ Idle(t)
  /\ ole' = [ole EXCEPT ![t] = Outside]
  /\ host' = [host EXCEPT ![t] = 0]
  /\ mine' = [mine EXCEPT ![t] = 0]
  /\ overdrawn' = overdrawn \ {t}
  /\ Told(t, "no")
  /\ sameThread' = (sameThread /\ initThread # t)
  /\ UNCHANGED <<todo, locks, counted, initThread, hasInit>>

Step(t) == EnterFramework(t) \/ LeaveFramework(t) \/ EnterPython(t) \/ GiveUpGil(t)
             \/ TakeGil(t) \/ CountUp(t) \/ PythonIsUp(t) \/ ObjectIsMade(t)
             \/ CountDown(t) \/ InitializeCom(t) \/ InitializeFails(t) \/ FailureIsReported(t)
             \/ UninitializeCom(t) \/ ComIsUndone(t) \/ Body(t)

Call(t) == CallCreateInstance(t) \/ CallPython(t) \/ ReleaseGateway(t) \/ CallLockServer(t)
             \/ HostInitializes(t) \/ HostUninitializes(t) \/ ThreadEnds(t)

Next == \E t \in Threads : Step(t) \/ Call(t)

Spec == Init /\ [][Next]_vars

-----------------------------------------------------------------------------
(* Properties *)

TypeOK == /\ todo \in [Threads -> Seq(Steps)]
          /\ gil \in Threads \cup {None}
          /\ framework \in [owner : Threads \cup {None}, depth : Nat]
          /\ python \in {"down", "starting", "up"}
          /\ lockCount \in Nat /\ objects \in Nat
          /\ imported \in BOOLEAN /\ hasInitialized \in BOOLEAN
          /\ initThread \in Threads \cup {None}
          /\ hasInit \in BOOLEAN /\ sameThread \in BOOLEAN
          /\ ole \in [Threads -> [mode : Modes \cup {"none"}, count : Nat]]
          /\ host \in [Threads -> 0..MaxInits]
          /\ mine \in [Threads -> Nat]
          /\ overdrawn \in SUBSET Threads
          /\ ready \in [Threads -> {"no", "borrowed", "entered"}]

\* No thread enters Python before it has been initialized completely,
\* whichever thread does that.
UpBeforeUse == \A t \in Threads : At(t, "python") => python = "up"

\* The identifier of an ended thread: g_dwCoInitThread is never reset.
Stale(t) == initThread = t /\ ~sameThread

\* On the first thread, whatever Python code calls there and in whatever
\* order, CoUninitialize undoes no initialization but Python's own: its host
\* stays in its apartment.  Another thread "must manage itself", and one that
\* balances a CoInitialize that met RPC_E_CHANGED_MODE undoes its host's.
HostKept == [][\A t \in Threads : t \in overdrawn' \ overdrawn =>
                                    initThread # t \/ Stale(t)]_vars

\* When Python was told that COM is ready, the thread is in an apartment until
\* CoUninitialize is called; where it is the host's, as long as anybody's
\* initialization is left.  Once Python has undone one of the host's the
\* thread is on its own.
ReadyMeansInside ==
  \A t \in Threads \ overdrawn :
    \/ ready[t] = "no" \/ Stale(t) \/ Undoing(t)
    \/ ole[t].count > 0
    \/ ready[t] = "borrowed" /\ host[t] + mine[t] = 0

\* In the framework lock a thread deletes a Python object or reports an
\* error, which needs the interpreter lock; the thread that has it makes an
\* object, which needs the framework lock.
Deadlocked == \E t, u \in Threads : /\ framework.owner = t /\ gil = u
                                    /\ At(t, "python") \/ At(t, "restore")
                                    /\ Undoing(t) \/ Reporting(t)
                                    /\ At(u, "lock")

\* Whoever cannot go on.
Blocked(t) == \/ At(t, "lock") /\ framework.owner \notin {None, t}
              \/ At(t, "python") /\ gil \notin {None, t}
              \/ At(t, "restore") /\ gil # None

\* The threads never wait for each other in any other way.
NoOtherDeadlock == \/ \A t \in Threads : Idle(t)
                   \/ \E t \in Threads : ~Idle(t) /\ ~Blocked(t)
                   \/ Deadlocked
=============================================================================
