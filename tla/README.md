# A TLA+ development of pywin32

This directory holds TLA+ models of the parts of pywin32 that keep state of
their own and are shared by threads, processes or callbacks, the TLC
configurations that check them on small instances, and proofs, checked by
TLAPS, that the main properties hold for every value of the constants.
`PROJECT.json` lists the runs, maps every definition to the lines it models,
and names the hazards and the properties that cover them. Paths below are
relative to the repository.

1. The system: components, state, interaction, hazards
2. The modules and how they correspond to the code
3. The runs: what each asks and shows; bounds; fairness
4. What is proved, from which assumptions, along which argument
5. What the models say about the code that its comments do not
6. What is only model-checked, what is not modelled, what comes next

## 1. The system

pywin32 is a set of Python extension modules for Windows. Most of its 1,700
files are thin wrappers: one call of Windows each, conversions around it, no
state between calls. The state that can go wrong is in a few places.

**win32trace** (`win32/src/win32trace.cpp`, `win32/Lib/win32traceutil.py`). A
debugging channel between processes. State shared by all processes: a memory
mapped section of 128 KB (a length word, then text), a mutex, and two
auto-reset events, `hEvent` (there is text) and `hEventEmpty` (it was read).
State of a process: one trace object with a handle and a view for reading and
one pair for writing, and the choice between the namespace of the session and
the global one. Operations: `write`, `read`, `blockingread`, `InitRead`,
`InitWrite`, `TermRead`, `TermWrite`, the initialisation of the module, the
collector's loop. The GIL is released for every system call. Hard: two events
and a mutex with a 10 second timeout shared by any number of threads; a writer
that gives the mutex up in the middle of its operation; processes that end with
the mutex held; Term in one thread under a read in another; imports that race.
Wanted: text is read once, in the order written, or discarded whole; memory
accesses stay in the section; no lost wakeup; every write returns; handles are
neither leaked nor closed twice; processes of a session find each other.

**Services** (`win32/src/PythonService.cpp`, `win32/Lib/win32serviceutil.py`).
The host process registers with the service control manager (SCM), which calls
`service_main` in a thread per service and the control handler in the
dispatcher thread. State: a table entry per service (class, status handle,
callback, flags), and in Python the `ServiceFramework` instance with its check
point and the event its `SvcStop` sets. Operations: registration, the start of
`SvcRun`, status reports, controls, and on the client's side stop, restart and
wait. Hard: two threads report the status of one service; anything in the
user's class may fail, and a service that is never reported as stopped is a
zombie the SCM cannot start again; entries are reused when a service starts
again in a shared process. Wanted: the SCM always sees a legal life with
growing check points; controls find a complete object; an accepted stop ends in
STOPPED; no zombies.

**ISAPI thread pool** (`isapi/threaded_extension.py`). A completion port, up to
20 workers, a dispatch map, the token a worker impersonates. Operations: the
three calls of IIS and the loop of the workers. Hard: shutdown against queued
requests, slow and late-starting workers, and a worker that dies of an
exception. Wanted: every request that was answered "pending" is dispatched at
most once, and served while the extension is up; nobody runs as a stranger;
a termination ends every worker.

**COM local server** (`com/win32com/src/dllmain.cpp`, `PyFactory.cpp`,
`PyGatewayBase.cpp`, `PyIUnknown.cpp`, `com/win32com/server/localserver.py`,
`factory.py`). State: a lock count for the whole process, the reference counts
and base pointers of the gateways that expose Python objects, the thread that
gets WM_QUIT when the count falls to zero, the message queue of that thread.
Operations: `serve`, `CreateInstance`, `LockServer`, `QueryInterface`, method
calls, `Release`, the destructors. Hard: calls of other clients are handled
while Python waits for a call of its own, in the middle of a destructor too;
counts go up and down in different objects; activations arrive between WM_QUIT
and the revocation of the factories. Wanted: no gateway is used after its
deletion, the count is what the server is needed for, the server is told to quit
only when it is unused, and then ends.

**COM, Python and their locks** (`dllmain.cpp`, `PythonCOM.cpp`,
`win32/src/PyWinTypesmodule.cpp`). State: the interpreter lock, the framework
lock of pywintypes, whether Python was started by the first COM object, the
record of the thread that initialised COM first. Operations: the count with its
lock, entry into Python from any thread, `CoInitializeEx`, `CoUninitialize`,
`import pythoncom`. Hard: two locks taken in two orders; the first two objects
made at once; any order of initialisations by Python and by its host, on threads
whose identifiers Windows uses again. Wanted: nobody enters Python before it is
up, no deadlock, the first thread's host keeps the apartment it made ("other threads
must manage themselves"), a thread that was told success is in one.

**ActiveX scripting** (`com/win32comext/axscript/client/framework.py`,
`pyscript.py`, the host `server/axsite.py`). A state machine of six states with
code blocks, named items and event connections, driven by a host that asks for
any state in any order, and by script code that calls the host, which calls the
engine again. Hard: that re-entry, in the middle of `SetScriptState`, of the loop
over the pending blocks and of the handling of an error. Wanted: Close is final,
code runs once, items are connected only while the engine runs, the site is
told of every end, a state asked for is reached.

**Pythonwin output window** (`Pythonwin/pywin/framework/winout.py`, the idle
handlers of `app.py`). A queue filled by all threads and emptied by the main
thread, in idle time or at the end of a line it prints itself, into a window that
may be closed, made again or re-entered through pumped messages; `flush()` empties
the queue on whatever thread calls it, next to the main thread, and the message that
wakes the main thread may fail. Wanted: text appears, in order, is not lost while a
window can be had, and stays.

**Pythonwin association manager** (`Pythonwin/win32assoc.cpp`). A map from C++
addresses to weak references with a cache of one entry. Wanted: a lookup never
returns the object of an earlier owner of the address. Not modelled.

The rest (gateways and policies, makepy, the debuggers, the ISAPI bridge,
performance counters, ODBC, memory mapped file objects, time zones, the
wrappers, Scintilla, build and tests) is listed in `PROJECT.json` with the
reason why it is not modelled.

The components hardly interact with each other: each meets Windows (events,
mutexes, the SCM, completion ports, COM), Python's GIL and the user's code.
Those sides are modelled inside the component's module and marked external.

## 2. The modules

| module | what it models |
|---|---|
| `TraceLog` | abstract: what win32trace promises, a bounded log |
| `TraceBuffer` | `WriteData`, `ReadData` and the system objects, step by step |
| `TraceMap`, `MCTraceMap` | Init/Term/use of the section, handle and view tables |
| `TraceNamespace`, `MCTraceNamespace` | the choice of namespace at import |
| `ServiceLife` | abstract: the life of a service as the SCM records it |
| `ServiceHost` | `service_main`, `dispatchServiceCtrl`, `ServiceFramework` |
| `IsapiPool` | `WorkerThread` and `ThreadPoolExtension` |
| `ComServer` | `serve`, the class factory, gateways, wrappers and the lock count |
| `ComThreads` | the interpreter lock, the framework lock, the start of Python, COM per thread |
| `ScriptEngine` | `COMScript` and `PyScript` under the host `AXEngine` |
| `OutputWindow` | `WindowOutput` with the idle loop of the application |
| `MCTraceBuffer`, `MCTraceMap`, `MCTraceNamespace` | functions as values of constants, symmetry |
| `MCComThreads` | symmetry and the constraint of the runs of `ComThreads` |
| `TraceBufferProofs` | theorems on the buffer, the abstract log and the refinement |
| `TraceMapProofs` | theorems on the section, its handles and views |
| `ServiceHostProofs`, `IsapiPoolProofs` | theorems on the services and the pool |
| `ComServerProofs`, `ComThreadsProofs` | theorems on the COM server and its locks |
| `ScriptEngineProofs`, `OutputWindowProofs` | theorems on the engine and the window |

`TraceLog` and `ServiceLife` are abstract specifications, instantiated by
`TraceBuffer` and `ServiceHost`, which are shown to implement them. Properties stand in
the module they are about; the MC modules only give functions as values of
constants, the symmetry sets and the constraints of `TraceMap` and `ComThreads`. An operator named in a comment as a mutant is a plausible
wrong version of the action next to it, kept to show that a property would
notice; it is not part of any specification.

### TraceBuffer

One action is one system call or one access to the section. `pc[t]` is where
thread `t` is in `WriteData` (`lock room nudge drain relock fit copy grow unlock
signal`) or `ReadData` (`await awaitTimed lock fetch reset unlock signal`).
`owner`, `dataEvent` and `emptyEvent` are the mutex and the events; `len` and
`mem` are the section; `rem` and `sent` are `len` and `data_this` of
`WriteData`; `result` is the block `ReadData` allocates. `taken` is a history
variable, the text of all reads in order. Text is counted in units, each
labelled with its writer and number.

- `GetMyMutex` refuses only `WAIT_FAILED`. A wait of 10 seconds that expires goes
  on like one that succeeded (`MutexMayTimeOut`), and so does an abandoned mutex.
- `SizeLeft` is unsigned and wraps at `WordSpan`.
- `Grow` models `*pLen += len_this` on shared memory: the compiler may reuse the
  value it gave to memcpy or load it again, so the old value is either one.
- `DrainExpired` is the writer's bounded wait for room.
- `Crash` ends a process at any step: the mutex becomes abandoned, the rest of
  the text is never written, and a new process takes the thread's place.
- `Budget` is how much each writer ever writes, at most `MaxUnits`.

The refinement mapping to `TraceLog` reads the log as the first `len` cells of
`mem`; a chunk counts as written from the store of the new length on.

### TraceMap and TraceNamespace

`TraceMap` has the fields of the trace object (`hMapFile`, `pMapBase`, by side)
and, external, the handle and view tables of each process. A section exists
while some handle or view refers to it and keeps its name while there is a
handle; the value of a closed handle is given out again, to win32trace or to the
rest of the process (`OtherOpen`, `OtherClose`). Threads of a process share the
trace object. `poor` are the processes whose `CreateFileMapping` and
`MapViewOfFile` may fail at any time; the set is chosen when the system starts. The check that opens a call is one step with the GIL held; each
system call of `DoOpenMap`, `DoCloseMap` and the access itself is another.
`MaxSections` bounds how many sections exist at a time: `CreateFileMapping` finds
the section with the name, or needs one that nobody maps any more.

`TraceNamespace` follows the initialisation: create the local mapping, look
whether it existed, if not try the global one, close both, create mutex and
events. A mapping exists while somebody holds it, for probing or for good.

### ServiceLife and ServiceHost

`ServiceHost` has for each service: where its thread is (`main`), the two fields
of the table entry that matter (`handle`, `handler`), the event and the check
point of its instance, and `prepared`, the check point taken but not yet sent.
`ReportServiceStatus` is two steps, because the GIL may change hands between
taking the check point and `SetServiceStatus`. The dispatcher (`ctrl`, `hpc`,
`hPrepared`) runs one control at a time for all services. `scm` is what the SCM
has recorded. `StoreHandler` is the release of the callback that the table entry had
before: the pointer that a refused registration leaves behind is released a second
time by the next one (`PythonService.cpp:337` and 355), which may be the end of any
other service's callback, and `spoiled` says that this has happened.

The SCM is external: it starts a stopped service, sends a stop to a service
that accepts it and is not stopping, and interrogates one that runs. `LoadFails`,
`LoadNeglects`, `RegisterFails`, `InitRaises`, `OwnRegisterFails` and
`EndsItself` are the ways the class and the registration may fail. The service
class is `EventDemoService` of `win32/Demos/service/serviceEvents.py`, the one
demo whose `SvcStop` and `SvcDoRun` use nothing but an event. `Refuse` reports
`neverStartedStatus` and jumps past the run, `Cleanup` is the path of the others.

### IsapiPool

`host` is how far IIS is with the extension, from the start of the workers to the
closed port. `pc[w]` is where a worker is: in `run` (`born loop wait taken`) or
in `DispatchConnection` (`connect dispatch error revert leave`); `dead` is a thread
that ended by an exception. `work` is the control block it has taken, `token` the
user it impersonates, `port` and `shutdowns` the two kinds of packets, in this
order because the port is a queue and IIS has stopped sending requests when it
calls `TerminateExtension`. `dispatch` is whether the map still has its entry.
A worker that starts late sets `running` again after it was cleared
(`RunStarts`), one that ends by the flag leaves its message in the port, one
that is late meets the empty map (`GetDispatcher`) or the closed port
(`PortGone`: `GetQueuedCompletionStatus` raises nothing and returns key 0).
`Dispatch` is the sub-class: it ends the session, or raises and
`HandleDispatchError` does, unless that raises too (`HandlerRaises`), before or after
the session is done: then the `finally` drops the token and the worker ends.

The loops that clear `running` and post the messages are one step each: a
worker reads only its own flag, and one that takes a message before the last is
posted might as well take it after.

### ComServer

The server has one apartment, so a call of a client is a message of its main
thread (`queue`), and `stack` has the calls that are being handled, the innermost
last: while the Python code of one waits (`stage` `python`, `made`, `drop`), COM
lets others in. `phase` is how far `serve` is, `call[c]` the call of client `c`,
`gw[g]` a gateway: its references, the gateway that is its base, and whether its
Python object keeps a COM object of a client. `Serve` is the main thread of the
server, `Launch` COM starting it, `Activate`, `Deliver` and `Send` are the clients
and COM, and `Body` has the ways through a call: `CreateInstance` and methods make
a gateway or none, wrap, query or keep objects; a destructor is `dying`
(references at zero), `DropCallback` and `DeleteInstance` (the Python object goes,
with the lock given up) and `DeleteDone`. Every change of the count goes through
`DLLAddRef` and `DLLReleaseRef`, which post WM_QUIT as `dllmain.cpp` does.

### ComThreads

`todo[t]` is the sequence of steps that thread `t` still has to take, and each
function of the code is such a sequence: `CoInitialize` is `save`, `lock`, the
mode, `unlock`, `restore`. One action takes one step, so the order in which
functions take the two locks is in the definitions and every interleaving in the
runs. `framework` is `g_csMain` with its depth, `python` whether the interpreter
is down, starting or up, `initThread` and `hasInit` are `g_dwCoInitThread` and
`g_bCoInitThreadHasInit`. ole32 is external: `ole[t]` is the apartment of a thread
and how often it was entered. A thread may end and its identifier be used again,
which `sameThread` records. `host`, `mine`, `overdrawn` and `ready` are history: who
has initialised how often, where Python has undone an initialisation that was not
its own, and to whom success was reported. `CoInitialize` (`any`) takes
`RPC_E_CHANGED_MODE` for success and `CoInitializeEx` raises it (`AnotherMode`);
`borrowed` is the success of a thread that is in its host's apartment.
`CallCoUninitialize` asks nothing: on the first thread the flag decides whether ole32
is called, on any other thread it always is.

### ScriptEngine

The engine is one record, and every method that runs no script code is a function
on that record (`Reset`, `Connect`, `Disconnect`, `Stop`, `Close`, `Prepared`). A
method that does is cut where code runs: what is left of it is a frame on `stack`,
`exc` is the exception that unwinds the stack. `HostCalls` are the calls a host
makes from outside or from script code, `EngineGoesOn` takes the next frame. The
list that `DoExecutePendingScripts` goes over is its frame's `list` once a reset
has given the engine another one (`live`).

### OutputWindow

`outputQueue` holds the numbers of the messages, in the order they were put.
`flushes[t]` are the calls of `QueueFlush` on thread `t`, which nest on the main
thread: by the idle handler, by a line printed there or by `flush()`, also while a
window is created or painted (`HandlerPrints`, only if `chatty`). Another thread
flushes only by `flush()` (`WorkerFlushes`). A flush is at `enter`, `take` (one item
after another, since other threads take items too), `check`, `recreate`, `create`,
`pump` or `write`. `idle`, `handlers` and `idleHandlerSet` are the loop of the
application, its list of handlers and the window's belief about it; `mail` is the
WM_USER that a thread posts after it has put its text (`waking`), and `missed` says
that the last `PostMessage` failed, an error that `HandleOutput` swallows. `text` and
`killBuffer` are what the window shows and what was saved when it was closed.
`lost`, `overtaken` and `raced` are history: the messages that were dropped, those that
one flush had in its hands while another one took later ones, and whether a thread made
or closed the window while another thread was in a flush.

## 3. The runs

| run | asks | result |
|---|---|---|
| `TraceBuffer_faults` | is it the log, in bounds and in order, with crashes and failing malloc? | holds |
| `TraceBuffer_live` | exclusion, no lost wakeup; do writes return, are readers woken? | holds |
| `TraceBuffer_shared` | "A single mutex protects the entire structure" | violated |
| `TraceMap` | do two processes that open, use, close and exit share one section, without leaks? | holds |
| `TraceNamespace` | "the client or the collector can be started first" | violated |
| `ServiceHost_shared` | life, stops, handlers and zombies in a shared process | holds (handlers and stops until a callback was released twice) |
| `ServiceHost_restart` | "should have no scm handle yet" | violated |
| `IsapiPool` | requests, tokens and termination of the pool | holds |
| `ComServer` | is the count what is held, does the server end when, and only when, it is unused? | holds |
| `ComThreads` | is Python up before use, is the first thread's apartment kept, is a thread that was told success in one, which deadlocks are there? | holds |
| `ScriptEngine` | what can script code that calls the engine again do to it? | holds |
| `OutputWindow` | what can be lost, late, shown twice or never, with any thread flushing? | holds |

**Bounds, and why they are enough.** `TraceBuffer` runs with a buffer of 3 units
of text (`BufferSize` 4, `HeaderSize` 1) and chunks of at most 2 (half the buffer,
as `WriteData` computes it): two writers of two units each with two readers for the
faults, one text of several chunks that fills the buffer and a short one
(`LongAndShort`) for liveness. A chunk may fit with double room, fit exactly, or not fit, an append
may leave the section full, and the two writers' chunks may meet in the gap
where the mutex is released. `Budget` bounds what a writer ever writes, so
histories end; more text repeats the same states. `WordSpan` stands for 2^32 and
only has to be larger than twice the buffer. The proofs hold for every size.
`TraceMap` uses three values for handles and addresses, enough for two sides and
one more owner to be confused, and three sections, one more than two processes
can hold apart; while a process is poor, the constraint `PoorAlone` lets the other
one open nothing, because what a failed call leaves behind is in its own process. `TraceNamespace` has two sessions, one of them with two
processes, of which one may create global mappings and the other may not. `ServiceHost` has two services, so that one keeps the process alive
while the other is started again in the same process, one steady and one that may end, fail or be
refused a registration. Its check points stay small without a bound: a service
reports at most two of them in a run. `IsapiPool` has two workers and three
requests: a worker can be busy, late or dead while the other goes on, and both
can serve while a request is queued. `ComServer` has two clients, so that one call
can be nested in another, and two gateways, one of which may be the base of the
other; its safety properties were also checked with three gateways (2,990,000
states). `ComThreads` has two threads, one counted object and one initialisation
each by the host and by Python; one object is enough for the count to come and go
and for a destructor inside `CoUninitialize`. The constraint `OneHost` lets the host
have COM on one thread at a time, because what a host does on another thread is in
that thread's own apartment. `ScriptEngine` has
three blocks (plain, persistent, not compiling), two items (one persistent) and
three frames, enough for code inside code inside a run. `OutputWindow` has the
main thread and another one, three messages, an idle handler that takes at most two
items, so that it has to come back for more, and two flushes inside each other on the
main thread: two items in two flushes can be overtaken by a third. Its safety
properties were also checked with two other threads (18,400,000 states).

`CHECK_DEADLOCK FALSE` stands where the system may stop: all text is written and
a reader without a timeout waits for good; a service that could not be
registered at all, not even by the host, is a zombie (the comment in
`PythonService.cpp` says so), and its process stays; an extension is terminated;
everything is written to the output window; and in `ComThreads`, where the deadlock
is real and `NoOtherDeadlock` says which one it is.

**Symmetry** is used in `TraceMap` for handle values and in `ComThreads` for thread
identifiers, which are only compared;
never together with a liveness property.

**Fairness.** `TraceBuffer!FairSpec`: every thread inside the module is
scheduled (weak fairness on its steps), and a wait for the mutex that is granted
again and again to others is granted in the end (strong fairness on the three
acquisitions), because Windows serves the waiters of a mutex in order. Nobody is
obliged to call: readers and writers start calls when they like. Only
`TextLeaves` adds that readers read again and again, which is what
`RunAsCollector` does. `ServiceHost!FairSpec`: the threads of the process are
scheduled; nothing is asked of the SCM. `IsapiPool!FairSpec`: every worker is
scheduled and `Dispatch` returns, and `TerminateExtension`, once called, goes
on. That it gives up after 15 seconds, and that IIS calls anything, is not
counted on. `ComServer!Spec`: the main thread and COM's launch go on, a call that
has begun goes on and COM delivers what it has accepted, each strongly, because
the calls of other clients that come in between are handled first and end; no
client has to call or to release anything. `OutputWindow!Spec`: the main thread
goes on with its idle loop and its messages, every thread with its flush, and a thread
that has put its text posts its message, or tries to. `ComThreads` and `ScriptEngine` have safety properties only.

## 4. What is proved

All proofs are for any sets of threads and services, any buffer and texts, any
workers and requests, any processes, handles and sessions, any clients and gateways,
any blocks, items, messages and depths of re-entry, under the assumptions on constants that the modules name.

| theorem | says | assumes |
|---|---|---|
| `TypesKept` | every value has its type | no mutex wait lasts 10 s |
| `SectionExclusive` | `MutualExclusion` | no mutex wait lasts 10 s |
| `BoundsKept` | `InBounds` | no mutex wait lasts 10 s |
| `MutexNeverStranded` | `OwnerWillRelease` | nothing |
| `NoLostWakeup` | `TextAnnounced` | malloc succeeds, no crash |
| `LogAlwaysInOrder` | the abstract log fits and is in order | nothing |
| `BufferImplementsLog` | `LogImplemented` | no mutex wait lasts 10 s |
| `NothingSeenTwice` | `SeenInOrder` | no mutex wait lasts 10 s |
| `ControlsFindTheirService` | `HandlerReady`, and the types | nothing |
| `NoZombies` | `StoppedWhenDone` | nothing |
| `OneLifeToTell` | `LifeImplemented` | nothing |
| `SpecStopIsOnItsWay` | half of `StopHonoured`: nobody waits for an event that will not be set | nothing |
| `WorkersActForTheirUser` | `ActsForItsUser` | nothing |
| `RequestsInOnePlace` | `InOnePlace` | nothing |
| `ShutdownReachesAll` | `ShutdownForEach` | nothing |
| `SpecRequestIsOnItsWay` | half of `RequestServed`: a pending request has a worker or workers that will look | nothing |
| `SpecCountHeld` | `CountHeld` | nothing |
| `SpecNoUseAfterDelete` | `NoUseAfterDelete` | nothing |
| `SpecQuitWhenUnused` | `QuitWhenUnused` | nothing |
| `SpecUnusedIsTold` | half of `UnusedServerEnds`: an unused server is told to quit | nothing |
| `SpecTypeOK` (COM server) | `TypeOK` | nothing |
| `SpecClosedIsFinal` | `ClosedIsFinal` | nothing |
| `SpecQuietAtRest` | `QuietAtRest` | nothing |
| `SpecRanOnce` | `RanOnce` | nothing |
| `SpecBracketed` | `Bracketed` | nothing |
| `SpecUnlessMeddled` | `UnlessMeddled` | nothing |
| `SpecTypeOK` (engine) | `TypeOK`; the site is told of no end without a begin | nothing |
| `SpecTypeOK` (window) | `TypeOK` | nothing |
| `SpecShownStays` | `ShownStays` | nothing |
| `SpecInOrder` | `InOrder` | nothing |
| `SpecAccounted` | `Accounted` | nothing |
| `SpecTextIsWatched` | half of `TextAppears`: waiting text has somebody who comes for it, unless the last `PostMessage` failed | nothing |
| `SpecBrokenStays` | a window that cannot work any more never works again, but for a race | nothing |
| `SpecUpBeforeUse` | `UpBeforeUse` | nothing |
| `SpecHostKept` | `HostKept` | nothing |
| `SpecReadyMeansInside` | `ReadyMeansInside` | nothing |
| `SpecNoOtherDeadlock` | `NoOtherDeadlock` | nothing |
| `SpecCountKept` | the lock count is never less than what lives, and equal to it at rest | nothing |
| `SpecTypeOK` (COM locks) | `TypeOK` | nothing |
| `SpecNothingAdrift` | `NothingAdrift` | one thread per process |
| `SpecOneSection` | `OneSection` | one thread per process |
| `SpecAlienHandlesKept` | `AlienHandlesKept` | one thread per process |
| `SpecAllSafeAlone` | a process of one thread leaks nothing, agrees and never faults | nothing |
| `SpecOneSectionAlone` | such processes, while their calls succeed, share one section | nothing |
| `SpecAliensKeptAlone` | such a process closes no handle of somebody else, while calls succeed | nothing |

**The trace.** `MutualExclusion` and `OwnerWillRelease` are proved first and
need no facts about the section. `InBounds` is not inductive: that a chunk fits
at `copy` follows from the check at `fit`, and that the length stays within the
buffer at `grow` from the value memcpy was given, and both only while nobody
else is in the section. `BufferInv` adds to the types what each place in
`WriteData` and `ReadData` knows (the chunk is not empty, `base` is the length,
`result` is the text of the section, cells up to the length hold units) and uses
exclusion for every step of another thread. The refinement is one lemma per
action: each is a stutter of the log but for the store of the length (append),
the discard, the reset after a read (take) and a crash (abandon). The order of
what is read is proved of the abstract log (`LogAlwaysInOrder`), and carried
down by the refinement: the point of having an abstract specification.
`NoLostWakeup` needs no exclusion at all, and so holds with timeouts.

**The services.** `ReadyInv` ties what the process keeps for a service to how
far `service_main` is, and what the SCM knows to both: a service known as
running or stopping has reported it, after its `__init__` was complete, and
nothing takes handle or event away again, nor the handler but the second release of a
callback by another service (`spoiled`), after which the pointer is still not null. `SteadyInv` describes a
service that runs until it is stopped: while it is in `SvcDoRun` it is running
with the dispatcher perhaps on its way to report a stop, or the stop is
reported and the event not set, or it is set and the dispatcher gone. That is
the argument why the two reporting threads never overlap for such a service,
and why the check point each has taken is larger than the last one told.
`HandleKept` says that past the registration a service has a status handle.
None of this asks that a service starts once: one that starts again in a process that
others keep alive finds the handle, the callback and the event of its last instance
(that is the finding of `ServiceHost_restart`), but `InitFirst` says what it has replaced
before it reports anything, and `SteadyInv` that no event of the last run is left set.
`SpecStopIsOnItsWay` reads off the same invariant that a service that has reported
STOP_PENDING waits for nothing but an event that is set or about to be.
The refinement to `ServiceLife` then looks at the eight actions that call
`SetServiceStatus`.

**The pool.** `ShutdownForEach` is inductive with the types: a worker never comes
back to life, and each step that takes a message ends the worker that takes it,
so that the number of workers alive falls with the number of messages.
`InOnePlace` counts, and counting is not inductive: `Tracked` says instead that
no two packets and no two workers have the same request and none is with both
(`Once`), that a pending request is somewhere (`Known`), and what a worker holds
at each place of its loop (`Holding`). The count follows. `SpecRequestIsOnItsWay` needs
`Employed` besides: until the extension is terminated no message ends a worker, and one
that has begun stays in its loop unless an exception kills it.

**The COM server.** `CountHeld` says nothing of the references, and `NoUseAfterDelete`
is not inductive: that a gateway is there when a pointer to it is used follows from
its references being *exactly* the pointers to it (`RefsExact`: clients, gateways with
this base, wrappers, results), a sum of four cardinalities. `RefsStep` and `UsesStep` do
the sums once, for a step that changes one call, the references of its client and one
gateway; each step only says what it changes. `Objects` adds that bases have no base and
that what is being deleted has no references and one call that deletes it, `Calls`
what a call at each stage has a pointer to, and `Order` that a call is in the queue once
or on the stack. `QuitWhenUnused` then needs only `Early`: a call that came before
WM_QUIT is before it in the queue, so that the loop cannot end with it.
`SpecUnusedIsTold` is the converse, that the message is not missed. `Told` says of the
count what the theorem says of its users: it is not zero, or WM_QUIT is in the queue, or
an activation is coming. It is kept because each step that takes the count to zero is a
release that posts (`CallTells`), and because nothing is released before
`EnableQuitMessage` has said whom to post to (`Begun`).

**The engine.** The lemmas are about the functions on the engine first: each leaves
a `Sound` engine, which is without site, items and connections once it is closed and
has items linked only when it is started or connected (`MethodsSound`,
`SetStateEnds`, `HandlerEnds`). Neither property is inductive with the types alone:
a method that was under way when the engine was closed might go on. `Cut` says that
nothing is left to do then but code that is still running and what ends in an
exception. `RanOnce` needs `MarksTell`: a block that is not marked as done has not
run since the mark was taken away. `Bracketed` is an equation, `entered` is the number
of sections on the stack; the lemmas say what each way of changing the stack (push,
pop, unwind, replace a frame's list) does to that number, and each step is one of
them. `UnlessMeddled` needs `Undisturbed`: while no script code has called the engine,
what is on the stack is what the host's own call left there (`Unspoilt`): only
`SetScriptState(CONNECTED)` waits between two frames, a report is on top of an engine
that goes on with events, and the frame that waits longest is the state that was asked
for. What script code meets then (`Granted`) follows.

**The window.** The flushes of all threads are `Frames`, pairs of a thread and a depth,
and most lemmas say what a step does to them: it keeps them (`Stays`), one takes an
item (`Takes`), one ends (`Leaves`). `FlushInv` has how they nest: a worker has one at
most, and only the outermost one of the main thread is the idle handler's.
`ShownStays` needs `Alone`: unless threads raced, the one that makes the window is the
only one that flushes, and the flushes inside it return at once, so that none writes
to a window that is about to be replaced. `InOrder` is not inductive; `Ordered` says
that the queue is in order and later than all that has left it, and that what a flush
holds is in order and later than what is shown and what the others hold, unless one of
those has overtaken it. Overtaking happens at one step only, when an item is taken
while another flush has some in its hands. `Accounted` counts, so `Parted` says
instead that the places a message can be in share none and have all that were
written; `LostInv` that what is lost is lost by a window that cannot work any more
or that two threads worked on at once, and `SpecBrokenStays` that the first does not
pass. `SpecTextIsWatched` is the argument that no wake-up is lost, in which flushes
of other threads play no part, since they only take: while text waits in the queue of a
window that works, the main thread is in its idle loop or in a flush that will look
again or return to it (`Coming`), or the text is `Announced`: a message is there, about to
be posted, or could not be posted. The critical moment is the end of a flush that found
the queue empty and stops the idle loop.

**The locks of COM.** `NoOtherDeadlock` is a property of code paths: a thread that
waits for one lock holds the other only on two of them. `LockInv` says that what a
thread has still to do is a walk through the locks (`Path`) that starts with what it
holds and ends with nothing: it saves the interpreter lock before it locks, unlocks
only what it has locked, and takes or needs the interpreter lock inside the framework
lock only before ole32 or the logger returns. That every function is such a
walk is proved step by step from its end (`PathCons`), that a step leaves a walk is
`PathTail`, and neither looks at other threads. A circle of waiting threads then has
one in the framework lock, which waits for the interpreter lock, so that its walk
names one of the two ways. `UpBeforeUse` needs `Unstarted`: until Python is up every
thread is idle or about to count its first object, and the one that starts Python is in
the framework lock. `HostKept` and `ReadyMeansInside` need `ComInv`: as long as
Python has not overdrawn, a thread's apartment is entered at least as often as host and
Python together have to leave it (`Counted`); on the first thread the flag is set only
while Python has something to leave there or is just leaving it (`Flagged`), which is
what `CoUninitialize` relies on when it asks the flag; and a thread that was told it
has entered an apartment has an initialisation of its own (`Entered`). Other threads
are not protected by anything: the code passes every call of theirs on to ole32, and the
properties say so.

`SpecCountKept` compares `lockCount` with `objects`, which differ while a thread has
counted what it has not made yet, or deleted what it has not counted down. `CountInv`
counts both in what the threads have still to do: the counts down and the objects to be
made outnumber the counts up by exactly the difference (`Balanced`), and each count up
is followed by an object or by a release of its own (`Matched`), so that the difference
is never negative. Steps are numbered from the end, where the functions a thread calls
move nothing, and `OwesShift` is the one lemma that changes the two sets.

**The section.** In `MapInv` only one section has the name (`NamedOne`), every view
of a section is that of one side (`ViewInv`), every handle one that the trace object
has (`HandleInv`), and, where no system call fails, each open side has a handle and
a view of the same section (`RichInv`); the parts that do not hold in the middle of a
call name the point where they do not (`Busy`). `PcInv` is what the check that opens a
call found, and it stays true because no other thread of the process can make it
false. So the invariant is asked of the processes with one thread only (`Alone`), and
`SpecAllSafeAlone`, `SpecOneSectionAlone` and `SpecAliensKeptAlone` need no hypothesis: such
a process is safe whatever threads the others have, because a step of one process
leaves the invariant of the others alone (`Undisturbed`), but for the name, which is why
`NamedOne` is apart. `OneSection` follows, as a view is of the section of its handle, and
that has the name. Where every process has one thread (`OneThread`) the three properties of
the run follow; with two threads in one process, TLC finds a counterexample to each.

Every invariant and action property of the passing runs is a theorem, and the two
refinements are. The liveness
properties (`WritesReturn`, `BlockedReaderWakes`, `TextLeaves`, `StopHonoured`,
`WorkersEnd`, `RequestServed`, `UnusedServerEnds`, `TextAppears`) are model-checked
only: liveness under fairness is out of the prover's reach. For most of them the part
that is an invariant is proved: that whoever has to go on has been told, or will be,
so that only fairness is left to TLC. It is `NoLostWakeup` for the readers of the trace,
`MutexNeverStranded` for its writers, `SpecStopIsOnItsWay`, `ShutdownReachesAll`,
`SpecRequestIsOnItsWay`, `SpecUnusedIsTold` and `SpecTextIsWatched`. These, `SpecBrokenStays`,
`SpecCountKept`, the theorems about processes of one thread and the `TypeOK`s are
theorems that no run states; their invariants were checked with TLC before they were
proved.

## 5. What the models say about the code

Disagreements with a comment, a test or an assertion, each shown by a run:

- **A mutex that times out** (`TraceBuffer_shared`). After 10 seconds `GetMyMutex`
  returns TRUE without the mutex; the caller enters the section next to its owner.
- **Who may start first** (`TraceNamespace`). "Remember that the client or the collector
  can be started first" (`win32/Lib/win32traceutil.py:21`): a process that may not create
  the global mapping goes local, one that may goes global while the first has not opened
  its own, and the two never meet. Two processes that import at the same time come apart
  in the same way, each seeing the mapping that the other makes only to probe.
- **Start again in a shared process** (`ServiceHost_restart`). `service_main`
  resets the status handle only when there was no instance, so its assertion
  fails on the second start.

Seen while modelling, without a run of their own.

**win32trace.** A `blockingread` whose malloc
fails has consumed `hEvent` and leaves its text unannounced; `hEventEmpty` stays
set from reads nobody waited for, so that a writer's wait for room may end at
once and the text be discarded; a `MapViewOfFile` that fails leaves the value of
a closed handle in the trace object, and the later Term closes whatever has that
value then; the comment on the namespace speaks of the mutex where the code
looks for the mapping; a process that chose the global namespace may be refused
when the mapping is gone by the time it opens it; `ReadData` checks the view with
the GIL and uses it after waits without it, so that a `TermRead` of another thread
unmaps it meanwhile and the access faults (the run of `TraceMap`, with one thread in each
process, does not show it, and no property speaks of it); the view of a process whose `MapViewOfFile` failed once may end
on a section that has lost its name, next to a new one.

**Services and the pool.** A registration of a control
handler that fails leaves a pointer to a released callback in the table entry
(`PythonService.cpp:355`), and when the service is started again in the same process the
next registration releases it a second time (337), by then perhaps the callback of
another service: `HandlerReady` and `StopHonoured` hold as long as that has not happened
(`spoiled`);
for a service whose `SvcDoRun` ends by itself (`Services \ Steady` in
`ServiceHost_shared`, outside `LifeImplemented`), a control handler that is under
way reports RUNNING or STOP_PENDING after the host has reported STOPPED; the
token calls of the thread pool are outside its `try`, so that an exception there
ends the worker and leaves its request pending for good, and so does an exception of
the error handler itself before `DoneWithSession` (`threaded_extension.py:151`); requests that are
queued when the extension is terminated may never be dispatched.

**COM server.** An activation that is in the queue ahead of WM_QUIT is still served
and its object abandoned by the ending server (the comment at `dllmain.cpp:97`
admits it); one that is accepted after the loop has ended and before the factories
are revoked fails (`localserver.py:39`); a server whose client dies before it
activates anything never ends; the class factory object itself counts 0, 1, 0 while
it is registered, before the quit message is enabled.

**COM and its locks.** `CoUninitialize` runs ole32 inside the framework lock, and
ole32 releases Python objects, which need the interpreter lock, while a thread that
has the interpreter lock waits for the framework lock to count an object: a deadlock
(`dllmain.cpp:45` and 253). The report of a failed `CoInitializeEx` is the other way
into it (`dllmain.cpp:204`). An identifier of the first thread that Windows gives
to another thread makes `CoInitialize` there a no-op that reports success (`Stale`).
A first thread that uninitialises and initialises again never sets the flag again;
nested initialisations are undone by the first `CoUninitialize`; since
`RPC_E_CHANGED_MODE` is reported as success, a thread other than the first that
balances its calls undoes the initialisation of its host and is left without an
apartment (`overdrawn`); nothing keeps such a thread from calling `CoUninitialize` more
often than it has initialised (`dllmain.cpp:256`). Python code that runs inside `CoUninitialize`
and calls `CoInitialize` is told success and is in no apartment (`Undoing`).

**Scripting.** Handlers of `AddScriptlet` never run, since `pyscript.py:323` asks
whether the function is an instance of the engine's class. An error of script code
that ends after the host has stopped the engine connects it again. With two blocks
that fail, the ones after them stay pending. A block that does not compile is
reported twice. `CONNECTED` asked of a disconnected engine, and `INITIALIZED` of a
disconnected or uninitialised one, are ignored in silence. `SetScriptSite` after
`Close` would bring the engine back. Persistent text that is parsed while the engine
runs is not kept. A host that asks for `CONNECTED` from inside the run of `STARTED`
ends with connected items in the state `STARTED`.

**Output window.** The application removes an idle handler that raises, so that the
first interrupt in idle time leaves nobody to empty the queue, `interruptCount > 1`
cannot be reached (`app.py:196`), and a later `Close` raises on the handler that is
gone. A document that is not created leaves `bCreating` set for good
(`winout.py:395`). Items are dropped when the window cannot be made (512). Handlers
that print while the window is painted or created get ahead of the items already
taken, or leave their line without a wake-up (516); so does another thread that calls
`flush()` while the main thread has items in its hands (553): its later text is shown
first (`overtaken`). A `flush()` next to a window that is being made or closed can lose
text, or make a second window over the first (`raced`). When `PostMessage` or
`GetMainFrame` fails, the error is written to the debugger and the text waits until
something else wakes the main thread (540).

## 6. Limits and plan

Not modelled in win32trace: waits that return `WAIT_FAILED` (the module never
closes the handles it waits for), `setprint`, `flush` and the attributes of a
file object, Windows without a global namespace. `TraceBuffer` takes the section
as mapped: `TraceMap` is where it is opened and closed.

Not modelled in the services: debug mode, the service table and the start of the
process, pause, continue, shutdown and the extra controls, the control clients,
installation. A status that `SetServiceStatus` refuses is not modelled.

Not modelled in the pool: packets that a sub-class posts under its own keys, a
second `GetExtensionVersion` after a termination, and a `SetThreadToken(None, None)`
that fails.

Not modelled in the COM server: in-process servers, free-threaded servers,
policies, interfaces, Python code that keeps wrappers in its globals (which keeps
the server alive). In the locks: Windows without `CoInitializeEx`. In the engine: the debugger, sub-items, type information, the script
dispatch; the host is `axsite.py`'s, whose callbacks do not re-enter the engine, which
adds a name once and sets the site only before `Close`. In the output window: the
flags `WQ_NONE` and `WQ_IDLE`, windows that are not restored, the parsing of lines, an
interrupt inside a flush that a print makes, `Close` called by another thread than the
main one, and handlers of the window that run on another thread.

The map covers a small share of the repository's 278,000 lines, and a model of the
rest would say nothing: most of them are wrappers of one call of Windows each, headers
of type libraries, a vendored editor, generated code and the converters of data
between Python and COM, none of which keeps state that two calls could disagree about.

What could be added, in this order:

1. The association manager (`win32assoc.cpp`): the cache of one entry never stale.
2. The control clients of `win32serviceutil` (`WaitForServiceStatus`,
   `StopServiceWithDeps`, `RestartService`) over `ServiceLife`, debug mode and the
   table of the host.
