------------------------------ MODULE TraceMap ------------------------------
(***************************************************************************)
(* The life of the memory mapped section of win32/src/win32trace.cpp:      *)
(* InitRead/InitWrite open it, TermRead/TermWrite close it, read and write *)
(* use the view.  The trace object of a process keeps a handle and a view  *)
(* for each side; its threads share it.  The GIL is held for the checks    *)
(* that open each call and released for the system calls, so a thread may  *)
(* be overtaken at every system call.                                      *)
(*                                                                         *)
(* External: the handle and view tables of Windows.  A section keeps its   *)
(* name while some process has a handle to it; a view keeps only the       *)
(* memory.  The value of a closed handle is given out again.               *)
(***************************************************************************)
EXTENDS Integers, FiniteSets

CONSTANTS Procs,       \* processes
          Threads,     \* their Python threads
          ProcOf,      \* ProcOf[t]: the process of thread t
          Values,      \* handle values, and view addresses, of a process
          MaxSections, \* bound: sections that exist at one time
          Null,        \* NULL, in the trace object
          Free,        \* a table entry nobody uses
          Alien,       \* a handle the rest of the process opened
          MayBePoor    \* processes that may run out of memory

Sides == {"read", "write"}
Sections == 1..MaxSections

ASSUME MapAssumption == /\ ProcOf \in [Threads -> Procs]
                        /\ {Free, Alien} \cap Sections = {} /\ Free # Alien
                        /\ Null \notin Values
                        /\ MayBePoor \subseteq Procs

VARIABLES tracer,   \* sys.__win32traceObject__ exists
          hMapFile, \* hMapFileRead and hMapFileWrite of the trace object
          pMapBase, \* pMapBaseRead and pMapBaseWrite of the trace object
          handles,  \* external: what each handle value refers to
          views,    \* external: what is mapped at each address
          poor,     \* the processes where CreateFileMapping and MapViewOfFile may fail
          pc,       \* where each thread is
          side      \* the side its call is about

object == <<tracer, hMapFile, pMapBase>>
system == <<handles, views, poor>>
vars == <<object, system, pc, side>>

Init == /\ tracer = [p \in Procs |-> FALSE]
        /\ hMapFile = [p \in Procs |-> [s \in Sides |-> Null]]
        /\ pMapBase = [p \in Procs |-> [s \in Sides |-> Null]]
        /\ handles = [p \in Procs |-> [v \in Values |-> Free]]
        /\ views = [p \in Procs |-> [v \in Values |-> Free]]
        /\ poor \in {{}, MayBePoor}
        /\ pc = [t \in Threads |-> "idle"]
        /\ side = [t \in Threads |-> "read"]

HandleOf(t) == hMapFile[ProcOf[t]][side[t]]
ViewOf(t) == pMapBase[ProcOf[t]][side[t]]
Goto(t, from, to) == pc[t] = from /\ pc' = [pc EXCEPT ![t] = to]
SetHandle(t, h) == hMapFile' = [hMapFile EXCEPT ![ProcOf[t]][side[t]] = h]
SetView(t, v) == pMapBase' = [pMapBase EXCEPT ![ProcOf[t]][side[t]] = v]

(***************************************************************************)
(* External: the system calls.                                             *)
(***************************************************************************)
Named == {s \in Sections : \E p \in Procs, v \in Values : handles[p][v] = s}
Mapped == {s \in Sections : \E p \in Procs, v \in Values : views[p][v] = s}

\* CreateFileMapping opens the section of that name, or makes a fresh one.
Opened == IF Named # {} THEN CHOOSE s \in Named : TRUE
                        ELSE CHOOSE s \in Sections : s \notin Mapped

CreateFileMapping(p, h) == /\ handles[p][h] = Free
                           /\ Named # {} \/ Mapped # Sections   \* bound
                           /\ handles' = [handles EXCEPT ![p][h] = Opened]

MapViewOfFile(p, h, a) == /\ h # Null /\ handles[p][h] \in Sections
                          /\ views[p][a] = Free
                          /\ views' = [views EXCEPT ![p][a] = handles[p][h]]

\* Closing a value that is not open fails, and changes nothing.
CloseHandle(p, h) == handles' = [handles EXCEPT ![p][h] = Free]
UnmapViewOfFile(p, a) == views' = [views EXCEPT ![p][a] = Free]

(***************************************************************************)
(* InitRead and InitWrite: GetTracer, then DoOpenMap.                      *)
(***************************************************************************)

\* The check that nothing is open is made with the GIL held; a side that has
\* a handle or a view is refused ("already open") and nothing changes.
InitCall(t, s) ==
  /\ hMapFile[ProcOf[t]][s] = Null /\ pMapBase[ProcOf[t]][s] = Null
  /\ Goto(t, "idle", "create")
  /\ side' = [side EXCEPT ![t] = s]
  /\ tracer' = [tracer EXCEPT ![ProcOf[t]] = TRUE]
  /\ UNCHANGED <<hMapFile, pMapBase, system>>

OpenSection(t) ==
  /\ Goto(t, "create", "map")
  /\ \E h \in Values : CreateFileMapping(ProcOf[t], h) /\ SetHandle(t, h)
  /\ UNCHANGED <<tracer, pMapBase, views, poor, side>>

OpenFails(t) ==
  /\ ProcOf[t] \in poor
  /\ Goto(t, "create", "idle")
  /\ SetHandle(t, Null)
  /\ UNCHANGED <<tracer, pMapBase, system, side>>

\* Mutant of MapView: closes the handle, as a view keeps the memory.
MapViewOnly(t) ==
  /\ Goto(t, "map", "idle")
  /\ \E a \in Values : MapViewOfFile(ProcOf[t], HandleOf(t), a) /\ SetView(t, a)
  /\ CloseHandle(ProcOf[t], HandleOf(t))
  /\ UNCHANGED <<tracer, hMapFile, poor, side>>

MapView(t) ==
  /\ Goto(t, "map", "idle")
  /\ \E a \in Values : MapViewOfFile(ProcOf[t], HandleOf(t), a) /\ SetView(t, a)
  /\ UNCHANGED <<tracer, hMapFile, handles, poor, side>>

\* Mutant of MapViewFails: forgets the handle without closing it.
MapViewFailsOpen(t) ==
  /\ Goto(t, "map", "idle")
  /\ ProcOf[t] \in poor
  /\ SetView(t, Null) /\ SetHandle(t, Null)
  /\ UNCHANGED <<tracer, system, side>>

\* The handle is closed, and its value stays in the trace object.
MapViewFails(t) ==
  /\ Goto(t, "map", "idle")
  /\ \/ ProcOf[t] \in poor
     \/ ~(HandleOf(t) # Null /\ handles[ProcOf[t]][HandleOf(t)] \in Sections)
  /\ SetView(t, Null)
  /\ IF HandleOf(t) = Null THEN UNCHANGED handles
                           ELSE CloseHandle(ProcOf[t], HandleOf(t))
  /\ UNCHANGED <<tracer, hMapFile, views, poor, side>>

(***************************************************************************)
(* TermRead and TermWrite: DoCloseMap, all of it without the GIL.          *)
(***************************************************************************)
TermCall(t, s) ==
  /\ tracer[ProcOf[t]]
  /\ Goto(t, "idle", IF pMapBase[ProcOf[t]][s] # Null THEN "unmap" ELSE "close")
  /\ side' = [side EXCEPT ![t] = s]
  /\ UNCHANGED <<object, system>>

UnmapView(t) ==
  /\ Goto(t, "unmap", "clearView")
  /\ IF ViewOf(t) = Null THEN UNCHANGED views
                         ELSE UnmapViewOfFile(ProcOf[t], ViewOf(t))
  /\ UNCHANGED <<object, handles, poor, side>>

ClearView(t) ==
  /\ Goto(t, "clearView", "close")
  /\ SetView(t, Null)
  /\ UNCHANGED <<tracer, hMapFile, system, side>>

CloseSection(t) ==
  /\ HandleOf(t) # Null
  /\ Goto(t, "close", "clearHandle")
  /\ CloseHandle(ProcOf[t], HandleOf(t))
  /\ UNCHANGED <<object, views, poor, side>>

NothingToClose(t) ==
  /\ HandleOf(t) = Null
  /\ Goto(t, "close", "idle")
  /\ UNCHANGED <<object, system, side>>

\* Mutant of ClearHandle: the value of the closed handle stays.
ClearHandleForgotten(t) ==
  /\ Goto(t, "clearHandle", "idle")
  /\ UNCHANGED <<object, system, side>>

ClearHandle(t) ==
  /\ Goto(t, "clearHandle", "idle")
  /\ SetHandle(t, Null)
  /\ UNCHANGED <<tracer, pMapBase, system, side>>

(***************************************************************************)
(* read, blockingread and write.  The view is checked once, with the GIL   *)
(* held; the wait and the access come after it is released.                *)
(***************************************************************************)
UseCall(t, s) ==
  /\ tracer[ProcOf[t]]
  /\ pMapBase[ProcOf[t]][s] # Null
  /\ Goto(t, "idle", "use")
  /\ side' = [side EXCEPT ![t] = s]
  /\ UNCHANGED <<object, system>>

\* The access faults when another thread has taken the view away meanwhile.
Faults(t) == ViewOf(t) = Null \/ views[ProcOf[t]][ViewOf(t)] \notin Sections

Access(t) ==
  /\ ~Faults(t)
  /\ Goto(t, "use", "idle")
  /\ UNCHANGED <<object, system, side>>

(***************************************************************************)
(* External: the rest of a process opens and closes handles of its own,    *)
(* and a process ends at any time, which closes what it had.               *)
(***************************************************************************)
OtherOpen(p) == /\ \E h \in Values :
                     /\ handles[p][h] = Free
                     /\ handles' = [handles EXCEPT ![p][h] = Alien]
                /\ UNCHANGED <<object, views, poor, pc, side>>

OtherClose(p) == /\ \E h \in Values : /\ handles[p][h] = Alien
                                      /\ CloseHandle(p, h)
                 /\ UNCHANGED <<object, views, poor, pc, side>>

Exit(p) ==
  /\ tracer' = [tracer EXCEPT ![p] = FALSE]
  /\ hMapFile' = [hMapFile EXCEPT ![p] = [s \in Sides |-> Null]]
  /\ pMapBase' = [pMapBase EXCEPT ![p] = [s \in Sides |-> Null]]
  /\ handles' = [handles EXCEPT ![p] = [v \in Values |-> Free]]
  /\ views' = [views EXCEPT ![p] = [v \in Values |-> Free]]
  /\ pc' = [t \in Threads |-> IF ProcOf[t] = p THEN "idle" ELSE pc[t]]
  /\ side' = [t \in Threads |-> IF ProcOf[t] = p THEN "read" ELSE side[t]]
  /\ UNCHANGED poor

Next == \/ \E t \in Threads :
              \/ \E s \in Sides : InitCall(t, s) \/ TermCall(t, s) \/ UseCall(t, s)
              \/ OpenSection(t) \/ OpenFails(t) \/ MapView(t) \/ MapViewFails(t)
              \/ UnmapView(t) \/ ClearView(t) \/ CloseSection(t)
              \/ NothingToClose(t) \/ ClearHandle(t) \/ Access(t)
        \/ \E p \in Procs : OtherOpen(p) \/ OtherClose(p) \/ Exit(p)

Spec == Init /\ [][Next]_vars

(***************************************************************************)
(* Properties                                                              *)
(***************************************************************************)
TypeOK ==
  /\ tracer \in [Procs -> BOOLEAN]
  /\ hMapFile \in [Procs -> [Sides -> Values \cup {Null}]]
  /\ pMapBase \in [Procs -> [Sides -> Values \cup {Null}]]
  /\ handles \in [Procs -> [Values -> Sections \cup {Free, Alien}]]
  /\ views \in [Procs -> [Values -> Sections \cup {Free}]]
  /\ poor \subseteq MayBePoor
  /\ pc \in [Threads -> {"idle", "create", "map", "unmap", "clearView",
                         "close", "clearHandle", "use"}]
  /\ side \in [Threads -> Sides]

Idle(p) == \A t \in Threads : ProcOf[t] = p => pc[t] = "idle"

\* A side is closed, or it is open with a handle and a view:
\* InitRead and InitWrite refuse exactly the sides that can be used.  A side
\* that MapViewOfFile failed for is refused and of no use.
SidesAgree(p) ==
    \A s \in Sides :
      \/ hMapFile[p][s] = Null /\ pMapBase[p][s] = Null
      \/ /\ hMapFile[p][s] # Null /\ handles[p][hMapFile[p][s]] \in Sections
         /\ pMapBase[p][s] # Null /\ views[p][pMapBase[p][s]] \in Sections

\* Every handle and view of the section is one that a Term call
\* will find: two sides never share one, and a failed Init leaks none.
NothingLeaked(p) ==
    \A v \in Values :
      /\ handles[p][v] \in Sections => \E s \in Sides : hMapFile[p][s] = v
      /\ views[p][v] \in Sections =>
           Cardinality({s \in Sides : pMapBase[p][s] = v}) = 1

\* Between calls the trace object and the process agree on what is open, and
\* all of it has its type at any time.
NothingAdrift ==
  /\ TypeOK
  /\ \A p \in Procs : Idle(p) => NothingLeaked(p) /\ (p \in poor \/ SidesAgree(p))

\* All sides that are open, in all processes, are views of one section: what
\* is written anywhere is what is read.  (A process whose MapViewOfFile failed
\* may end with a view of a section that has lost its name.)
OneSection ==
  Cardinality({views[p][v] : p \in Procs \ poor, v \in Values} \ {Free}) =< 1

\* win32trace never closes a handle of somebody else, whatever opens and
\* ends around it, while its own system calls succeed.
AlienHandlesKept ==
  [][\A t \in Threads : CloseSection(t) \/ MapViewFails(t) =>
       \A p \in Procs \ poor, h \in Values :
         handles[p][h] = Alien => handles'[p][h] = Alien]_vars
=============================================================================
