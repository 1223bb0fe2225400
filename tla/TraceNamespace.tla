--------------------------- MODULE TraceNamespace ---------------------------
(***************************************************************************)
(* Which kernel namespace a process that imports win32trace uses for its   *)
(* file mapping, mutex and events: the module initialisation of            *)
(* win32/src/win32trace.cpp.  It asks by creating the file mapping, first  *)
(* in the namespace of its session, then in the global one, and closes     *)
(* both again; InitRead and InitWrite open the mapping for good, later.    *)
(* Modelled for Windows 2000 and later (global_ok).                        *)
(***************************************************************************)
EXTENDS Naturals, FiniteSets

CONSTANTS Importers,      \* processes that import win32trace
          Session,        \* Session[p]: the session of process p
          Elevated,       \* those that may create global mappings
          Global          \* the namespace all sessions share, none of theirs

VARIABLES import,       \* how far the import of each process is
          useGlobal,    \* use_global_namespace
          localProbe,   \* the process holds h, the local mapping it probed
          globalProbe,  \* the process holds h2, the global one
          opened        \* the process has the mapping open for good

importVars == <<import, useGlobal, localProbe, globalProbe, opened>>

ImportInit ==
  /\ import = [p \in Importers |-> "new"]
  /\ useGlobal = [p \in Importers |-> FALSE]
  /\ localProbe = [p \in Importers |-> FALSE]
  /\ globalProbe = [p \in Importers |-> FALSE]
  /\ opened = [p \in Importers |-> FALSE]

Proceed(p, from, to) == import[p] = from /\ import' = [import EXCEPT ![p] = to]

\* FixupObjectName: the namespace of the objects of p
Namespace(p) == IF useGlobal[p] THEN Global ELSE Session[p]

\* External: a file mapping exists while somebody has a handle to it.
MapExists(ns) ==
  \E p \in Importers : \/ localProbe[p] /\ Session[p] = ns
                       \/ globalProbe[p] /\ Global = ns
                       \/ opened[p] /\ Namespace(p) = ns

\* External: anyone may open a mapping; creating a global one needs rights.
MayOpen(p, ns) == ns # Global \/ p \in Elevated \/ MapExists(ns)

\* ERROR_ALREADY_EXISTS: somebody uses the local namespace, and so do we.
ProbeLocal(p) ==
  /\ Proceed(p, "new", IF MapExists(Session[p]) THEN "close" ELSE "probeGlobal")
  /\ localProbe' = [localProbe EXCEPT ![p] = TRUE]
  /\ UNCHANGED <<useGlobal, globalProbe, opened>>

ProbeGlobal(p) ==
  /\ Proceed(p, "probeGlobal", "close")
  /\ useGlobal' = [useGlobal EXCEPT ![p] = MayOpen(p, Global)]
  /\ globalProbe' = [globalProbe EXCEPT ![p] = MayOpen(p, Global)]
  /\ UNCHANGED <<localProbe, opened>>

CloseGlobalProbe(p) ==
  /\ import[p] = "close" /\ globalProbe[p]
  /\ globalProbe' = [globalProbe EXCEPT ![p] = FALSE]
  /\ UNCHANGED <<import, useGlobal, localProbe, opened>>

CloseLocalProbe(p) ==
  /\ ~globalProbe[p]
  /\ Proceed(p, "close", "create")
  /\ localProbe' = [localProbe EXCEPT ![p] = FALSE]
  /\ UNCHANGED <<useGlobal, globalProbe, opened>>

\* CreateMutex and CreateEvent work in every namespace.
CreateObjects(p) ==
  /\ Proceed(p, "create", "ready")
  /\ UNCHANGED <<useGlobal, localProbe, globalProbe, opened>>

\* The first InitRead or InitWrite; a refused one raises and changes nothing.
OpenMap(p) ==
  /\ import[p] = "ready" /\ ~opened[p]
  /\ MayOpen(p, Namespace(p))
  /\ opened' = [opened EXCEPT ![p] = TRUE]
  /\ UNCHANGED <<import, useGlobal, localProbe, globalProbe>>

\* The last TermRead or TermWrite
CloseMap(p) ==
  /\ opened[p]
  /\ opened' = [opened EXCEPT ![p] = FALSE]
  /\ UNCHANGED <<import, useGlobal, localProbe, globalProbe>>

ImporterExits(p) ==
  /\ import' = [import EXCEPT ![p] = "new"]
  /\ useGlobal' = [useGlobal EXCEPT ![p] = FALSE]
  /\ localProbe' = [localProbe EXCEPT ![p] = FALSE]
  /\ globalProbe' = [globalProbe EXCEPT ![p] = FALSE]
  /\ opened' = [opened EXCEPT ![p] = FALSE]

ImportNext ==
  \E p \in Importers :
     \/ ProbeLocal(p) \/ ProbeGlobal(p) \/ CloseGlobalProbe(p)
     \/ CloseLocalProbe(p) \/ CreateObjects(p)
     \/ OpenMap(p) \/ CloseMap(p) \/ ImporterExits(p)

ImportSpec == ImportInit /\ [][ImportNext]_importVars

(***************************************************************************)
(* Properties                                                              *)
(***************************************************************************)

\* "the client or the collector can be started first" (win32traceutil.py:21):
\* processes of one session that have the mapping open share it, so that what
\* the client writes the collector reads.  The code breaks it: a process goes
\* local when it may not create the global mapping, or when it meets the local
\* one that another has only to probe; the next one goes global when nobody
\* has the local mapping open at that moment.
SessionConnected ==
  \A p, q \in Importers :
    opened[p] /\ opened[q] /\ Session[p] = Session[q] => Namespace(p) = Namespace(q)
=============================================================================
