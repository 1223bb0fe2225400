----------------------------- MODULE ServiceHost -----------------------------
(***************************************************************************)
(* Python services in one process: the host of win32/src/PythonService.cpp *)
(* and the ServiceFramework of win32/Lib/win32serviceutil.py, with a       *)
(* service class like EventDemoService of Demos/service/serviceEvents.py.  *)
(* Each service has a thread in service_main; one dispatcher thread runs   *)
(* the control handlers of all of them, one control at a time.  The GIL is *)
(* released by every SetServiceStatus and between any two bytecodes, so a  *)
(* handler and the service it belongs to interleave.                       *)
(*                                                                         *)
(* External: the service control manager (SCM).  It starts a service that  *)
(* is stopped, and sends a control only to a service whose last status     *)
(* accepts it; while a service is pending or stopped it sends nothing      *)
(* else.  The dispatcher reads one request at a time.                      *)
(***************************************************************************)
EXTENDS Naturals

CONSTANTS Services,         \* the services this process hosts
          SelfEnding,       \* those whose SvcDoRun may end without a stop
          RegisterMayFail,  \* those RegisterServiceCtrlHandlerEx may refuse
          NoControl         \* the dispatcher has no control to deliver

States == {"STOPPED", "START_PENDING", "RUNNING", "STOP_PENDING"}
Controls == {"STOP", "INTERROGATE"}

ASSUME ServiceAssumption == /\ SelfEnding \subseteq Services
                            /\ RegisterMayFail \subseteq Services
                            /\ NoControl \notin Services \X Controls

VARIABLES
  scm,         \* external: the last status of each service the SCM knows
  main,        \* where service_main is; "none": not called in this process
  handle,      \* sshStatusHandle is not 0
  handler,     \* what obServiceCtrlHandler points at: "null", "live", "freed"
  spoiled,     \* history: a callback was released twice
  hWaitStop,   \* the event of the instance: "none" until __init__ made it
  checkPoint,  \* self.checkPoint
  prepared,    \* checkPoint in ReportServiceStatus, in the service's thread
  ctrl,        \* <<service, control>> in the dispatcher, or NoControl
  hpc,         \* where the dispatcher is
  hPrepared    \* checkPoint in ReportServiceStatus, in the dispatcher

entry == <<handle, handler, spoiled>>
instance == <<hWaitStop, checkPoint>>
dispatcher == <<ctrl, hpc, hPrepared>>
vars == <<scm, main, entry, instance, prepared, dispatcher>>

Init == /\ scm = [s \in Services |-> [state |-> "STOPPED", accepts |-> {}, check |-> 0]]
        /\ main = [s \in Services |-> "none"]
        /\ handle = [s \in Services |-> FALSE]
        /\ handler = [s \in Services |-> "null"] /\ spoiled = FALSE
        /\ hWaitStop = [s \in Services |-> "none"]
        /\ checkPoint = [s \in Services |-> 0]
        /\ prepared = [s \in Services |-> 0]
        /\ ctrl = NoControl
        /\ hpc = "idle"
        /\ hPrepared = 0

Goto(s, from, to) == main[s] = from /\ main' = [main EXCEPT ![s] = to]

\* External: the SCM records a status.
SetServiceStatus(s, st, accepted, check) ==
  scm' = [scm EXCEPT ![s] = [state |-> st, accepts |-> accepted, check |-> check]]

\* The statuses PythonService.cpp keeps ready.
NeverStartedStatus(s) == SetServiceStatus(s, "STOPPED", {}, 0)
StartingStatus(s) == SetServiceStatus(s, "START_PENDING", {}, 0)
StoppedStatus(s) == SetServiceStatus(s, "STOPPED", {}, 0)

\* The class has SvcStop and neither SvcPause nor SvcShutdown.  What it accepts
\* beyond that goes to SvcOtherEx, which writes a log message and no state.
GetAcceptedControls == {"STOP"}

\* ReportServiceStatus: RUNNING carries check point 0, STOP_PENDING the one the
\* caller has just taken.
ReportRunning(s) == SetServiceStatus(s, "RUNNING", GetAcceptedControls, 0)
ReportStopPending(s, check) ==
  SetServiceStatus(s, "STOP_PENDING", GetAcceptedControls, check)

(***************************************************************************)
(* External: the SCM starts a service or sends it a control; both go       *)
(* through the one dispatcher of the process.                              *)
(***************************************************************************)
\* A service that has ended starts again in a process that others keep alive.
ScmStart(s) ==
  /\ hpc = "idle"
  /\ scm[s].state = "STOPPED"
  /\ \/ Goto(s, "none", "entry")
     \/ /\ \E q \in Services \ {s} : main[q] \notin {"none", "done"}
        /\ Goto(s, "done", "entry")
  /\ StartingStatus(s)
  /\ UNCHANGED <<entry, instance, prepared, dispatcher>>

ScmControl(s, code) ==
  /\ hpc = "idle"
  /\ \/ code \in scm[s].accepts /\ scm[s].state \in {"START_PENDING", "RUNNING"}
     \/ code = "INTERROGATE" /\ scm[s].state = "RUNNING"
  /\ hpc' = "sent"
  /\ ctrl' = <<s, code>>
  /\ UNCHANGED <<scm, main, entry, instance, prepared, hPrepared>>

\* StartServiceCtrlDispatcher returns when every service has stopped, and the
\* process ends.
ProcessEnds ==
  /\ hpc = "idle"
  /\ \A s \in Services : main[s] \in {"none", "done"} /\ scm[s].state = "STOPPED"
  /\ \E s \in Services : main[s] = "done"
  /\ main' = [s \in Services |-> "none"]
  /\ handle' = [s \in Services |-> FALSE]
  /\ handler' = [s \in Services |-> "null"] /\ spoiled' = FALSE
  /\ hWaitStop' = [s \in Services |-> "none"]
  /\ checkPoint' = [s \in Services |-> 0]
  /\ prepared' = [s \in Services |-> 0]
  /\ hPrepared' = 0
  /\ UNCHANGED <<scm, ctrl, hpc>>

(***************************************************************************)
(* service_main: LoadPythonServiceInstance.                                *)
(***************************************************************************)

\* No class, or __init__ raises before ServiceFramework.__init__ registers.
LoadFails(s) ==
  /\ Goto(s, "entry", "unloaded")
  /\ UNCHANGED <<scm, entry, instance, prepared, dispatcher>>

\* __init__ never calls ServiceFramework.__init__: no handler, no self.ssh.
LoadNeglects(s) ==
  /\ Goto(s, "entry", "loaded")
  /\ hWaitStop' = [hWaitStop EXCEPT ![s] = "none"]
  /\ UNCHANGED <<scm, entry, checkPoint, prepared, dispatcher>>

\* PyRegisterServiceCtrlHandler stores the callback and releases the one before.
\* A pointer that a refused registration has left is released a second time, and
\* what is there by now may be the callback of another service.
StoreHandler(s, callback) ==
  /\ spoiled' = (spoiled \/ handler[s] = "freed")
  /\ \E gone \in SUBSET {q \in Services \ {s} : handler[s] = "freed" /\ handler[q] = "live"} :
       handler' = [q \in Services |-> CASE q = s -> callback
                                       [] q \in gone -> "freed"
                                       [] OTHER -> handler[q]]

\* Mutant of Register: reports RUNNING before the rest of __init__ has run.
RegisterReporting(s) ==
  /\ Goto(s, "entry", "init")
  /\ handle' = [handle EXCEPT ![s] = TRUE]
  /\ StoreHandler(s, "live")
  /\ hWaitStop' = [hWaitStop EXCEPT ![s] = "none"]
  /\ checkPoint' = [checkPoint EXCEPT ![s] = 0]
  /\ ReportRunning(s)
  /\ UNCHANGED <<prepared, dispatcher>>

\* ServiceFramework.__init__
Register(s) ==
  /\ Goto(s, "entry", "init")
  /\ handle' = [handle EXCEPT ![s] = TRUE]
  /\ StoreHandler(s, "live")
  /\ hWaitStop' = [hWaitStop EXCEPT ![s] = "none"]
  /\ checkPoint' = [checkPoint EXCEPT ![s] = 0]
  /\ UNCHANGED <<scm, prepared, dispatcher>>

\* The callback is released, but obServiceCtrlHandler still points at it.
RegisterFails(s) ==
  /\ s \in RegisterMayFail
  /\ Goto(s, "entry", "unloaded")
  /\ handle' = [handle EXCEPT ![s] = FALSE]
  /\ StoreHandler(s, "freed")
  /\ UNCHANGED <<scm, instance, prepared, dispatcher>>

\* The rest of __init__ creates the event; it may raise before or after.
InitDone(s) ==
  /\ Goto(s, "init", "loaded")
  /\ hWaitStop' = [hWaitStop EXCEPT ![s] = "clear"]
  /\ UNCHANGED <<scm, entry, checkPoint, prepared, dispatcher>>

InitRaises(s) ==
  /\ Goto(s, "init", "unloaded")
  /\ \E made \in {"none", "clear"} : hWaitStop' = [hWaitStop EXCEPT ![s] = made]
  /\ UNCHANGED <<scm, entry, checkPoint, prepared, dispatcher>>

(***************************************************************************)
(* service_main: the registration of last resort, then SvcRun.             *)
(***************************************************************************)
Settle(s) == Goto(s, "loaded", "start") \/ Goto(s, "unloaded", "refuse")

HasHandle(s) ==
  /\ handle[s]
  /\ Settle(s)
  /\ UNCHANGED <<scm, entry, instance, prepared, dispatcher>>

\* Mutant of OwnRegister: leaves an unregistered service alone.
OwnRegisterSkipped(s) ==
  /\ ~handle[s]
  /\ Settle(s)
  /\ UNCHANGED <<scm, entry, instance, prepared, dispatcher>>

OwnRegister(s) ==
  /\ ~handle[s]
  /\ Settle(s)
  /\ handle' = [handle EXCEPT ![s] = TRUE]
  /\ UNCHANGED <<scm, handler, spoiled, instance, prepared, dispatcher>>

OwnRegisterFails(s) ==
  /\ ~handle[s] /\ s \in RegisterMayFail
  /\ Settle(s)
  /\ UNCHANGED <<scm, entry, instance, prepared, dispatcher>>

\* No instance: "rooted".  Without a handle nobody is told.
Refuse(s) ==
  /\ Goto(s, "refuse", "done")
  /\ IF handle[s] THEN NeverStartedStatus(s) ELSE UNCHANGED scm
  /\ handle' = [handle EXCEPT ![s] = FALSE]
  /\ UNCHANGED <<handler, spoiled, instance, prepared, dispatcher>>

ReportStarting(s) ==
  /\ Goto(s, "start", "run")
  /\ IF handle[s] THEN StartingStatus(s) ELSE UNCHANGED scm
  /\ UNCHANGED <<entry, instance, prepared, dispatcher>>

\* SvcRun
RunReports(s) ==
  /\ hWaitStop[s] # "none"
  /\ Goto(s, "run", "doRun")
  /\ ReportRunning(s)
  /\ UNCHANGED <<entry, instance, prepared, dispatcher>>

\* Without self.ssh ReportServiceStatus raises, and SvcRun with it.
RunRaises(s) ==
  /\ hWaitStop[s] = "none"
  /\ Goto(s, "run", "cleanup")
  /\ UNCHANGED <<scm, entry, instance, prepared, dispatcher>>

\* SvcDoRun waits for hWaitStop, an auto-reset event.
StopSeen(s) ==
  /\ hWaitStop[s] = "set"
  /\ Goto(s, "doRun", "ending")
  /\ hWaitStop' = [hWaitStop EXCEPT ![s] = "clear"]
  /\ UNCHANGED <<scm, entry, checkPoint, prepared, dispatcher>>

EndsItself(s) ==
  /\ s \in SelfEnding
  /\ Goto(s, "doRun", "ending") \/ Goto(s, "doRun", "cleanup")
  /\ UNCHANGED <<scm, entry, instance, prepared, dispatcher>>

\* "We tell the SCM the service is still stopping"
TakeCheckPoint(s) ==
  /\ Goto(s, "ending", "tell")
  /\ checkPoint' = [checkPoint EXCEPT ![s] = @ + 1]
  /\ prepared' = [prepared EXCEPT ![s] = checkPoint[s] + 1]
  /\ UNCHANGED <<scm, entry, hWaitStop, dispatcher>>

TellStopping(s) ==
  /\ Goto(s, "tell", "cleanup")
  /\ ReportStopPending(s, prepared[s])
  /\ UNCHANGED <<entry, instance, prepared, dispatcher>>

Cleanup(s) ==
  /\ Goto(s, "cleanup", "done")
  /\ IF handle[s] THEN StoppedStatus(s) ELSE UNCHANGED scm
  /\ UNCHANGED <<entry, instance, prepared, dispatcher>>

(***************************************************************************)
(* dispatchServiceCtrl and ServiceFramework.ServiceCtrlHandlerEx, in the   *)
(* dispatcher thread.                                                      *)
(***************************************************************************)
At(from, to) == hpc = from /\ hpc' = to
Target == ctrl[1]
Code == ctrl[2]

\* The branch for a NULL handler, which reports errorStatus, is never taken:
\* the SCM sends nothing before the service has reported RUNNING (HandlerReady).
Dispatch ==
  /\ At("sent", "call")
  /\ handler[Target] # "null"
  /\ UNCHANGED <<scm, main, entry, instance, prepared, ctrl, hPrepared>>

\* What was freed may not be callable any more.
CallFails ==
  /\ At("sent", "idle")
  /\ handler[Target] = "freed"
  /\ ctrl' = NoControl
  /\ UNCHANGED <<scm, main, entry, instance, prepared, hPrepared>>

\* Mutant of SvcStop: sets the event before it reports.
SvcStopEarly ==
  /\ At("call", "tell")
  /\ Code = "STOP"
  /\ checkPoint' = [checkPoint EXCEPT ![Target] = @ + 1]
  /\ hPrepared' = checkPoint[Target] + 1
  /\ hWaitStop' = [hWaitStop EXCEPT ![Target] = "set"]
  /\ UNCHANGED <<scm, main, entry, prepared, ctrl>>

\* SvcStop: ReportServiceStatus(SERVICE_STOP_PENDING), then SetEvent.
SvcStop ==
  /\ At("call", "tell")
  /\ Code = "STOP"
  /\ checkPoint' = [checkPoint EXCEPT ![Target] = @ + 1]
  /\ hPrepared' = checkPoint[Target] + 1
  /\ UNCHANGED <<scm, main, entry, hWaitStop, prepared, ctrl>>

SvcStopTells ==
  /\ At("tell", "set")
  /\ ReportStopPending(Target, hPrepared)
  /\ UNCHANGED <<main, entry, instance, prepared, ctrl, hPrepared>>

\* Mutant of SvcStopSets: the event is not set.
SvcStopForgets ==
  /\ At("set", "idle")
  /\ ctrl' = NoControl
  /\ UNCHANGED <<scm, main, entry, instance, prepared, hPrepared>>

\* SetEvent(self.hWaitStop); without the attribute the handler raises here.
SvcStopSets ==
  /\ At("set", "idle")
  /\ hWaitStop' = [hWaitStop EXCEPT ![Target] = IF @ = "none" THEN @ ELSE "set"]
  /\ ctrl' = NoControl
  /\ UNCHANGED <<scm, main, entry, checkPoint, prepared, hPrepared>>

\* "Assume we are running, and everyone is happy."
SvcInterrogate ==
  /\ At("call", "idle")
  /\ Code = "INTERROGATE"
  /\ ReportRunning(Target)
  /\ ctrl' = NoControl
  /\ UNCHANGED <<main, entry, instance, prepared, hPrepared>>

ServiceMain(s) ==
  \/ LoadFails(s) \/ LoadNeglects(s) \/ Register(s) \/ RegisterFails(s)
  \/ InitDone(s) \/ InitRaises(s) \/ HasHandle(s) \/ OwnRegister(s)
  \/ OwnRegisterFails(s) \/ Refuse(s) \/ ReportStarting(s) \/ RunReports(s)
  \/ RunRaises(s) \/ StopSeen(s) \/ EndsItself(s) \/ TakeCheckPoint(s)
  \/ TellStopping(s) \/ Cleanup(s)

Dispatcher == Dispatch \/ CallFails \/ SvcStop \/ SvcStopTells \/ SvcStopSets \/ SvcInterrogate

Next == \/ \E s \in Services : \/ ScmStart(s) \/ ServiceMain(s)
                               \/ \E code \in Controls : ScmControl(s, code)
        \/ Dispatcher
        \/ ProcessEnds

Spec == Init /\ [][Next]_vars

\* The threads of the process are scheduled.
FairSpec == /\ Spec
            /\ WF_vars(Dispatcher)
            /\ \A s \in Services : WF_vars(ServiceMain(s))

(***************************************************************************)
(* Properties                                                              *)
(***************************************************************************)
TypeOK ==
  /\ scm \in [Services -> [state : States, accepts : SUBSET Controls, check : Nat]]
  /\ main \in [Services -> {"none", "entry", "init", "loaded", "unloaded", "start",
                            "refuse", "run", "doRun", "ending", "tell", "cleanup",
                            "done"}]
  /\ handle \in [Services -> BOOLEAN]
  /\ handler \in [Services -> {"null", "live", "freed"}] /\ spoiled \in BOOLEAN
  /\ hWaitStop \in [Services -> {"none", "clear", "set"}]
  /\ checkPoint \in [Services -> Nat]
  /\ prepared \in [Services -> Nat]
  /\ hpc \in {"idle", "sent", "call", "tell", "set"}
  /\ hpc = "idle" <=> ctrl = NoControl
  /\ ctrl \in (Services \X Controls) \cup {NoControl}
  /\ hPrepared \in Nat

\* The services that run until they are told to stop.
Steady == Services \ SelfEnding

\* A control reaches only a service whose __init__ is complete: the event that
\* SvcStop sets exists, and the handler is a live callable, unless a refused
\* registration was followed by another one of the same service.
HandlerReady ==
  ctrl # NoControl => /\ hWaitStop[Target] # "none"
                      /\ handler[Target] = "live" \/ (spoiled /\ handler[Target] = "freed")

\* What the SCM is told of a steady service, by the service's thread and by the
\* dispatcher's together, is the life of a service.
Life == INSTANCE ServiceLife WITH Services <- Steady,
                                  state <- [s \in Steady |-> scm[s].state],
                                  check <- [s \in Steady |-> scm[s].check]

LifeImplemented == Life!LifeSpec

\* No zombie: when service_main returns the SCM knows the service as stopped,
\* whatever went wrong before, unless it could not be registered at all.
StoppedWhenDone ==
  \A s \in Steady \ RegisterMayFail : main[s] = "done" => scm[s].state = "STOPPED"

\* A stop that was accepted stops the service, as long as its handler is alive.
StopHonoured ==
  \A s \in Steady : ctrl = <<s, "STOP">> ~> (scm[s].state = "STOPPED" \/ spoiled)

\* assert(pe->sshStatusHandle==0); "should have no scm handle yet"
NoHandleYet == \A s \in Services : main[s] = "entry" => ~handle[s]
=============================================================================
