-------------------------- MODULE ServiceHostProofs --------------------------
(***************************************************************************)
(* Proofs about the service host, for any set of services, any of which    *)
(* may end by itself, fail to register, and start again in the process it  *)
(* ended in, where it finds what its last instance left behind.            *)
(***************************************************************************)
EXTENDS ServiceHost, TLAPS

Serving == {"doRun", "ending", "tell", "cleanup", "done"}

\* The instance of s is complete and registered.
Callable(s) == handler[s] = "live" \/ (spoiled /\ handler[s] = "freed")
Complete(s) == hWaitStop[s] # "none" /\ Callable(s) /\ handle[s]

\* How far service_main is bounds what the process keeps for the service.
InitFirst ==
  \A s \in Services :
    /\ main[s] \in {"none", "init"} => hWaitStop[s] = "none"
    /\ main[s] = "none" => handler[s] = "null" /\ ~handle[s]
    /\ main[s] = "init" => Callable(s) /\ handle[s]
    /\ main[s] \in {"loaded", "start", "run"} /\ hWaitStop[s] # "none" => Complete(s)
    /\ main[s] \in {"doRun", "ending", "tell"} => Complete(s)

\* The SCM sends controls only to a service that is complete, and it stays so.
ToldLater ==
  \A s \in Services :
    /\ scm[s].state \in {"RUNNING", "STOP_PENDING"} => main[s] \in Serving /\ Complete(s)
    /\ scm[s].state = "START_PENDING" => scm[s].accepts = {}
    /\ main[s] = "none" => scm[s].state = "STOPPED"

Delivered == /\ hpc = "idle" <=> ctrl = NoControl
             /\ ctrl # NoControl => main[Target] \in Serving /\ Complete(Target)

ReadyInv == TypeOK /\ InitFirst /\ ToldLater /\ Delivered

\* What the SCM knows of a steady service, by where its thread is.
NotCalled(s) == ctrl = NoControl \/ Target # s

Running(s) == /\ scm[s].state = "RUNNING" /\ scm[s].check = 0
              /\ hWaitStop[s] = "clear"
              /\ hpc # "set" \/ NotCalled(s)
              /\ hpc = "tell" /\ ~NotCalled(s) => /\ Code = "STOP"
                                                  /\ hPrepared = checkPoint[s]
                                                  /\ hPrepared > 0

BeingStopped(s) == /\ scm[s].state = "STOP_PENDING"
                   /\ scm[s].check =< checkPoint[s]
                   /\ hWaitStop[s] = "clear" /\ hpc = "set" /\ ~NotCalled(s)

AskedToStop(s) == /\ scm[s].state = "STOP_PENDING"
                  /\ scm[s].check =< checkPoint[s]
                  /\ hWaitStop[s] = "set" /\ NotCalled(s)

SteadyAt(s) ==
  /\ main[s] = "none" => NotCalled(s) /\ hWaitStop[s] = "none"
  /\ main[s] \in {"entry", "init", "loaded", "unloaded", "start", "refuse", "run"} =>
       /\ scm[s].state = "START_PENDING" /\ scm[s].check = 0 /\ NotCalled(s)
       /\ hWaitStop[s] # "set"
  /\ main[s] = "doRun" => Running(s) \/ BeingStopped(s) \/ AskedToStop(s)
  /\ main[s] = "ending" => /\ scm[s].state = "STOP_PENDING" /\ NotCalled(s)
                           /\ scm[s].check =< checkPoint[s]
  /\ main[s] = "tell" => /\ scm[s].state = "STOP_PENDING" /\ NotCalled(s)
                         /\ scm[s].check < prepared[s]
  /\ main[s] = "cleanup" => /\ scm[s].state \in {"START_PENDING", "STOP_PENDING"}
                            /\ NotCalled(s)
  /\ main[s] = "done" => /\ scm[s].state \in {"START_PENDING", "STOPPED"}
                         /\ NotCalled(s)
  /\ main[s] \in {"ending", "tell", "cleanup", "done"} => hWaitStop[s] # "set"
  /\ scm[s].state = "STOPPED" => scm[s].check = 0
  /\ scm[s].state = "STOPPED" => main[s] \in {"none", "done"}

SteadyInv == \A s \in Steady : SteadyAt(s)

\* Past its registration a service that cannot be refused one has a handle.
HandleKept ==
  \A s \in Services \ RegisterMayFail :
    main[s] \in {"start", "refuse", "run", "doRun", "ending", "tell", "cleanup"} => handle[s]

LEMMA ReadyInit == Init => ReadyInv
<1> SUFFICES ASSUME Init PROVE ReadyInv
  OBVIOUS
<1>1. TypeOK
  BY DEF Init, TypeOK, States, Controls
<1>2. InitFirst /\ ToldLater
  BY DEF Init, InitFirst, ToldLater
<1>3. Delivered
  BY DEF Init, Delivered
<1> QED BY <1>1, <1>2, <1>3 DEF ReadyInv

LEMMA ReadyStep == ReadyInv /\ [Next]_vars => ReadyInv'
<1> SUFFICES ASSUME ReadyInv, [Next]_vars PROVE ReadyInv'
  OBVIOUS
<1> USE ServiceAssumption
        DEF ReadyInv, TypeOK, InitFirst, ToldLater, Delivered, Complete, Callable, Serving, States,
            Controls, Target, Code, Goto, At, entry, instance, dispatcher
<1>1. ASSUME NEW s \in Services, ScmStart(s) PROVE ReadyInv'
  BY <1>1 DEF ScmStart, StartingStatus, SetServiceStatus
<1>2. ASSUME NEW s \in Services, LoadFails(s) PROVE ReadyInv'
  BY <1>2 DEF LoadFails
<1>3. ASSUME NEW s \in Services, LoadNeglects(s) PROVE ReadyInv'
  BY <1>3 DEF LoadNeglects
<1>4. ASSUME NEW s \in Services, Register(s) PROVE ReadyInv'
  BY <1>4 DEF Register, StoreHandler
<1>5. ASSUME NEW s \in Services, RegisterFails(s) PROVE ReadyInv'
  BY <1>5 DEF RegisterFails, StoreHandler
<1>6. ASSUME NEW s \in Services, InitDone(s) PROVE ReadyInv'
  BY <1>6 DEF InitDone
<1>7. ASSUME NEW s \in Services, InitRaises(s) PROVE ReadyInv'
  BY <1>7 DEF InitRaises
<1>8. ASSUME NEW s \in Services, HasHandle(s) PROVE ReadyInv'
  BY <1>8 DEF HasHandle, Settle
<1>9. ASSUME NEW s \in Services, OwnRegister(s) PROVE ReadyInv'
  <2>1. CASE Goto(s, "loaded", "start")
    BY <1>9, <2>1 DEF OwnRegister
  <2>2. CASE Goto(s, "unloaded", "refuse")
    BY <1>9, <2>2 DEF OwnRegister
  <2> QED BY <1>9, <2>1, <2>2 DEF OwnRegister, Settle
<1>10. ASSUME NEW s \in Services, OwnRegisterFails(s) PROVE ReadyInv'
  <2>1. CASE Goto(s, "loaded", "start")
    BY <1>10, <2>1 DEF OwnRegisterFails
  <2>2. CASE Goto(s, "unloaded", "refuse")
    BY <1>10, <2>2 DEF OwnRegisterFails
  <2> QED BY <1>10, <2>1, <2>2 DEF OwnRegisterFails, Settle
<1>11. ASSUME NEW s \in Services, Refuse(s) PROVE ReadyInv'
  <2>1. CASE handle[s]
    <3>1. scm' = [scm EXCEPT ![s] = [state |-> "STOPPED", accepts |-> {}, check |-> 0]]
      BY <1>11, <2>1 DEF Refuse, NeverStartedStatus, SetServiceStatus
    <3> QED BY <1>11, <3>1 DEF Refuse
  <2>2. CASE ~handle[s]
    <3>1. UNCHANGED scm
      BY <1>11, <2>2 DEF Refuse
    <3> QED BY <1>11, <3>1 DEF Refuse
  <2> QED BY <2>1, <2>2
<1>12. ASSUME NEW s \in Services, ReportStarting(s) PROVE ReadyInv'
  BY <1>12 DEF ReportStarting, StartingStatus, SetServiceStatus
<1>13. ASSUME NEW s \in Services, RunReports(s) PROVE ReadyInv'
  BY <1>13 DEF RunReports, ReportRunning, SetServiceStatus, GetAcceptedControls
<1>14. ASSUME NEW s \in Services, RunRaises(s) PROVE ReadyInv'
  BY <1>14 DEF RunRaises
<1>15. ASSUME NEW s \in Services, StopSeen(s) PROVE ReadyInv'
  BY <1>15 DEF StopSeen
<1>16. ASSUME NEW s \in Services, EndsItself(s) PROVE ReadyInv'
  <2>1. CASE Goto(s, "doRun", "ending")
    BY <1>16, <2>1 DEF EndsItself
  <2>2. CASE Goto(s, "doRun", "cleanup")
    BY <1>16, <2>2 DEF EndsItself
  <2> QED BY <1>16, <2>1, <2>2 DEF EndsItself
<1>17. ASSUME NEW s \in Services, TakeCheckPoint(s) PROVE ReadyInv'
  BY <1>17 DEF TakeCheckPoint
<1>18. ASSUME NEW s \in Services, TellStopping(s) PROVE ReadyInv'
  BY <1>18 DEF TellStopping, ReportStopPending, SetServiceStatus, GetAcceptedControls
<1>19. ASSUME NEW s \in Services, Cleanup(s) PROVE ReadyInv'
  BY <1>19 DEF Cleanup, StoppedStatus, SetServiceStatus
<1>20. ASSUME NEW s \in Services, NEW code \in Controls, ScmControl(s, code)
      PROVE  ReadyInv'
  BY <1>20 DEF ScmControl
<1>21. CASE Dispatch
  BY <1>21 DEF Dispatch
<1>22. CASE SvcStop
  BY <1>22 DEF SvcStop
<1>23. CASE SvcStopTells
  BY <1>23 DEF SvcStopTells, ReportStopPending, SetServiceStatus, GetAcceptedControls
<1>24. CASE SvcStopSets
  BY <1>24 DEF SvcStopSets
<1>25. CASE SvcInterrogate
  BY <1>25 DEF SvcInterrogate, ReportRunning, SetServiceStatus, GetAcceptedControls
<1>26. CASE ProcessEnds
  BY <1>26 DEF ProcessEnds
<1>28. CASE CallFails
  BY <1>28 DEF CallFails
<1>27. CASE UNCHANGED vars
  BY <1>27 DEF vars
<1> QED
  BY ONLY [Next]_vars, <1>1, <1>2, <1>3, <1>4, <1>5, <1>6, <1>7, <1>8, <1>9, <1>10, <1>11, <1>12,
     <1>13, <1>14, <1>15, <1>16, <1>17, <1>18, <1>19, <1>20, <1>21, <1>22, <1>23, <1>24, <1>25, <1>26, <1>27,
     <1>28
  DEF Next, ServiceMain, Dispatcher

LEMMA SteadyInit == Init => SteadyInv
<1> SUFFICES ASSUME Init, NEW s \in Steady PROVE SteadyAt(s)
  BY DEF SteadyInv
<1>1. s \in Services
  BY DEF Steady
<1>2. main[s] = "none" /\ hWaitStop[s] = "none" /\ ctrl = NoControl
  BY <1>1 DEF Init
<1>3. scm[s].state = "STOPPED" /\ scm[s].check = 0
  BY <1>1 DEF Init
<1> QED BY <1>2, <1>3 DEF SteadyAt, NotCalled

LEMMA SteadyStep == ReadyInv /\ SteadyInv /\ [Next]_vars => SteadyInv'
<1> SUFFICES ASSUME ReadyInv, SteadyInv, [Next]_vars, NEW t \in Steady PROVE SteadyAt(t)'
  BY DEF SteadyInv
<1> SteadyAt(t) /\ t \in Services /\ t \notin SelfEnding
  BY DEF SteadyInv, Steady
<1> USE ServiceAssumption
        DEF ReadyInv, TypeOK, InitFirst, ToldLater, Delivered, Complete, Callable, Serving, States,
            Controls, Target, Code, Goto, At, entry, instance, dispatcher, SteadyAt,
            NotCalled, Running, BeingStopped, AskedToStop
<1>1. ASSUME NEW s \in Services, ScmStart(s) PROVE SteadyAt(t)'
  BY <1>1 DEF ScmStart, StartingStatus, SetServiceStatus
<1>2. ASSUME NEW s \in Services, LoadFails(s) PROVE SteadyAt(t)'
  BY <1>2 DEF LoadFails
<1>3. ASSUME NEW s \in Services, LoadNeglects(s) PROVE SteadyAt(t)'
  BY <1>3 DEF LoadNeglects
<1>4. ASSUME NEW s \in Services, Register(s) PROVE SteadyAt(t)'
  BY <1>4 DEF Register, StoreHandler
<1>5. ASSUME NEW s \in Services, RegisterFails(s) PROVE SteadyAt(t)'
  BY <1>5 DEF RegisterFails, StoreHandler
<1>6. ASSUME NEW s \in Services, InitDone(s) PROVE SteadyAt(t)'
  BY <1>6 DEF InitDone
<1>7. ASSUME NEW s \in Services, InitRaises(s) PROVE SteadyAt(t)'
  BY <1>7 DEF InitRaises
<1>8. ASSUME NEW s \in Services, HasHandle(s) PROVE SteadyAt(t)'
  BY <1>8 DEF HasHandle, Settle
<1>9. ASSUME NEW s \in Services, OwnRegister(s) PROVE SteadyAt(t)'
  BY <1>9 DEF OwnRegister, Settle
<1>10. ASSUME NEW s \in Services, OwnRegisterFails(s) PROVE SteadyAt(t)'
  BY <1>10 DEF OwnRegisterFails, Settle
<1>11. ASSUME NEW s \in Services, Refuse(s) PROVE SteadyAt(t)'
  BY <1>11 DEF Refuse, NeverStartedStatus, SetServiceStatus
<1>12. ASSUME NEW s \in Services, ReportStarting(s) PROVE SteadyAt(t)'
  BY <1>12 DEF ReportStarting, StartingStatus, SetServiceStatus
<1>13. ASSUME NEW s \in Services, RunReports(s) PROVE SteadyAt(t)'
  BY <1>13 DEF RunReports, ReportRunning, SetServiceStatus, GetAcceptedControls
<1>14. ASSUME NEW s \in Services, RunRaises(s) PROVE SteadyAt(t)'
  BY <1>14 DEF RunRaises
<1>15. ASSUME NEW s \in Services, StopSeen(s) PROVE SteadyAt(t)'
  BY <1>15 DEF StopSeen
<1>16. ASSUME NEW s \in Services, EndsItself(s) PROVE SteadyAt(t)'
  BY <1>16 DEF EndsItself
<1>17. ASSUME NEW s \in Services, TakeCheckPoint(s) PROVE SteadyAt(t)'
  BY <1>17 DEF TakeCheckPoint
<1>18. ASSUME NEW s \in Services, TellStopping(s) PROVE SteadyAt(t)'
  BY <1>18 DEF TellStopping, ReportStopPending, SetServiceStatus, GetAcceptedControls
<1>19. ASSUME NEW s \in Services, Cleanup(s) PROVE SteadyAt(t)'
  BY <1>19 DEF Cleanup, StoppedStatus, SetServiceStatus
<1>20. ASSUME NEW s \in Services, NEW code \in Controls, ScmControl(s, code)
      PROVE  SteadyAt(t)'
  BY <1>20 DEF ScmControl
<1>21. CASE Dispatch
  BY <1>21 DEF Dispatch
<1>22. CASE SvcStop
  BY <1>22 DEF SvcStop
<1>23. CASE SvcStopTells
  BY <1>23 DEF SvcStopTells, ReportStopPending, SetServiceStatus, GetAcceptedControls
<1>24. CASE SvcStopSets
  BY <1>24 DEF SvcStopSets
<1>25. CASE SvcInterrogate
  BY <1>25 DEF SvcInterrogate, ReportRunning, SetServiceStatus, GetAcceptedControls
<1>26. CASE ProcessEnds
  BY <1>26 DEF ProcessEnds
<1>28. CASE CallFails
  BY <1>28 DEF CallFails
<1>27. CASE UNCHANGED vars
  BY <1>27 DEF vars
<1> QED
  BY ONLY [Next]_vars, <1>1, <1>2, <1>3, <1>4, <1>5, <1>6, <1>7, <1>8, <1>9, <1>10, <1>11, <1>12,
     <1>13, <1>14, <1>15, <1>16, <1>17, <1>18, <1>19, <1>20, <1>21, <1>22, <1>23, <1>24, <1>25, <1>26, <1>27,
     <1>28
  DEF Next, ServiceMain, Dispatcher

LEMMA HandleStep == ReadyInv /\ HandleKept /\ [Next]_vars => HandleKept'
<1> SUFFICES ASSUME ReadyInv, HandleKept, [Next]_vars PROVE HandleKept'
  OBVIOUS
<1> USE ServiceAssumption DEF HandleKept, ReadyInv, TypeOK, InitFirst, Complete, Callable, Goto, entry
<1>1. ASSUME NEW s \in Services, ScmStart(s) PROVE HandleKept'
  BY <1>1 DEF ScmStart, StartingStatus, SetServiceStatus
<1>2. ASSUME NEW s \in Services, LoadFails(s) PROVE HandleKept'
  BY <1>2 DEF LoadFails
<1>3. ASSUME NEW s \in Services, LoadNeglects(s) PROVE HandleKept'
  BY <1>3 DEF LoadNeglects
<1>4. ASSUME NEW s \in Services, Register(s) PROVE HandleKept'
  BY <1>4 DEF Register, StoreHandler
<1>5. ASSUME NEW s \in Services, RegisterFails(s) PROVE HandleKept'
  BY <1>5 DEF RegisterFails, StoreHandler
<1>6. ASSUME NEW s \in Services, InitDone(s) PROVE HandleKept'
  BY <1>6 DEF InitDone
<1>7. ASSUME NEW s \in Services, InitRaises(s) PROVE HandleKept'
  BY <1>7 DEF InitRaises
<1>8. ASSUME NEW s \in Services, HasHandle(s) PROVE HandleKept'
  BY <1>8 DEF HasHandle, Settle
<1>9. ASSUME NEW s \in Services, OwnRegister(s) PROVE HandleKept'
  BY <1>9 DEF OwnRegister, Settle
<1>10. ASSUME NEW s \in Services, OwnRegisterFails(s) PROVE HandleKept'
  BY <1>10 DEF OwnRegisterFails, Settle
<1>11. ASSUME NEW s \in Services, Refuse(s) PROVE HandleKept'
  BY <1>11 DEF Refuse, NeverStartedStatus, SetServiceStatus
<1>12. ASSUME NEW s \in Services, ReportStarting(s) PROVE HandleKept'
  BY <1>12 DEF ReportStarting, StartingStatus, SetServiceStatus
<1>13. ASSUME NEW s \in Services, RunReports(s) PROVE HandleKept'
  BY <1>13 DEF RunReports, ReportRunning, SetServiceStatus, GetAcceptedControls
<1>14. ASSUME NEW s \in Services, RunRaises(s) PROVE HandleKept'
  BY <1>14 DEF RunRaises
<1>15. ASSUME NEW s \in Services, StopSeen(s) PROVE HandleKept'
  BY <1>15 DEF StopSeen
<1>16. ASSUME NEW s \in Services, EndsItself(s) PROVE HandleKept'
  BY <1>16 DEF EndsItself
<1>17. ASSUME NEW s \in Services, TakeCheckPoint(s) PROVE HandleKept'
  BY <1>17 DEF TakeCheckPoint
<1>18. ASSUME NEW s \in Services, TellStopping(s) PROVE HandleKept'
  BY <1>18 DEF TellStopping, ReportStopPending, SetServiceStatus, GetAcceptedControls
<1>19. ASSUME NEW s \in Services, Cleanup(s) PROVE HandleKept'
  BY <1>19 DEF Cleanup, StoppedStatus, SetServiceStatus
<1>20. ASSUME NEW s \in Services, NEW code \in Controls, ScmControl(s, code)
      PROVE  HandleKept'
  BY <1>20 DEF ScmControl
<1>21. CASE Dispatch
  BY <1>21 DEF Dispatch
<1>22. CASE SvcStop
  BY <1>22 DEF SvcStop
<1>23. CASE SvcStopTells
  BY <1>23 DEF SvcStopTells, ReportStopPending, SetServiceStatus, GetAcceptedControls
<1>24. CASE SvcStopSets
  BY <1>24 DEF SvcStopSets
<1>25. CASE SvcInterrogate
  BY <1>25 DEF SvcInterrogate, ReportRunning, SetServiceStatus, GetAcceptedControls
<1>26. CASE ProcessEnds
  BY <1>26 DEF ProcessEnds
<1>28. CASE CallFails
  BY <1>28 DEF CallFails
<1>27. CASE UNCHANGED vars
  BY <1>27 DEF vars
<1> QED
  BY ONLY [Next]_vars, <1>1, <1>2, <1>3, <1>4, <1>5, <1>6, <1>7, <1>8, <1>9, <1>10, <1>11, <1>12,
     <1>13, <1>14, <1>15, <1>16, <1>17, <1>18, <1>19, <1>20, <1>21, <1>22, <1>23, <1>24, <1>25, <1>26, <1>27,
     <1>28
  DEF Next, ServiceMain, Dispatcher

LEMMA StoppedStep == /\ ReadyInv /\ SteadyInv /\ HandleKept /\ StoppedWhenDone
                     /\ [Next]_vars
                     => StoppedWhenDone'
<1> SUFFICES ASSUME ReadyInv, SteadyInv, HandleKept, StoppedWhenDone, [Next]_vars,
                    NEW t \in Steady \ RegisterMayFail
             PROVE  (main[t] = "done" => scm[t].state = "STOPPED")'
  BY DEF StoppedWhenDone
<1> DEFINE Done == main[t] = "done" => scm[t].state = "STOPPED"
<1> /\ t \in Services /\ t \notin SelfEnding /\ t \notin RegisterMayFail
    /\ SteadyAt(t) /\ Done
    /\ main[t] \in {"start", "refuse", "run", "doRun", "ending", "tell", "cleanup"} =>
         handle[t]
  BY DEF SteadyInv, Steady, HandleKept, StoppedWhenDone
<1> USE ServiceAssumption
        DEF ReadyInv, TypeOK, Delivered, Goto, At, entry, SteadyAt, NotCalled, Controls,
            Target, Code
<1>1. ASSUME NEW s \in Services, ScmStart(s) PROVE Done'
  BY <1>1 DEF ScmStart, StartingStatus, SetServiceStatus
<1>2. ASSUME NEW s \in Services, LoadFails(s) PROVE Done'
  BY <1>2 DEF LoadFails
<1>3. ASSUME NEW s \in Services, LoadNeglects(s) PROVE Done'
  BY <1>3 DEF LoadNeglects
<1>4. ASSUME NEW s \in Services, Register(s) PROVE Done'
  BY <1>4 DEF Register, StoreHandler
<1>5. ASSUME NEW s \in Services, RegisterFails(s) PROVE Done'
  BY <1>5 DEF RegisterFails, StoreHandler
<1>6. ASSUME NEW s \in Services, InitDone(s) PROVE Done'
  BY <1>6 DEF InitDone
<1>7. ASSUME NEW s \in Services, InitRaises(s) PROVE Done'
  BY <1>7 DEF InitRaises
<1>8. ASSUME NEW s \in Services, HasHandle(s) PROVE Done'
  BY <1>8 DEF HasHandle, Settle
<1>9. ASSUME NEW s \in Services, OwnRegister(s) PROVE Done'
  BY <1>9 DEF OwnRegister, Settle
<1>10. ASSUME NEW s \in Services, OwnRegisterFails(s) PROVE Done'
  BY <1>10 DEF OwnRegisterFails, Settle
<1>11. ASSUME NEW s \in Services, Refuse(s) PROVE Done'
  BY <1>11 DEF Refuse, NeverStartedStatus, SetServiceStatus
<1>12. ASSUME NEW s \in Services, ReportStarting(s) PROVE Done'
  BY <1>12 DEF ReportStarting, StartingStatus, SetServiceStatus
<1>13. ASSUME NEW s \in Services, RunReports(s) PROVE Done'
  BY <1>13 DEF RunReports, ReportRunning, SetServiceStatus, GetAcceptedControls
<1>14. ASSUME NEW s \in Services, RunRaises(s) PROVE Done'
  BY <1>14 DEF RunRaises
<1>15. ASSUME NEW s \in Services, StopSeen(s) PROVE Done'
  BY <1>15 DEF StopSeen
<1>16. ASSUME NEW s \in Services, EndsItself(s) PROVE Done'
  BY <1>16 DEF EndsItself
<1>17. ASSUME NEW s \in Services, TakeCheckPoint(s) PROVE Done'
  BY <1>17 DEF TakeCheckPoint
<1>18. ASSUME NEW s \in Services, TellStopping(s) PROVE Done'
  BY <1>18 DEF TellStopping, ReportStopPending, SetServiceStatus, GetAcceptedControls
<1>19. ASSUME NEW s \in Services, Cleanup(s) PROVE Done'
  BY <1>19 DEF Cleanup, StoppedStatus, SetServiceStatus
<1>20. ASSUME NEW s \in Services, NEW code \in Controls, ScmControl(s, code)
      PROVE  Done'
  BY <1>20 DEF ScmControl
<1>21. CASE Dispatch
  BY <1>21 DEF Dispatch
<1>22. CASE SvcStop
  BY <1>22 DEF SvcStop
<1>23. CASE SvcStopTells
  BY <1>23 DEF SvcStopTells, ReportStopPending, SetServiceStatus, GetAcceptedControls
<1>24. CASE SvcStopSets
  BY <1>24 DEF SvcStopSets
<1>25. CASE SvcInterrogate
  BY <1>25 DEF SvcInterrogate, ReportRunning, SetServiceStatus, GetAcceptedControls
<1>26. CASE ProcessEnds
  BY <1>26 DEF ProcessEnds
<1>28. CASE CallFails
  BY <1>28 DEF CallFails
<1>27. CASE UNCHANGED vars
  BY <1>27 DEF vars
<1> QED
  BY ONLY [Next]_vars, <1>1, <1>2, <1>3, <1>4, <1>5, <1>6, <1>7, <1>8, <1>9, <1>10, <1>11, <1>12,
     <1>13, <1>14, <1>15, <1>16, <1>17, <1>18, <1>19, <1>20, <1>21, <1>22, <1>23, <1>24, <1>25, <1>26, <1>27,
     <1>28
  DEF Next, ServiceMain, Dispatcher

\* What the SCM records of a steady service is all that the abstract life sees.
LEMMA Quiet == ASSUME scm' = scm PROVE UNCHANGED Life!lifeVars
BY DEF Life!lifeVars

LEMMA Told ==
  ASSUME NEW s \in Services, NEW st \in States, NEW acc, NEW c \in Nat, TypeOK,
         SetServiceStatus(s, st, acc, c)
  PROVE  /\ s \in Steady => Life!Tells(s, st, c)
         /\ s \notin Steady => UNCHANGED Life!lifeVars
         /\ scm[s].state = st /\ scm[s].check = c => UNCHANGED Life!lifeVars
<1>1. \A t \in Services : /\ scm'[t].state = IF t = s THEN st ELSE scm[t].state
                          /\ scm'[t].check = IF t = s THEN c ELSE scm[t].check
  BY DEF SetServiceStatus, TypeOK
<1>2. \A t \in Steady : t \in Services
  BY DEF Steady
<1>3. s \in Steady => Life!Tells(s, st, c)
  BY <1>1, <1>2 DEF Life!Tells
<1>4. s \notin Steady => UNCHANGED Life!lifeVars
  BY <1>1, <1>2 DEF Life!lifeVars
<1>5. scm[s].state = st /\ scm[s].check = c => UNCHANGED Life!lifeVars
  BY <1>1, <1>2 DEF Life!lifeVars
<1> QED BY <1>3, <1>4, <1>5

LEMMA LifeStep == ReadyInv /\ SteadyInv /\ [Next]_vars => [Life!LifeNext]_Life!lifeVars
<1> SUFFICES ASSUME ReadyInv, SteadyInv, [Next]_vars
             PROVE  [Life!LifeNext]_Life!lifeVars
  OBVIOUS
<1>a. TypeOK /\ (ctrl # NoControl => Target \in Services)
  BY DEF ReadyInv, TypeOK, Target
<1>b. \A s \in Steady : SteadyAt(s) /\ s \in Services
  BY DEF SteadyInv, Steady
<1>c. ASSUME scm' = scm PROVE [Life!LifeNext]_Life!lifeVars
  BY <1>c, Quiet
<1>d. ASSUME NEW s \in Services, NEW st \in States, NEW acc, NEW c \in Nat,
             SetServiceStatus(s, st, acc, c),
             s \in Steady =>
               \/ scm[s].state = st /\ scm[s].check = c
               \/ scm[s].state = "STOPPED" /\ st = "START_PENDING" /\ c = 0
               \/ scm[s].state = "START_PENDING" /\ st = "RUNNING" /\ c = 0
               \/ /\ scm[s].state \in {"RUNNING", "STOP_PENDING"} /\ st = "STOP_PENDING"
                  /\ c > scm[s].check
               \/ scm[s].state # "STOPPED" /\ st = "STOPPED" /\ c = 0
      PROVE  [Life!LifeNext]_Life!lifeVars
  <2>1. /\ s \in Steady => Life!Tells(s, st, c)
        /\ s \notin Steady => UNCHANGED Life!lifeVars
        /\ scm[s].state = st /\ scm[s].check = c => UNCHANGED Life!lifeVars
    BY <1>a, <1>d, Told
  <2>2. CASE s \in Steady /\ ~(scm[s].state = st /\ scm[s].check = c)
    <3>1. [t \in Steady |-> scm[t].state][s] = scm[s].state
      BY <2>2
    <3>2. [t \in Steady |-> scm[t].check][s] = scm[s].check
      BY <2>2
    <3>3. Life!Tells(s, st, c) => [t \in Steady |-> scm[t].check]'[s] = c
      BY <2>2 DEF Life!Tells
    <3>4. Life!Tells(s, st, c)
      BY <2>1, <2>2
    <3>5. CASE scm[s].state = "STOPPED" /\ st = "START_PENDING" /\ c = 0
      BY <2>2, <3>1, <3>4, <3>5 DEF Life!LifeNext, Life!Start
    <3>6. CASE scm[s].state = "START_PENDING" /\ st = "RUNNING" /\ c = 0
      BY <2>2, <3>1, <3>4, <3>6 DEF Life!LifeNext, Life!Run
    <3>7. CASE /\ scm[s].state \in {"RUNNING", "STOP_PENDING"} /\ st = "STOP_PENDING"
               /\ c > scm[s].check
      <4>1. [t \in Steady |-> scm[t].check]'[s] = c
        BY <3>3, <3>4
      <4>2. Life!Stopping(s)
        BY <3>1, <3>2, <3>4, <3>7, <4>1 DEF Life!Stopping, Life!Tells
      <4> QED BY <2>2, <4>2 DEF Life!LifeNext
    <3>8. CASE scm[s].state # "STOPPED" /\ st = "STOPPED" /\ c = 0
      BY <2>2, <3>1, <3>4, <3>8 DEF Life!LifeNext, Life!Stopped
    <3> QED BY <1>d, <2>2, <3>5, <3>6, <3>7, <3>8
  <2> QED BY <2>1, <2>2
<1> USE DEF Goto, At
<1>1. ASSUME NEW s \in Services, ScmStart(s) PROVE [Life!LifeNext]_Life!lifeVars
  BY <1>1, <1>d DEF ScmStart, StartingStatus, States
<1>2. ASSUME NEW s \in Services, Refuse(s) PROVE [Life!LifeNext]_Life!lifeVars
  BY <1>2, <1>b, <1>c, <1>d DEF Refuse, NeverStartedStatus, States, SteadyAt
<1>3. ASSUME NEW s \in Services, ReportStarting(s) PROVE [Life!LifeNext]_Life!lifeVars
  BY <1>3, <1>b, <1>c, <1>d DEF ReportStarting, StartingStatus, States, SteadyAt
<1>4. ASSUME NEW s \in Services, RunReports(s) PROVE [Life!LifeNext]_Life!lifeVars
  BY <1>4, <1>b, <1>d DEF RunReports, ReportRunning, States, SteadyAt
<1>5. ASSUME NEW s \in Services, TellStopping(s) PROVE [Life!LifeNext]_Life!lifeVars
  <2>1. prepared[s] \in Nat
    BY <1>a DEF TypeOK
  <2>2. s \in Steady => scm[s].state = "STOP_PENDING" /\ prepared[s] > scm[s].check
    BY <1>5, <1>a, <1>b DEF TellStopping, SteadyAt, TypeOK
  <2> QED BY <1>5, <1>d, <2>1, <2>2 DEF TellStopping, ReportStopPending, States
<1>6. ASSUME NEW s \in Services, Cleanup(s) PROVE [Life!LifeNext]_Life!lifeVars
  BY <1>6, <1>b, <1>c, <1>d DEF Cleanup, StoppedStatus, States, SteadyAt
<1>e. ASSUME hpc \in {"call", "tell"}, Target \in Steady
      PROVE  Running(Target)
  <2>1. ~NotCalled(Target)
    BY <1>e, <1>a DEF NotCalled, TypeOK
  <2>2. main[Target] \in {"none", "entry", "init", "loaded", "unloaded", "start", "refuse",
                          "run", "doRun", "ending", "tell", "cleanup", "done"}
    BY <1>a, <1>b, <1>e DEF TypeOK
  <2>3. main[Target] = "doRun"
    BY <1>b, <1>e, <2>1, <2>2 DEF SteadyAt
  <2> QED BY <1>b, <1>e, <2>1, <2>3 DEF SteadyAt, BeingStopped, AskedToStop
<1>7. CASE SvcStopTells
  <2>1. Target \in Services /\ hPrepared \in Nat /\ ~NotCalled(Target)
    BY <1>7, <1>a DEF SvcStopTells, TypeOK, NotCalled
  <2>2. Target \in Steady => /\ scm[Target].state = "RUNNING"
                             /\ hPrepared > scm[Target].check
    BY <1>7, <1>e, <2>1 DEF SvcStopTells, Running
  <2> QED BY <1>7, <1>d, <2>1, <2>2 DEF SvcStopTells, ReportStopPending, States
<1>8. CASE SvcInterrogate
  <2>1. Target \in Services
    BY <1>8, <1>a DEF SvcInterrogate, TypeOK
  <2>2. Target \in Steady => scm[Target].state = "RUNNING" /\ scm[Target].check = 0
    BY <1>8, <1>e DEF SvcInterrogate, Running
  <2> QED BY <1>8, <1>d, <2>1, <2>2 DEF SvcInterrogate, ReportRunning, States
<1>9. CASE scm' = scm
  BY <1>9, <1>c
<1> QED
  BY <1>1, <1>2, <1>3, <1>4, <1>5, <1>6, <1>7, <1>8, <1>9
  DEF Next, ServiceMain, Dispatcher, vars, ScmControl, ProcessEnds, LoadFails, LoadNeglects,
      Register, RegisterFails, InitDone, InitRaises, HasHandle, OwnRegister,
      OwnRegisterFails, RunRaises, StopSeen, EndsItself, TakeCheckPoint, Dispatch, CallFails, SvcStop,
      SvcStopSets

(***************************************************************************)
(* The theorems.                                                           *)
(***************************************************************************)
LEMMA Invariants == Spec => [](ReadyInv /\ SteadyInv /\ HandleKept /\ StoppedWhenDone)
<1> DEFINE Inv == ReadyInv /\ SteadyInv /\ HandleKept /\ StoppedWhenDone
<1>1. Init => Inv
  <2>1. ASSUME Init PROVE HandleKept /\ StoppedWhenDone
    BY <2>1 DEF Init, HandleKept, StoppedWhenDone, Steady
  <2> QED BY <2>1, ReadyInit, SteadyInit
<1>2. Inv /\ [Next]_vars => Inv'
  BY ReadyStep, SteadyStep, HandleStep, StoppedStep
<1> QED BY <1>1, <1>2, PTL DEF Spec

\* The dispatcher never runs a handler on a service that is not complete: a
\* control is delivered only after service_main has reported RUNNING, and the
\* callback and the event of the instance outlive every control.
THEOREM ControlsFindTheirService == Spec => [](TypeOK /\ HandlerReady)
<1>1. ReadyInv => TypeOK /\ HandlerReady
  BY DEF ReadyInv, Delivered, Complete, Callable, HandlerReady
<1> QED BY <1>1, Invariants, PTL

\* Whatever goes wrong while a service is loaded and run, service_main returns
\* with the SCM told that it has stopped: the host registers a handler of its
\* own for a service that has none.
THEOREM NoZombies == Spec => []StoppedWhenDone
BY Invariants, PTL

\* The two threads that report the status of a service, each with the check
\* point it has taken before, never take it back: the SCM sees the life of a
\* service, and progress in every report of a stop.
THEOREM OneLifeToTell == Spec => LifeImplemented
<1>1. Init => Life!LifeInit
  <2> SUFFICES ASSUME Init PROVE Life!LifeInit
    OBVIOUS
  <2>1. \A s \in Steady : scm[s].state = "STOPPED" /\ scm[s].check = 0
    BY DEF Init, Steady
  <2> QED BY <2>1 DEF Life!LifeInit
<1>2. ReadyInv /\ SteadyInv /\ [Next]_vars => [Life!LifeNext]_Life!lifeVars
  BY LifeStep
<1> QED BY <1>1, <1>2, Invariants, PTL DEF Spec, LifeImplemented, Life!LifeSpec

\* A service that has said it will stop is at it: it waits for nothing but the
\* event that is set or that the dispatcher is about to set, or it is ending.
StopIsOnItsWay ==
  \A s \in Steady :
    scm[s].state = "STOP_PENDING" =>
      \/ main[s] \in {"ending", "tell", "cleanup"}
      \/ /\ main[s] = "doRun"
         /\ hWaitStop[s] = "set" \/ (hWaitStop[s] = "clear" /\ hpc = "set" /\ Target = s)

\* No stop is lost between the report of STOP_PENDING and the event: SvcDoRun
\* never waits for an event that nobody is going to set.
THEOREM SpecStopIsOnItsWay == Spec => []StopIsOnItsWay
<1>1. ReadyInv /\ SteadyInv => StopIsOnItsWay
  <2> SUFFICES ASSUME ReadyInv, SteadyInv, NEW s \in Steady, scm[s].state = "STOP_PENDING"
               PROVE  \/ main[s] \in {"ending", "tell", "cleanup"}
                      \/ /\ main[s] = "doRun"
                         /\ \/ hWaitStop[s] = "set"
                            \/ hWaitStop[s] = "clear" /\ hpc = "set" /\ Target = s
    BY DEF StopIsOnItsWay
  <2>1. s \in Services /\ SteadyAt(s)
    BY DEF SteadyInv, Steady
  <2>2. main[s] \in Serving
    BY <2>1 DEF ReadyInv, ToldLater
  <2>3. main[s] # "done"
    BY <2>1 DEF SteadyAt
  <2>4. main[s] = "doRun" => BeingStopped(s) \/ AskedToStop(s)
    BY <2>1 DEF SteadyAt, Running
  <2> QED BY <2>2, <2>3, <2>4 DEF Serving, BeingStopped, AskedToStop, NotCalled
<1> QED BY <1>1, Invariants, PTL
=============================================================================
