----------------------------- MODULE OutputWindow -----------------------------
(***************************************************************************)
(* The output window of Pythonwin: any thread writes to a queue, and the   *)
(* main thread empties it into a window that the user may close and that   *)
(* is made again when there is text for it.  The main thread works in the  *)
(* idle time of its message loop, and at once when it prints a line        *)
(* itself; another thread wakes it with a message.  flush() empties the    *)
(* queue on whatever thread calls it.                                      *)
(***************************************************************************)
EXTENDS Naturals, SequencesExt

CONSTANTS Main,         \* the thread of the message loop
          Workers,      \* the other threads
          MaxMessages,  \* bound: messages written altogether
          FlushMax,     \* how many items the idle handler takes (20)
          MaxDepth      \* bound: flushes of the main thread inside one another

ASSUME WindowAssumption == /\ Main \notin Workers
                           /\ MaxMessages \in Nat
                           /\ FlushMax \in Nat \ {0} /\ MaxDepth \in Nat \ {0}

VARIABLES outputQueue,      \* the messages that wait, as numbers in the order written
          written,          \* how many messages there have been
          mail,             \* WM_USER is in the queue of the main thread
          waking,           \* the workers that are about to post WM_USER
          idle,             \* bIdle of the message loop
          handlers,         \* QueueIdleHandler is in the idleHandlers of the application
          idleHandlerSet,   \* and the window believes it to be there
          flushes,          \* the calls of QueueFlush of every thread, innermost last
          view,             \* the window: none or open
          text,             \* what it shows
          killBuffer,       \* what it showed when it was closed
          bCreating, errorCantRecreate, interruptCount,
          chatty,           \* the window's own handlers may print
          \* history
          lost,             \* the messages that were dropped
          missed,           \* the last PostMessage failed
          overtaken,        \* messages that a flush held while another one took some
          raced             \* the window was made or closed while another thread flushed

loop == <<mail, idle, handlers, idleHandlerSet, interruptCount, missed>>
window == <<view, text, killBuffer, bCreating, errorCantRecreate>>
history == <<lost, overtaken, raced>>
vars == <<outputQueue, written, waking, flushes, chatty, loop, window, history>>

-----------------------------------------------------------------------------
Threads == Workers \cup {Main}
Messages == 1..MaxMessages
Stages == {"enter", "take", "check", "recreate", "create", "pump", "write"}
\* rc: the queue was empty when the items were taken.
Flush == [by : {"idle", "call"}, stage : Stages, items : Seq(Messages), rc : BOOLEAN]

Init == /\ outputQueue = <<>> /\ written = 0
        /\ mail = FALSE /\ waking = {} /\ idle = TRUE
        /\ handlers = TRUE /\ idleHandlerSet = TRUE
        /\ flushes = [t \in Threads |-> <<>>]
        /\ view = "none" /\ text = <<>> /\ killBuffer = <<>>
        /\ bCreating = FALSE /\ errorCantRecreate = FALSE /\ interruptCount = 0
        /\ chatty \in BOOLEAN
        /\ lost = {} /\ missed = FALSE /\ overtaken = {} /\ raced = FALSE

Quiet(t) == flushes[t] = <<>>
Top(t) == flushes[t][Len(flushes[t])]
At(t, stage) == ~Quiet(t) /\ Top(t).stage = stage
Become(t, flush) == flushes' = [flushes EXCEPT ![t][Len(flushes[t])] = flush]
Goto(t, stage) == Become(t, [Top(t) EXCEPT !.stage = stage])
Pop(t) == flushes' = [flushes EXCEPT ![t] = Front(flushes[t])]

\* The thread looks for the window to make it, or makes it.
Making(t) == \E i \in DOMAIN flushes[t] : flushes[t][i].stage \in {"recreate", "create"}

\* QueueFlush is called, by the idle handler or by write() and flush().
Enter(t, by) ==
  /\ flushes' = [flushes EXCEPT ![t] = Append(@, [by |-> by, stage |-> "enter",
                                                  items |-> <<>>, rc |-> FALSE])]
  /\ raced' = (raced \/ \E s \in Threads \ {t} : Making(s))

-----------------------------------------------------------------------------
(* write() and flush() *)

Put == /\ written < MaxMessages
       /\ written' = written + 1
       /\ outputQueue' = Append(outputQueue, written + 1)

\* PostMessage, which fails when there is no main frame or no room for it.
Post == \/ mail' = TRUE /\ missed' = FALSE
        \/ missed' = TRUE /\ UNCHANGED mail

\* Mutant: the main thread is woken before there is anything for it.
WorkerWakesFirst(w) ==
  \/ /\ w \notin waking /\ written < MaxMessages
     /\ waking' = waking \cup {w} /\ Post
     /\ UNCHANGED <<outputQueue, written>>
  \/ /\ w \in waking
     /\ Put
     /\ waking' = waking \ {w} /\ UNCHANGED <<mail, missed>>

\* HandleOutput on another thread: put, then post.
HandleOutput(w) ==
  \/ /\ w \notin waking
     /\ Put
     /\ waking' = waking \cup {w} /\ UNCHANGED <<mail, missed>>
  \/ /\ w \in waking
     /\ waking' = waking \ {w} /\ Post
     /\ UNCHANGED <<outputQueue, written>>

WorkerWrites(w) == /\ HandleOutput(w)
                   /\ UNCHANGED <<idle, handlers, idleHandlerSet, interruptCount, flushes,
                                  chatty, window, history>>

WorkerFlushes(w) == /\ Quiet(w) /\ Enter(w, "call")
                    /\ UNCHANGED <<outputQueue, written, waking, chatty, loop, window,
                                   lost, overtaken>>

\* HandleOutput on the main thread, where a line is flushed at once, or flush().
PrintOnMain ==
  \/ /\ Put \/ UNCHANGED <<outputQueue, written>>
     /\ Len(flushes[Main]) < MaxDepth /\ Enter(Main, "call")
     /\ UNCHANGED <<mail, missed>>
  \/ Put /\ Post /\ UNCHANGED <<flushes, raced>>

-----------------------------------------------------------------------------
(* QueueFlush *)

\* QueueIdleHandler returns not bEmpty.
MoreWhen(rc) == ~rc

\* The flush returns rc to the idle handler or to its caller.
Return(t, rc) ==
  /\ Pop(t)
  /\ IF Top(t).by = "idle"
     THEN /\ idle' = MoreWhen(rc)
          /\ interruptCount' = IF rc THEN 0 ELSE interruptCount
     ELSE UNCHANGED <<idle, interruptCount>>
  /\ UNCHANGED <<mail, handlers, idleHandlerSet, missed>>

\* An exception leaves the flush: the application removes its idle handler,
\* which the window does not learn.
Fail(t) == /\ Pop(t)
           /\ IF Top(t).by = "idle" THEN idle' = FALSE /\ handlers' = FALSE
                                    ELSE UNCHANGED <<idle, handlers>>
           /\ UNCHANGED <<mail, idleHandlerSet, missed>>

Drop(t) == lost' = lost \cup ToSet(Top(t).items)

\* bCreating is looked at first.
Begin(t) ==
  /\ At(t, "enter")
  /\ IF bCreating THEN Return(t, TRUE) ELSE Goto(t, "take") /\ UNCHANGED loop
  /\ UNCHANGED <<outputQueue, written, waking, chatty, window, history>>

Full(t) == Top(t).by = "idle" /\ Len(Top(t).items) = FlushMax

\* Mutant: the item stays in the queue.
TakenIsKept == outputQueue
Remaining == Tail(outputQueue)

Held(t, depth) == UNION {ToSet(flushes[t][i].items) : i \in 1..depth}

\* What the other flushes hold now.
HeldBeside(t) == Held(t, Len(flushes[t]) - 1)
                   \cup UNION {Held(s, Len(flushes[s])) : s \in Threads \ {t}}

\* get_nowait
TakeItem(t) ==
  /\ At(t, "take") /\ ~Full(t) /\ outputQueue # <<>>
  /\ Become(t, [Top(t) EXCEPT !.items = Append(@, Head(outputQueue))])
  /\ outputQueue' = Remaining
  /\ overtaken' = overtaken \cup HeldBeside(t)
  /\ UNCHANGED <<written, waking, chatty, loop, window, lost, raced>>

Taken(t) ==
  /\ At(t, "take") /\ (Full(t) \/ outputQueue = <<>>)
  /\ IF Top(t).items = <<>>
     THEN Return(t, TRUE)
     ELSE Become(t, [Top(t) EXCEPT !.stage = "check", !.rc = ~Full(t)]) /\ UNCHANGED loop
  /\ UNCHANGED <<outputQueue, written, waking, chatty, window, history>>

\* CheckRecreateWindow
WindowIsThere(t) ==
  /\ At(t, "check") /\ (bCreating \/ view = "open")
  /\ Goto(t, "pump")
  /\ UNCHANGED <<outputQueue, written, waking, chatty, loop, window, history>>

WindowIsGone(t) ==
  /\ At(t, "check") /\ ~bCreating /\ view = "none"
  /\ Goto(t, "recreate")
  /\ raced' = (raced \/ \E s \in Threads \ {t} : ~Quiet(s))
  /\ UNCHANGED <<outputQueue, written, waking, chatty, loop, window, lost, overtaken>>

\* RecreateWindow fails: it failed before, or there is no main frame.
WindowIsNotToBe(t) ==
  /\ At(t, "recreate")
  /\ errorCantRecreate' = TRUE
  /\ Drop(t) /\ Return(t, TRUE)
  /\ UNCHANGED <<outputQueue, written, waking, chatty, view, text, killBuffer, bCreating,
                 overtaken, raced>>

BeginCreate(t) ==
  /\ At(t, "recreate") /\ ~errorCantRecreate
  /\ bCreating' = TRUE
  /\ Goto(t, "create")
  /\ UNCHANGED <<outputQueue, written, waking, chatty, loop, view, text, killBuffer,
                 errorCantRecreate, history>>

\* The view restores what an earlier one saved.  It takes the place of one that
\* another thread has made meanwhile.
CreateSucceeds(t) ==
  /\ At(t, "create")
  /\ view' = "open" /\ text' = killBuffer /\ killBuffer' = <<>>
  /\ lost' = lost \cup ToSet(text)
  /\ bCreating' = FALSE
  /\ Goto(t, "pump")
  /\ UNCHANGED <<outputQueue, written, waking, chatty, loop, errorCantRecreate,
                 overtaken, raced>>

\* OpenDocumentFile returns None: Create returns with bCreating set.
CreateGivesUp(t) ==
  /\ At(t, "create")
  /\ Goto(t, "pump")
  /\ UNCHANGED <<outputQueue, written, waking, chatty, loop, window, history>>

CreateRaises(t) ==
  /\ At(t, "create")
  /\ errorCantRecreate' = TRUE
  /\ Drop(t) /\ Return(t, TRUE)
  /\ UNCHANGED <<outputQueue, written, waking, chatty, view, text, killBuffer, bCreating,
                 overtaken, raced>>

\* A handler of the window prints while the window is made or painted.
HandlerPrints ==
  /\ chatty /\ (At(Main, "create") \/ At(Main, "pump"))
  /\ PrintOnMain
  /\ UNCHANGED <<waking, idle, handlers, idleHandlerSet, interruptCount, chatty, window,
                 lost, overtaken>>

PumpPaintMessages(t) ==
  /\ At(t, "pump")
  /\ Goto(t, "write")
  /\ UNCHANGED <<outputQueue, written, waking, chatty, loop, window, history>>

\* Mutant: the items come before what is there.
WrittenFirst(items) == items \o text
Written(items) == text \o items

WriteItems(t) ==
  /\ At(t, "write")
  /\ IF view = "open"
     THEN /\ text' = Written(Top(t).items)
          /\ Return(t, Top(t).rc)
          /\ UNCHANGED lost
     ELSE /\ Drop(t) /\ Fail(t)
          /\ UNCHANGED <<text, interruptCount>>
  /\ UNCHANGED <<outputQueue, written, waking, chatty, view, killBuffer, bCreating,
                 errorCantRecreate, overtaken, raced>>

\* KeyboardInterrupt in the idle handler.  The first one is raised again, and
\* whatever is raised the application removes the handler.
Interrupt ==
  /\ ~Quiet(Main) /\ Top(Main).by = "idle"
  /\ interruptCount' = interruptCount + 1
  /\ IF interruptCount = 0
     THEN Fail(Main) /\ Drop(Main) /\ UNCHANGED outputQueue
     ELSE /\ Pop(Main) /\ idle' = FALSE
          /\ lost' = lost \cup ToSet(Top(Main).items) \cup ToSet(outputQueue)
          /\ outputQueue' = <<>>
          /\ UNCHANGED <<mail, handlers, idleHandlerSet, missed>>
  /\ UNCHANGED <<written, waking, chatty, window, overtaken, raced>>

-----------------------------------------------------------------------------
(* The message loop of the main thread *)

OnIdle ==
  /\ Quiet(Main) /\ idle /\ ~mail
  /\ IF handlers THEN Enter(Main, "idle") /\ UNCHANGED idle
                 ELSE idle' = FALSE /\ UNCHANGED <<flushes, raced>>
  /\ UNCHANGED <<outputQueue, written, waking, chatty, mail, handlers, idleHandlerSet,
                 interruptCount, missed, window, lost, overtaken>>

PumpMail ==
  /\ Quiet(Main) /\ mail
  /\ mail' = FALSE /\ idle' = TRUE
  /\ UNCHANGED <<outputQueue, written, waking, chatty, handlers, idleHandlerSet,
                 interruptCount, missed, flushes, window, history>>

\* Python code that some other message runs prints.  Not every message is
\* followed by idle time.
MainPrints ==
  /\ Quiet(Main)
  /\ PrintOnMain
  /\ idle' \in {idle, TRUE}
  /\ UNCHANGED <<waking, handlers, idleHandlerSet, interruptCount, chatty, window,
                 lost, overtaken>>

\* Mutant: the text is not saved.
NothingSaved == <<>>
SaveKillBuffer == text

Destroyed == /\ view' = "none" /\ text' = <<>>
             /\ killBuffer' = SaveKillBuffer
             /\ raced' = (raced \/ \E w \in Workers : ~Quiet(w))

\* The user closes the window.
UserCloses ==
  /\ Quiet(Main) /\ view = "open"
  /\ Destroyed
  /\ idle' = TRUE
  /\ UNCHANGED <<outputQueue, written, waking, chatty, mail, handlers, idleHandlerSet,
                 interruptCount, missed, flushes, bCreating, errorCantRecreate,
                 lost, overtaken>>

\* Close() of the template, for good.  It fails when the application has
\* removed the handler by itself.
Close ==
  /\ Quiet(Main)
  /\ idleHandlerSet => handlers
  /\ handlers' = FALSE /\ idleHandlerSet' = FALSE
  /\ IF view = "open" THEN Destroyed ELSE UNCHANGED <<view, text, killBuffer, raced>>
  /\ idle' \in {idle, TRUE}
  /\ UNCHANGED <<outputQueue, written, waking, chatty, mail, interruptCount, missed,
                 flushes, bCreating, errorCantRecreate, lost, overtaken>>

QueueFlush(t) == \/ Begin(t) \/ TakeItem(t) \/ Taken(t) \/ WindowIsThere(t) \/ WindowIsGone(t)
                 \/ WindowIsNotToBe(t) \/ BeginCreate(t) \/ CreateSucceeds(t)
                 \/ CreateGivesUp(t) \/ CreateRaises(t) \/ PumpPaintMessages(t)
                 \/ WriteItems(t)

Next == \/ \E t \in Threads : QueueFlush(t)
        \/ OnIdle \/ PumpMail
        \/ HandlerPrints \/ Interrupt \/ MainPrints \/ UserCloses \/ Close
        \/ \E w \in Workers : WorkerWrites(w) \/ WorkerFlushes(w)

\* Every thread goes on with its flush, the main thread with its loop, and a
\* worker that has put something in the queue posts its message.
Spec == /\ Init /\ [][Next]_vars
        /\ \A t \in Threads : WF_vars(QueueFlush(t))
        /\ WF_vars(OnIdle) /\ WF_vars(PumpMail)
        /\ \A w \in Workers : WF_vars(w \in waking /\ WorkerWrites(w))

-----------------------------------------------------------------------------
(* Properties *)

\* The types.  The second interrupt, which would empty the queue, never comes:
\* the first one has removed the handler.
TypeOK == /\ outputQueue \in Seq(Messages) /\ written \in 0..MaxMessages
          /\ mail \in BOOLEAN /\ waking \in SUBSET Workers /\ idle \in BOOLEAN
          /\ handlers \in BOOLEAN /\ idleHandlerSet \in BOOLEAN
          /\ flushes \in [Threads -> Seq(Flush)]
          /\ \A t \in Threads : Len(flushes[t]) =< MaxDepth
          /\ view \in {"none", "open"} /\ text \in Seq(Messages)
          /\ killBuffer \in Seq(Messages)
          /\ bCreating \in BOOLEAN /\ errorCantRecreate \in BOOLEAN
          /\ interruptCount \in 0..1 /\ chatty \in BOOLEAN
          /\ lost \in SUBSET Messages /\ overtaken \in SUBSET Messages
          /\ missed \in BOOLEAN /\ raced \in BOOLEAN

\* What the user sees, or will see when the window is made again.
Shown == IF view = "open" THEN text ELSE killBuffer
InFlight == UNION {Held(t, Len(flushes[t])) : t \in Threads}

\* The window cannot be made, or nobody empties the queue in idle time.
Stuck == /\ bCreating
         /\ \A t \in Threads : \A i \in DOMAIN flushes[t] : flushes[t][i].stage # "create"
Broken == ~handlers \/ errorCantRecreate \/ Stuck

\* Every message is in one place: it waits, is on its way, is shown once, or
\* was lost, which happens only to a window that cannot work any more, or that
\* one thread made or closed while another one was flushing.
Accounted ==
  /\ \A m \in 1..written :
        Cardinality({p \in {"queue", "flight", "shown", "lost"} :
                        \/ p = "queue" /\ m \in ToSet(outputQueue)
                        \/ p = "flight" /\ m \in InFlight
                        \/ p = "shown" /\ m \in ToSet(Shown)
                        \/ p = "lost" /\ m \in lost}) = 1
  /\ IsInjective(Shown)
  /\ lost # {} => Broken \/ raced

\* What was shown stays shown, before what comes later, also when the window
\* is closed and made again: by one thread at a time.
ShownStays == [][raced \/ IsPrefix(Shown, Shown')]_vars

\* Messages are shown in the order in which they were written, whoever wrote
\* them and whoever flushed them.  The only ones that come late are those that
\* a flush had in its hands while another flush went on to take later ones.
InOrder == \A i, j \in DOMAIN Shown :
             i < j => Shown[i] < Shown[j] \/ Shown[j] \in overtaken

\* Everything written is shown without the user's help, however often something
\* is written, unless the message that was to wake the main thread could not be
\* posted.
TextAppears == ~chatty ~> (ToSet(Shown) = 1..written \/ Broken \/ raced \/ missed)
=============================================================================
