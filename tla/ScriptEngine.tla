---------------------------- MODULE ScriptEngine ----------------------------
(***************************************************************************)
(* The ActiveX scripting engine: COMScript (axscript/client/framework.py)  *)
(* as PyScript (pyscript.py) completes it, driven by the host of           *)
(* axscript/server/axsite.py.  The engine runs in one apartment, so what   *)
(* interleaves is not threads but calls: script code that runs inside the  *)
(* engine calls objects of the host, and the host calls the engine again.  *)
(*                                                                         *)
(* The engine is a record and every method without script code in it is a  *)
(* function on that record.  What is left of the methods that do run       *)
(* script code is kept on a stack of frames, the top first:                *)
(*   script     a section of script code is running                        *)
(*   pending    DoExecutePendingScripts goes over a list of code blocks    *)
(*   started    SetScriptState(STARTED) after its Run                      *)
(*   connected  SetScriptState(CONNECTED) after its Run                    *)
(*   report     HandleException after its SetScriptState(CONNECTED)        *)
(* exc is the exception that is unwinding the stack.  Debugging is off.    *)
(***************************************************************************)
EXTENDS Integers, Sequences, FiniteSets, SequencesExt

CONSTANTS Blocks,       \* the texts the host parses, each once
          Persistent,   \* those with SCRIPTTEXT_ISPERSISTENT
          BadSyntax,    \* those that do not compile
          Names,        \* the named items of the host
          KeptItems,    \* those with SCRIPTITEM_ISPERSISTENT
          Sources,      \* those with SCRIPTITEM_ISSOURCE
          MaxStack      \* how deep script code still calls the host

ASSUME EngineAssumption ==
  /\ Persistent \subseteq Blocks /\ BadSyntax \subseteq Blocks
  /\ KeptItems \subseteq Names /\ Sources \subseteq Names
  /\ MaxStack \in Nat

States == {"uninitialized", "initialized", "started", "connected", "disconnected", "closed"}
Running == {"started", "connected", "disconnected"}
Errors == {"reported", "other"}

VARIABLES
  eng,       \* the engine; fresh is TRUE while a method gives it another list of blocks
  stack,     \* the methods that wait for script code, the innermost first
  exc,       \* the exception in flight, or "none"
  parsed,    \* the blocks given to ParseScriptText, in order: the order of every list of blocks
  runs,      \* history: how often a block was run since Reset last cleared its mark
  entered,   \* history: OnEnterScript calls the site has had no OnLeaveScript for
  asked,     \* history: the host's last call from outside, if it was SetScriptState
  meddled    \* history: script code has changed the engine since that call

vars == <<eng, stack, exc, parsed, runs, entered, asked, meddled>>

Frames == [op : {"script", "started", "connected"}]
            \cup [op : {"report"}, as : Errors]
            \cup [op : {"pending"}, at : Nat \ {0}, live : BOOLEAN, list : SUBSET Blocks]

TypeOK ==
  /\ eng \in [state : States, site : BOOLEAN, items : SUBSET Names, registered : SUBSET Names,
              linked : SUBSET Names, scriptlets : SUBSET Names, blocks : SUBSET Blocks,
              done : SUBSET Blocks, fresh : {FALSE}]
  /\ stack \in Seq(Frames)
  /\ exc \in Errors \cup {"none"}
  /\ parsed \in Seq(Blocks)
  /\ runs \in [Blocks -> Nat]
  /\ entered \in Nat
  /\ asked \in [to : States \cup {"none"}, from : States, failed : BOOLEAN]
  /\ meddled \in BOOLEAN

\* AXEngine's constructor has set the site and called InitNew.
Init ==
  /\ eng = [state |-> "initialized", site |-> TRUE, items |-> {}, registered |-> {},
            linked |-> {}, scriptlets |-> {}, blocks |-> {}, done |-> {},
            fresh |-> FALSE]
  /\ stack = <<>>
  /\ exc = "none"
  /\ parsed = <<>>
  /\ runs = [b \in Blocks |-> 0]
  /\ entered = 0
  /\ asked = [to |-> "none", from |-> "initialized", failed |-> FALSE]
  /\ meddled = FALSE

-----------------------------------------------------------------------------
(* The methods that run no script code.                                    *)

ChangeScriptState(e, s) == [e EXCEPT !.state = s]

RegisterNewNamedItems(e) == [e EXCEPT !.registered = e.items]

\* Mutant of Reset: the items it drops are not closed.
ResetNotClosing(e) ==
  [e EXCEPT !.items = e.items \cap KeptItems, !.registered = {}, !.scriptlets = {},
            !.blocks = e.blocks \cap Persistent, !.fresh = TRUE,
            !.done = e.done \ (e.blocks \cap Persistent),
            !.state = "initialized"]

\* The items are closed, which disconnects them; the persistent ones are
\* added anew.  Of the code blocks only the persistent ones stay, to run again.
Reset(e) ==
  [e EXCEPT !.items = e.items \cap KeptItems, !.registered = {}, !.linked = {},
            !.scriptlets = {},
            !.blocks = e.blocks \cap Persistent, !.fresh = TRUE,
            !.done = e.done \ (e.blocks \cap Persistent),
            !.state = "initialized"]

Disconnect(e) == ChangeScriptState([e EXCEPT !.linked = {}], "disconnected")

Connect(e) ==
  ChangeScriptState([RegisterNewNamedItems(e) EXCEPT !.linked = e.items \cap Sources], "connected")

\* Every block of the list is marked as executed, then all is reset.
Stop(e) ==
  LET marked == [e EXCEPT !.done = e.done \cup e.blocks]
  IN  Reset(IF e.state = "connected" THEN Disconnect(marked) ELSE marked)

Close(e) ==
  [e EXCEPT !.state = "closed", !.site = FALSE, !.items = {}, !.registered = {},
            !.linked = {}, !.scriptlets = {}, !.blocks = {}, !.fresh = TRUE]

-----------------------------------------------------------------------------
(* How a method ends: with the engine e, the frames new on top of base and *)
(* the exception x.                                                        *)

\* A loop over the code blocks holds on to its list when the engine gets another.
Detached(base) ==
  [k \in 1 .. Len(base) |->
     IF base[k].op = "pending" /\ base[k].live
     THEN [base[k] EXCEPT !.live = FALSE, !.list = eng.blocks] ELSE base[k]]

Leaves(e, new, base, x) ==
  /\ eng' = [e EXCEPT !.fresh = FALSE]
  /\ stack' = new \o (IF e.fresh THEN Detached(base) ELSE base)
  /\ exc' = x
  /\ runs' = [b \in Blocks |-> IF b \in eng.done \ e.done THEN 0 ELSE runs[b]]

Frame(op) == [op |-> op]

\* Run registers the items and starts to execute the pending blocks; SetScriptState
\* goes on in the frame s.
Run(e, s, base) ==
  IF e.state \in {"initialized", "started"}
  THEN Leaves(RegisterNewNamedItems(e),
              <<[op |-> "pending", at |-> 1, live |-> TRUE, list |-> {}], Frame(s)>>, base, "none")
  ELSE Leaves(e, <<>>, base, "other")

\* The engine once SetScriptState(s) has done what needs no script code.
Prepared(s, e) ==
  CASE s = "initialized"   -> IF e.state \in {"connected", "started"} THEN Stop(e) ELSE e
    [] s = "started"       -> IF e.state = "connected" THEN Reset(Disconnect(e))
                              ELSE IF e.state = "disconnected" THEN Reset(e) ELSE e
    [] s = "connected"     -> IF e.state \in {"uninitialized", "initialized"}
                              THEN ChangeScriptState(e, "started")
                              ELSE IF e.state = "started" THEN Connect(e) ELSE e
    [] s = "disconnected"  -> IF e.state = "connected" THEN Disconnect(e) ELSE e
    [] s = "closed"        -> Close(e)
    [] s = "uninitialized" -> ChangeScriptState(
                                IF e.state = "started" THEN Stop(e)
                                ELSE IF e.state = "connected" THEN Reset(Disconnect(e))
                                ELSE IF e.state = "disconnected" THEN Reset(e) ELSE e, s)

RunsScripts(s, e) ==
  \/ s = "started"
  \/ s = "connected" /\ e.state \in {"uninitialized", "initialized"}

SetScriptState(s, e, base) ==
  IF s = e.state THEN Leaves(e, <<>>, base, "none")
  ELSE IF e.state = "closed" THEN Leaves(e, <<>>, base, "other")
  ELSE IF RunsScripts(s, e) THEN Run(Prepared(s, e), s, base)
  ELSE Leaves(Prepared(s, e), <<>>, base, "none")

\* Mutant of HandleException: reports the error and leaves the state as it is.
HandleExceptionOnly(kind, e, base) ==
  IF kind # "script" THEN Leaves(e, <<>>, base, kind)
  ELSE \E r \in Errors : Leaves(e, <<[op |-> "report", as |-> r]>>, base, "none")

\* An error of script code.  One that another engine call has reported already,
\* and an exception of a COM server, pass; any other is shown to the site, which
\* may or may not take it, and the engine is reset to connected.
HandleException(kind, e, base) ==
  IF kind # "script" THEN Leaves(e, <<>>, base, kind)
  ELSE \E r \in Errors : SetScriptState("connected", e, <<[op |-> "report", as |-> r]>> \o base)

\* Mutant of BeginSection: the block is not marked.
BeginUnmarked(bs, e, base) ==
  /\ eng' = e
  /\ stack' = <<Frame("script")>> \o base
  /\ exc' = "none"
  /\ runs' = [b \in Blocks |-> IF b \in bs THEN runs[b] + 1 ELSE runs[b]]
  /\ entered' = entered + 1

\* Code begins to run in a section; the block, if it is one, is marked first.
BeginSection(bs, e, base) ==
  /\ eng' = [e EXCEPT !.done = @ \cup bs]
  /\ stack' = <<Frame("script")>> \o base
  /\ exc' = "none"
  /\ runs' = [b \in Blocks |-> IF b \in bs THEN runs[b] + 1 ELSE runs[b]]
  /\ entered' = entered + 1

-----------------------------------------------------------------------------
(* The host calls the engine: from outside, or script code makes it call.  *)

Top(op) == stack # <<>> /\ exc = "none" /\ stack[1].op = op

MayCall ==
  /\ exc = "none"
  /\ stack # <<>> => stack[1].op = "script" /\ Len(stack) <= MaxStack

\* What the host asked for from outside, and whether script code has changed it since.
Asks(to, changes) ==
  /\ asked' = IF stack = <<>> THEN [to |-> to, from |-> eng.state, failed |-> FALSE] ELSE asked
  /\ meddled' = (stack # <<>> /\ (meddled \/ changes))

CallSetScriptState(s) ==
  /\ MayCall /\ Asks(s, TRUE)
  /\ SetScriptState(s, eng, stack)
  /\ UNCHANGED <<parsed, entered>>

CallClose ==
  /\ MayCall /\ Asks("none", TRUE)
  /\ Leaves(Close(eng), <<>>, stack, "none")
  /\ UNCHANGED <<parsed, entered>>

\* The host gives the engine its site once more.
SetScriptSite ==
  /\ MayCall /\ Asks("none", TRUE)
  /\ eng.state # "closed"
  /\ Leaves(Reset(eng), <<>>, stack, "none")
  /\ UNCHANGED <<parsed, entered>>

AddNamedItem(i) ==
  /\ MayCall /\ Asks("none", TRUE)
  /\ i \notin eng.items
  /\ IF eng.site THEN Leaves([eng EXCEPT !.items = @ \cup {i}], <<>>, stack, "none")
                 ELSE Leaves(eng, <<>>, stack, "other")
  /\ UNCHANGED <<parsed, entered>>

AddScriptlet(i) ==
  /\ MayCall /\ Asks("none", FALSE)
  /\ IF i \in eng.items THEN Leaves([eng EXCEPT !.scriptlets = @ \cup {i}], <<>>, stack, "none")
                        ELSE Leaves(eng, <<>>, stack, "other")
  /\ UNCHANGED <<parsed, entered>>

\* A block is executed at once when its result is wanted or the engine runs;
\* otherwise it waits for Run.
ParseScriptText(b, bWantResult) ==
  /\ MayCall /\ Asks("none", FALSE)
  /\ b \notin ToSet(parsed) /\ parsed' = Append(parsed, b)
  /\ LET e == RegisterNewNamedItems(eng) IN
       \/ /\ ~eng.site
          /\ Leaves(eng, <<>>, stack, "other") /\ UNCHANGED entered
       \/ /\ eng.site /\ ~bWantResult /\ eng.state \notin Running
          /\ Leaves([eng EXCEPT !.blocks = @ \cup {b}], <<>>, stack, "none")
          /\ UNCHANGED entered
       \/ /\ eng.site /\ (bWantResult \/ eng.state \in Running)
          /\ IF b \in BadSyntax THEN HandleException("script", e, stack) /\ UNCHANGED entered
             ELSE BeginSection({b}, e, stack)

\* An event of a connected item.  A scriptlet added for it is called as if it were
\* the function made from it, which fails; other handlers are functions of the blocks.
ProcessScriptItemEvent(i) ==
  /\ MayCall /\ Asks("none", FALSE)
  /\ i \in eng.linked
  /\ LET e == RegisterNewNamedItems(eng) IN
       IF i \in eng.scriptlets THEN HandleException("script", e, stack) /\ UNCHANGED entered
       ELSE BeginSection({}, e, stack)
  /\ UNCHANGED parsed

-----------------------------------------------------------------------------
(* The engine goes on.                                                     *)

\* The next block of the list that has not been executed; lists are in the order of parsed.
DoExecutePendingScripts ==
  /\ Top("pending")
  /\ LET list == IF stack[1].live THEN eng.blocks ELSE stack[1].list
         left == {k \in stack[1].at .. Len(parsed) : parsed[k] \in list \ eng.done}
     IN  IF left = {} THEN Leaves(eng, <<>>, Tail(stack), "none") /\ UNCHANGED entered
         ELSE \E k \in left :
           /\ \A j \in left : k <= j
           /\ IF ~eng.site THEN Leaves(eng, <<>>, Tail(stack), "other") /\ UNCHANGED entered
              ELSE IF parsed[k] \in BadSyntax
              THEN HandleException("script", eng, stack) /\ UNCHANGED entered
              ELSE BeginSection({parsed[k]}, eng, [stack EXCEPT ![1].at = k + 1])
  /\ UNCHANGED <<parsed, asked, meddled>>

\* The end of SetScriptState(STARTED) and of SetScriptState(CONNECTED).
StateIsStarted ==
  /\ Top("started")
  /\ Leaves(ChangeScriptState(eng, "started"), <<>>, Tail(stack), "none")
  /\ UNCHANGED <<parsed, entered, asked, meddled>>

StateIsConnected ==
  /\ Top("connected")
  /\ Leaves(IF eng.state = "started" THEN Connect(eng) ELSE eng, <<>>, Tail(stack), "none")
  /\ UNCHANGED <<parsed, entered, asked, meddled>>

\* HandleException raises what it has reported.
RaiseReported ==
  /\ Top("report")
  /\ Leaves(eng, <<>>, Tail(stack), stack[1].as)
  /\ UNCHANGED <<parsed, entered, asked, meddled>>

\* Mutant of EndSection: the site is told of the end only when no exception is raised.
EndUntold(kind) ==
  /\ stack # <<>> /\ stack[1].op = "script"
  /\ IF ~eng.site THEN Leaves(eng, <<>>, Tail(stack), "other") /\ UNCHANGED entered
     ELSE IF kind = "none" THEN Leaves(eng, <<>>, Tail(stack), "none") /\ entered' = entered - 1
     ELSE HandleException(kind, eng, Tail(stack)) /\ UNCHANGED entered
  /\ UNCHANGED <<parsed, asked, meddled>>

\* Mutant of EndSection: a site that is gone is not an error.
EndQuiet(kind) ==
  /\ stack # <<>> /\ stack[1].op = "script"
  /\ IF ~eng.site THEN Leaves(eng, <<>>, Tail(stack), "none") /\ UNCHANGED entered
     ELSE /\ entered' = entered - 1
          /\ IF kind = "none" THEN Leaves(eng, <<>>, Tail(stack), "none")
             ELSE HandleException(kind, eng, Tail(stack))
  /\ UNCHANGED <<parsed, asked, meddled>>

\* Script code ends, of itself or of an exception; EndScriptedSection raises one of
\* its own when the site is gone.
EndSection(kind) ==
  /\ stack # <<>> /\ stack[1].op = "script"
  /\ IF ~eng.site THEN Leaves(eng, <<>>, Tail(stack), "other") /\ UNCHANGED entered
     ELSE /\ entered' = entered - 1
          /\ IF kind = "none" THEN Leaves(eng, <<>>, Tail(stack), "none")
             ELSE HandleException(kind, eng, Tail(stack))
  /\ UNCHANGED <<parsed, asked, meddled>>

ScriptReturns == exc = "none" /\ EndSection("none")

\* Its own error, or an exception of a COM server it raises on purpose.
ScriptRaises == exc = "none" /\ \E kind \in {"script", "other"} : EndSection(kind)

\* Script code gets an exception from the host's object it called, and lets it pass
\* or goes on.
ScriptPasses == exc # "none" /\ EndSection(IF exc = "reported" THEN exc ELSE "script")

ScriptCatches ==
  /\ exc # "none" /\ stack # <<>> /\ stack[1].op = "script"
  /\ exc' = "none"
  /\ UNCHANGED <<eng, stack, parsed, runs, entered, asked, meddled>>

\* The other methods do not catch exceptions.
Unwind ==
  /\ exc # "none" /\ stack # <<>> /\ stack[1].op # "script"
  /\ Leaves(eng, <<>>, Tail(stack), exc)
  /\ UNCHANGED <<parsed, entered, asked, meddled>>

\* The host gets the exception.
HostGets ==
  /\ exc # "none" /\ stack = <<>>
  /\ exc' = "none" /\ asked' = [asked EXCEPT !.failed = TRUE]
  /\ UNCHANGED <<eng, stack, parsed, runs, entered, meddled>>

HostCalls ==
  \/ \E s \in States : CallSetScriptState(s)
  \/ CallClose
  \/ SetScriptSite
  \/ \E i \in Names : AddNamedItem(i) \/ AddScriptlet(i) \/ ProcessScriptItemEvent(i)
  \/ \E b \in Blocks, w \in BOOLEAN : ParseScriptText(b, w)

EngineGoesOn ==
  \/ DoExecutePendingScripts \/ StateIsStarted \/ StateIsConnected \/ RaiseReported
  \/ ScriptReturns \/ ScriptRaises \/ ScriptPasses \/ ScriptCatches \/ Unwind \/ HostGets

Next == HostCalls \/ EngineGoesOn

Spec == Init /\ [][Next]_vars

-----------------------------------------------------------------------------
(* Properties.                                                             *)

\* A closed engine stays closed, whatever script code was running when it was closed:
\* no method that was under way, and no error it ends with, brings it back.
ClosedIsFinal == [][eng.state = "closed" => eng'.state = "closed"]_vars

\* Events are delivered only while the engine runs: in every other state no item is
\* connected, at any point of any method.
QuietAtRest == eng.linked # {} => eng.state \in {"started", "connected"}

\* A block runs at most once, and a persistent one at most once after each reset, also
\* when a block that runs makes the engine run the pending blocks again.
RanOnce == \A b \in Blocks : runs[b] <= 1

\* The site is told of the end of every section it was told the begin of, whatever
\* the section ends with, until the engine is closed.
Bracketed == eng.site => entered = Cardinality({k \in DOMAIN stack : stack[k].op = "script"})

\* A SetScriptState from outside that succeeds has brought the engine to that state or,
\* where the request is ignored, left it where it was.
Granted ==
  (stack = <<>> /\ exc = "none" /\ asked.to # "none" /\ ~asked.failed)
    => eng.state \in {asked.to, asked.from}

\* Script code finds all the items registered.
ItemsVisible == Top("script") => eng.items \subseteq eng.registered

\* When an error has been handled further events go on: the engine is connected, or
\* the host had disconnected it.
FurtherEvents == Top("report") => eng.state \in {"connected", "disconnected"}

\* What the host can rely on as long as script code does not change the engine: it is in
\* the state asked for, code sees its items, and an error does not stop the events.
UnlessMeddled == ~meddled => Granted /\ ItemsVisible /\ FurtherEvents
=============================================================================
