------------------------- MODULE ScriptEngineProofs -------------------------
(***************************************************************************)
(* Proofs about the scripting engine, for any blocks, named items and      *)
(* depth of calls.                                                         *)
(***************************************************************************)
EXTENDS ScriptEngine, FiniteSetTheorems, TLAPS

(***************************************************************************)
(* The methods, as functions on the engine.                                *)
(***************************************************************************)
Engines ==
  [state : States, site : BOOLEAN, items : SUBSET Names, registered : SUBSET Names,
   linked : SUBSET Names, scriptlets : SUBSET Names, blocks : SUBSET Blocks,
   done : SUBSET Blocks, fresh : BOOLEAN]

\* Events are connected only while the engine runs, and the site is there until it is closed.
Sound(e) ==
  /\ e.linked # {} => e.state \in {"started", "connected"}
  /\ e.site <=> e.state # "closed"

\* Every method of the engine returns an engine.
LEMMA MethodTypes ==
  ASSUME NEW e \in Engines
  PROVE  /\ Reset(e) \in Engines /\ Disconnect(e) \in Engines /\ Connect(e) \in Engines
         /\ Stop(e) \in Engines /\ Close(e) \in Engines /\ RegisterNewNamedItems(e) \in Engines
         /\ \A s \in States : ChangeScriptState(e, s) \in Engines
         /\ \A s \in States : Prepared(s, e) \in Engines
<1> USE EngineAssumption
<1>1. ASSUME NEW x \in Engines
      PROVE  Reset(x) \in Engines /\ Disconnect(x) \in Engines /\ Connect(x) \in Engines
  BY DEF Engines, Reset, Disconnect, Connect, ChangeScriptState, RegisterNewNamedItems, States
<1>2. Stop(e) \in Engines
  <2> DEFINE marked == [e EXCEPT !.done = e.done \cup e.blocks]
  <2>1. marked \in Engines
    BY DEF Engines
  <2> HIDE DEF marked
  <2>2. Disconnect(marked) \in Engines
    BY <2>1, <1>1
  <2>3. Stop(e) = Reset(IF e.state = "connected" THEN Disconnect(marked) ELSE marked)
    BY DEF Stop, marked
  <2> QED BY <2>1, <2>2, <2>3, <1>1
<1>3. Close(e) \in Engines /\ RegisterNewNamedItems(e) \in Engines
  BY DEF Engines, Close, RegisterNewNamedItems, States
<1>4. ASSUME NEW x \in Engines, NEW s \in States PROVE ChangeScriptState(x, s) \in Engines
  BY DEF Engines, ChangeScriptState
<1>5. ASSUME NEW s \in States PROVE Prepared(s, e) \in Engines
  BY <1>1, <1>2, <1>3, <1>4 DEF Prepared, States
<1> QED BY <1>1, <1>2, <1>3, <1>4, <1>5

\* Every method keeps a sound engine sound, and SetScriptState closes it only if asked.
LEMMA MethodsSound ==
  ASSUME NEW e \in Engines, Sound(e), e.state # "closed"
  PROVE  /\ Sound(Reset(e)) /\ Sound(Close(e)) /\ Sound(RegisterNewNamedItems(e))
         /\ Reset(e).state = "initialized" /\ RegisterNewNamedItems(e).state = e.state
         /\ Sound(ChangeScriptState(e, "started"))
         /\ e.state = "started" => Sound(Connect(e)) /\ Connect(e).state = "connected"
         /\ \A s \in States : Sound(Prepared(s, e))
         /\ \A s \in States \ {"closed"} : Prepared(s, e).state # "closed"
<1>1. ASSUME NEW x \in Engines, Sound(x), x.state # "closed"
      PROVE  /\ Sound(Reset(x)) /\ Reset(x) \in Engines /\ Reset(x).state = "initialized"
             /\ Reset(x).linked = {} /\ Reset(x).site
             /\ Sound(Disconnect(x)) /\ Disconnect(x) \in Engines
             /\ Disconnect(x).state = "disconnected"
  BY <1>1, MethodTypes DEF Sound, Engines, Reset, Disconnect, ChangeScriptState
<1>2. Sound(Stop(e)) /\ Stop(e).state = "initialized" /\ Stop(e).linked = {} /\ Stop(e).site
  <2> DEFINE marked == [e EXCEPT !.done = e.done \cup e.blocks]
  <2>1. marked \in Engines /\ Sound(marked) /\ marked.state # "closed"
    BY DEF Engines, Sound
  <2> HIDE DEF marked
  <2>2. Disconnect(marked) \in Engines /\ Sound(Disconnect(marked))
        /\ Disconnect(marked).state = "disconnected"
    BY <2>1, <1>1
  <2>3. Stop(e) = Reset(IF e.state = "connected" THEN Disconnect(marked) ELSE marked)
    BY DEF Stop, marked
  <2>4. CASE e.state = "connected"
    BY <2>2, <2>3, <2>4, <1>1
  <2>5. CASE e.state # "connected"
    BY <2>1, <2>3, <2>5, <1>1
  <2> QED BY <2>4, <2>5
<1>3. Sound(Close(e)) /\ Sound(RegisterNewNamedItems(e)) /\ RegisterNewNamedItems(e).state = e.state
  BY DEF Sound, Engines, Close, RegisterNewNamedItems
<1>4. Sound(ChangeScriptState(e, "started")) /\ ChangeScriptState(e, "started").state = "started"
  BY DEF Sound, Engines, ChangeScriptState
<1>5. Sound(Connect(e)) /\ Connect(e).state = "connected"
  BY DEF Sound, Engines, Connect, RegisterNewNamedItems, ChangeScriptState
<1>6. Reset(Disconnect(e)) \in Engines /\ Sound(Reset(Disconnect(e)))
      /\ Reset(Disconnect(e)).state = "initialized" /\ Reset(Disconnect(e)).linked = {}
      /\ Reset(Disconnect(e)).site
  BY <1>1
<1>7. ASSUME NEW x \in Engines, x.linked = {}, x.site
      PROVE  /\ Sound(ChangeScriptState(x, "uninitialized"))
             /\ ChangeScriptState(x, "uninitialized").state = "uninitialized"
  BY <1>7 DEF Sound, Engines, ChangeScriptState
<1>8. Stop(e) \in Engines /\ Reset(e) \in Engines
  BY MethodTypes
<1>9. ASSUME NEW s \in States
      PROVE  Sound(Prepared(s, e)) /\ (s # "closed" => Prepared(s, e).state # "closed")
  <2>1. CASE s = "initialized"
    BY <2>1, <1>2 DEF Prepared
  <2>2. CASE s = "started"
    BY <2>2, <1>1, <1>6 DEF Prepared
  <2>3. CASE s = "connected"
    BY <2>3, <1>4, <1>5 DEF Prepared
  <2>4. CASE s = "disconnected"
    BY <2>4, <1>1 DEF Prepared
  <2>5. CASE s = "closed"
    BY <2>5, <1>3 DEF Prepared
  <2>6. CASE s = "uninitialized"
    <3>1. CASE e.state \in {"started", "connected", "disconnected"}
      BY <2>6, <3>1, <1>1, <1>2, <1>6, <1>7, <1>8 DEF Prepared
    <3>2. CASE e.state \notin {"started", "connected", "disconnected"}
      <4>1. e.linked = {} /\ e.site
        BY <3>2 DEF Sound
      <4> QED BY <2>6, <3>2, <4>1, <1>7 DEF Prepared
    <3> QED BY <3>1, <3>2
  <2> QED BY <2>1, <2>2, <2>3, <2>4, <2>5, <2>6 DEF States
<1> QED BY <1>1, <1>3, <1>4, <1>5, <1>9

(***************************************************************************)
(* How a step of the engine ends.                                          *)
(***************************************************************************)

\* The marks a method has cleared are those whose runs are counted anew.
Kept == runs' = [b \in Blocks |-> IF b \in eng.done \ eng'.done THEN 0 ELSE runs[b]]

Typed ==
  /\ eng \in Engines /\ eng.fresh = FALSE
  /\ stack \in Seq(Frames)
  /\ exc \in Errors \cup {"none"}
  /\ runs \in [Blocks -> Nat]

LEMMA FrameTypes ==
  /\ \A s \in {"script", "started", "connected"} : Frame(s) \in Frames
  /\ \A r \in Errors : [op |-> "report", as |-> r] \in Frames
  /\ \A k \in Nat \ {0}, l \in BOOLEAN, ls \in SUBSET Blocks :
       [op |-> "pending", at |-> k, live |-> l, list |-> ls] \in Frames
BY DEF Frame, Frames

LEMMA DetachedTypes ==
  ASSUME NEW base \in Seq(Frames), Typed
  PROVE  /\ Detached(base) \in Seq(Frames) /\ Len(Detached(base)) = Len(base)
         /\ base # <<>> => Detached(base) # <<>> /\ Detached(base)[1].op = base[1].op
         /\ base = <<>> => Detached(base) = <<>>
         /\ \A k \in 1 .. Len(base) : Detached(base)[k].op = base[k].op
<1>1. ASSUME NEW k \in 1 .. Len(base), base[k].op = "pending", base[k].live
      PROVE  /\ [base[k] EXCEPT !.live = FALSE, !.list = eng.blocks] \in Frames
             /\ [base[k] EXCEPT !.live = FALSE, !.list = eng.blocks].op = base[k].op
  <2>1. base[k] \in [op : {"pending"}, at : Nat \ {0}, live : BOOLEAN, list : SUBSET Blocks]
    <3>1. base[k] \in Frames
      OBVIOUS
    <3> QED BY <1>1, <3>1 DEF Frames
  <2>2. eng.blocks \in SUBSET Blocks
    BY DEF Typed, Engines
  <2>3. [base[k] EXCEPT !.live = FALSE, !.list = eng.blocks]
          \in [op : {"pending"}, at : Nat \ {0}, live : BOOLEAN, list : SUBSET Blocks]
    BY <2>1, <2>2
  <2>4. [base[k] EXCEPT !.live = FALSE, !.list = eng.blocks].op = base[k].op
    BY <2>1
  <2> QED BY <2>3, <2>4 DEF Frames
<1>2. ASSUME NEW k \in 1 .. Len(base)
      PROVE  Detached(base)[k] \in Frames /\ Detached(base)[k].op = base[k].op
  <2>1. base[k] \in Frames
    OBVIOUS
  <2>2. Detached(base)[k] = IF base[k].op = "pending" /\ base[k].live
                            THEN [base[k] EXCEPT !.live = FALSE, !.list = eng.blocks] ELSE base[k]
    BY DEF Detached
  <2>3. CASE base[k].op = "pending" /\ base[k].live
    BY <2>2, <2>3, <1>1
  <2>4. CASE ~(base[k].op = "pending" /\ base[k].live)
    BY <2>1, <2>2, <2>4
  <2> QED BY <2>3, <2>4
<1>3. Len(base) \in Nat /\ DOMAIN Detached(base) = 1 .. Len(base)
  BY DEF Detached
<1>4. Detached(base) \in Seq(Frames)
  <2>1. Detached(base) \in [1 .. Len(base) -> Frames]
    BY <1>2, <1>3 DEF Detached
  <2> QED BY <2>1, <1>3
<1>5. Len(Detached(base)) = Len(base)
  BY <1>3, <1>4
<1> QED BY <1>2, <1>4, <1>5

LEMMA LeavesFacts ==
  ASSUME NEW e \in Engines, NEW new \in Seq(Frames), NEW base \in Seq(Frames),
         NEW x \in Errors \cup {"none"}, Typed, Leaves(e, new, base, x)
  PROVE  /\ Typed' /\ Kept
         /\ eng'.state = e.state /\ eng'.site = e.site /\ eng'.linked = e.linked
         /\ eng'.done = e.done /\ exc' = x
         /\ new = <<>> /\ base = <<>> => stack' = <<>>
         /\ new = <<>> /\ base # <<>> => stack' # <<>> /\ stack'[1].op = base[1].op
<1>1. eng' \in Engines /\ eng'.fresh = FALSE /\ eng'.state = e.state /\ eng'.site = e.site
      /\ eng'.linked = e.linked /\ eng'.done = e.done
  BY DEF Leaves, Engines
<1>2. PICK b2 \in Seq(Frames) :
         /\ stack' = new \o b2
         /\ base # <<>> => b2 # <<>> /\ b2[1].op = base[1].op
         /\ base = <<>> => b2 = <<>>
  <2>1. CASE e.fresh
    BY <2>1, DetachedTypes DEF Leaves
  <2>2. CASE ~e.fresh
    BY <2>2 DEF Leaves
  <2> QED BY <2>1, <2>2
<1>3. stack' \in Seq(Frames)
  BY <1>2
<1>4. runs' \in [Blocks -> Nat] /\ Kept
  BY <1>1 DEF Leaves, Kept, Typed
<1>5. exc' = x
  BY DEF Leaves
<1>6. new = <<>> => stack' = b2
  BY <1>2
<1> QED BY <1>1, <1>2, <1>3, <1>4, <1>5, <1>6 DEF Typed

\* The engine e was sound; so is the engine of the next state, and it is closed only
\* with an exception or with nothing but base left to do.
Ends(e, base) ==
  /\ Typed' /\ Kept /\ Sound(eng')
  /\ e.state = "closed" => eng'.state = "closed"
  /\ ~eng'.site => \/ exc' # "none"
                   \/ base = <<>> /\ stack' = <<>>
                   \/ base # <<>> /\ stack' # <<>> /\ stack'[1].op = base[1].op

\* SetScriptState ends well, and closes the engine only if asked to.
LEMMA SetStateEnds ==
  ASSUME NEW s \in States, NEW e \in Engines, Sound(e), NEW base \in Seq(Frames), Typed,
         SetScriptState(s, e, base)
  PROVE  Ends(e, base) /\ (e.site /\ s # "closed" => eng'.site)
<1>1. CASE s = e.state \/ e.state = "closed"
  <2>1. PICK x \in Errors \cup {"none"} : Leaves(e, <<>>, base, x)
    BY <1>1 DEF SetScriptState, Errors
  <2>2. <<>> \in Seq(Frames)
    OBVIOUS
  <2> QED BY <2>1, <2>2, LeavesFacts DEF Ends, Sound
<1>2. CASE s # e.state /\ e.state # "closed"
  <2> DEFINE p == Prepared(s, e)
  <2>1. p \in Engines /\ Sound(p) /\ (s # "closed" => p.state # "closed")
    BY <1>2, MethodTypes, MethodsSound
  <2> HIDE DEF p
  <2>2. CASE RunsScripts(s, e)
    <3>1. s \in {"started", "connected"} /\ Run(p, s, base)
      BY <1>2, <2>2 DEF SetScriptState, RunsScripts, p
    <3>2. CASE p.state \in {"initialized", "started"}
      <4> DEFINE new == <<[op |-> "pending", at |-> 1, live |-> TRUE, list |-> {}], Frame(s)>>
      <4>1. new \in Seq(Frames)
        <5>1. [op |-> "pending", at |-> 1, live |-> TRUE, list |-> {}] \in Frames
          <6>1. 1 \in Nat \ {0} /\ TRUE \in BOOLEAN /\ {} \in SUBSET Blocks
            OBVIOUS
          <6> QED BY <6>1, FrameTypes
        <5>2. Frame(s) \in Frames
          BY <3>1, FrameTypes
        <5> QED BY <5>1, <5>2
      <4>2. Leaves(RegisterNewNamedItems(p), new, base, "none")
        BY <3>1, <3>2 DEF Run
      <4>3. RegisterNewNamedItems(p) \in Engines /\ Sound(RegisterNewNamedItems(p))
            /\ RegisterNewNamedItems(p).state = p.state
        BY <2>1, <3>2, MethodTypes, MethodsSound
      <4> HIDE DEF new
      <4> QED BY <1>2, <3>1, <3>2, <4>1, <4>2, <4>3, LeavesFacts DEF Ends, Sound
    <3>3. CASE p.state \notin {"initialized", "started"}
      <4>1. Leaves(p, <<>>, base, "other")
        BY <3>1, <3>3 DEF Run
      <4>2. <<>> \in Seq(Frames) /\ "other" \in Errors
        BY DEF Errors
      <4> QED BY <1>2, <2>1, <3>1, <4>1, <4>2, LeavesFacts DEF Ends, Sound
    <3> QED BY <3>2, <3>3
  <2>3. CASE ~RunsScripts(s, e)
    <3>1. Leaves(p, <<>>, base, "none")
      BY <1>2, <2>3 DEF SetScriptState, p
    <3>2. <<>> \in Seq(Frames)
      OBVIOUS
    <3> QED BY <1>2, <2>1, <3>1, <3>2, LeavesFacts DEF Ends, Sound
  <2> QED BY <2>2, <2>3
<1> QED BY <1>1, <1>2

\* The handling of an error leaves the engine open.
LEMMA HandlerEnds ==
  ASSUME NEW kind \in Errors \cup {"script"}, NEW e \in Engines, Sound(e), e.site,
         NEW base \in Seq(Frames), Typed, HandleException(kind, e, base)
  PROVE  Ends(e, base) /\ eng'.site
<1>1. CASE kind # "script"
  <2>1. Leaves(e, <<>>, base, kind) /\ kind \in Errors /\ <<>> \in Seq(Frames)
    BY <1>1 DEF HandleException
  <2> QED BY <2>1, LeavesFacts DEF Ends, Sound
<1>2. CASE kind = "script"
  <2>1. PICK r \in Errors :
           SetScriptState("connected", e, <<[op |-> "report", as |-> r]>> \o base)
    BY <1>2 DEF HandleException
  <2> DEFINE b2 == <<[op |-> "report", as |-> r]>> \o base
  <2>2. b2 \in Seq(Frames)
    <3>1. [op |-> "report", as |-> r] \in Frames
      BY FrameTypes
    <3> QED BY <3>1
  <2> HIDE DEF b2
  <2>3. Ends(e, b2) /\ eng'.site
    <3>1. SetScriptState("connected", e, b2)
      BY <2>1 DEF b2
    <3> QED BY <2>2, <3>1, SetStateEnds DEF States
  <2> QED BY <2>3 DEF Ends
<1> QED BY <1>1, <1>2
----------------------------------------------------------------
(***************************************************************************)
(* The inductive invariant: the types, a sound engine, and that after it   *)
(* was closed nothing is left to do but what ends in an exception.         *)
(***************************************************************************)
History ==
  /\ parsed \in Seq(Blocks)
  /\ entered \in Int
  /\ asked \in [to : States \cup {"none"}, from : States, failed : BOOLEAN]
  /\ meddled \in BOOLEAN

Cut == ~eng.site => \/ exc # "none"
                    \/ stack = <<>>
                    \/ stack # <<>> /\ stack[1].op = "script"

IInv == Typed /\ History /\ Sound(eng) /\ Cut

\* A step that ends a method, with the stack below it base.
LEMMA EndsIsEnough ==
  ASSUME Typed, Sound(eng), NEW e, e.state = eng.state, NEW base \in Seq(Frames),
         base = <<>> \/ base[1].op = "script", Ends(e, base)
  PROVE  /\ Typed' /\ Kept /\ Sound(eng') /\ Cut'
         /\ eng.state = "closed" => eng'.state = "closed"
BY DEF Ends, Cut

\* The counts when the blocks bs have run once more.
Counted(bs) == [b \in Blocks |-> IF b \in bs THEN runs[b] + 1 ELSE runs[b]]

LEMMA SectionFacts ==
  ASSUME NEW bs \in SUBSET Blocks, NEW e \in Engines, Sound(e), e.site, e.fresh = FALSE,
         NEW base \in Seq(Frames), Typed, BeginSection(bs, e, base)
  PROVE  /\ Typed' /\ Sound(eng') /\ eng'.site /\ eng'.state = e.state
         /\ eng'.done = e.done \cup bs
         /\ runs' = Counted(bs)
         /\ entered' = entered + 1
<1>1. eng' \in Engines /\ eng'.fresh = FALSE /\ eng'.state = e.state /\ eng'.site = e.site
      /\ eng'.linked = e.linked /\ eng'.done = e.done \cup bs
  BY DEF BeginSection, Engines
<1>2. stack' \in Seq(Frames)
  <2>1. Frame("script") \in Frames
    BY FrameTypes
  <2> QED BY <2>1 DEF BeginSection
<1>3. runs' \in [Blocks -> Nat] /\ exc' = "none"
  BY DEF BeginSection, Typed
<1>4. runs' = Counted(bs)
  BY DEF BeginSection, Counted
<1> QED BY <1>1, <1>2, <1>3, <1>4 DEF Typed, Sound, BeginSection

\* What each step keeps: the invariant's parts, and what the marks of the blocks say.
Marks ==
  \/ Kept
  \/ \E bs \in SUBSET Blocks :
       /\ runs' = Counted(bs)
       /\ eng'.done = eng.done \cup bs
       /\ \A b \in bs : b \notin eng.done \/ b \notin ToSet(parsed)
       /\ \A b \in bs : b \in ToSet(parsed')

Good == Typed' /\ Sound(eng') /\ Cut' /\ Marks /\ (eng.state = "closed" => eng'.state = "closed")

LEMMA CallFacts ==
  ASSUME Typed, MayCall
  PROVE  /\ stack \in Seq(Frames) /\ (stack = <<>> \/ stack[1].op = "script")
         /\ exc = "none" /\ eng \in Engines /\ eng.fresh = FALSE
BY DEF Typed, MayCall

LEMMA RegisterFacts ==
  ASSUME NEW e \in Engines, Sound(e)
  PROVE  LET r == RegisterNewNamedItems(e) IN
         /\ r \in Engines /\ Sound(r) /\ r.state = e.state /\ r.site = e.site
         /\ r.done = e.done /\ r.fresh = e.fresh
BY DEF RegisterNewNamedItems, Engines, Sound

LEMMA CallsGood ==
  ASSUME IInv, HostCalls PROVE Good
<1> USE DEF IInv
<1> DEFINE r == RegisterNewNamedItems(eng)
<1>0. /\ r \in Engines /\ Sound(r) /\ r.state = eng.state /\ r.site = eng.site
      /\ r.done = eng.done /\ r.fresh = eng.fresh
  BY RegisterFacts DEF Typed
<1> HIDE DEF r
<1>00. <<>> \in Seq(Frames) /\ "other" \in Errors
  BY DEF Errors
<1>1. ASSUME NEW s \in States, CallSetScriptState(s) PROVE Good
  <2>1. Ends(eng, stack)
    BY <1>1, CallFacts, SetStateEnds DEF CallSetScriptState
  <2> QED BY <1>1, <2>1, CallFacts, EndsIsEnough DEF CallSetScriptState, Good, Marks
<1>2. CASE CallClose
  <2>1. Close(eng) \in Engines /\ Sound(Close(eng)) /\ Close(eng).state = "closed"
    BY CallFacts, <1>2, MethodTypes DEF CallClose, Close, Sound, Engines
  <2>2. Leaves(Close(eng), <<>>, stack, "none")
    BY <1>2 DEF CallClose
  <2>3. Ends(eng, stack)
    BY <1>2, <2>1, <2>2, <1>00, CallFacts, LeavesFacts DEF Ends, Sound, CallClose
  <2> QED BY <1>2, <2>3, CallFacts, EndsIsEnough DEF CallClose, Good, Marks
<1>3. CASE SetScriptSite
  <2>1. Reset(eng) \in Engines /\ Sound(Reset(eng)) /\ Reset(eng).state = "initialized"
    BY CallFacts, <1>3, MethodTypes, MethodsSound DEF SetScriptSite
  <2>2. Leaves(Reset(eng), <<>>, stack, "none") /\ eng.state # "closed"
    BY <1>3 DEF SetScriptSite
  <2>3. Ends(eng, stack)
    BY <1>3, <2>1, <2>2, <1>00, CallFacts, LeavesFacts DEF Ends, Sound, SetScriptSite
  <2> QED BY <1>3, <2>3, CallFacts, EndsIsEnough DEF SetScriptSite, Good, Marks
<1>4. ASSUME NEW i \in Names, AddNamedItem(i) \/ AddScriptlet(i) PROVE Good
  <2>1. MayCall
    BY <1>4 DEF AddNamedItem, AddScriptlet
  <2>2. PICK e \in Engines, x \in Errors \cup {"none"} :
          Leaves(e, <<>>, stack, x) /\ Sound(e) /\ e.state = eng.state
    <3>1. [eng EXCEPT !.items = @ \cup {i}] \in Engines /\ Sound([eng EXCEPT !.items = @ \cup {i}])
          /\ [eng EXCEPT !.items = @ \cup {i}].state = eng.state
      BY <2>1, CallFacts DEF Engines, Sound
    <3>2. [eng EXCEPT !.scriptlets = @ \cup {i}] \in Engines
          /\ Sound([eng EXCEPT !.scriptlets = @ \cup {i}])
          /\ [eng EXCEPT !.scriptlets = @ \cup {i}].state = eng.state
      BY <2>1, CallFacts DEF Engines, Sound
    <3>3. CASE AddNamedItem(i)
      BY <2>1, <3>1, <3>3, <1>00, CallFacts DEF AddNamedItem
    <3>4. CASE AddScriptlet(i)
      BY <2>1, <3>2, <3>4, <1>00, CallFacts DEF AddScriptlet
    <3> QED BY <1>4, <3>3, <3>4
  <2>3. Ends(eng, stack)
    BY <2>1, <2>2, <1>00, CallFacts, LeavesFacts DEF Ends, Sound
  <2> QED BY <2>1, <2>3, CallFacts, EndsIsEnough DEF Good, Marks
<1>5. ASSUME NEW i \in Names, ProcessScriptItemEvent(i) PROVE Good
  <2>1. MayCall /\ i \in eng.linked
    BY <1>5 DEF ProcessScriptItemEvent
  <2>2. eng.site
    BY <2>1 DEF Sound
  <2>3. CASE HandleException("script", r, stack)
    <3>1. Ends(r, stack)
      BY <1>0, <2>1, <2>2, <2>3, CallFacts, HandlerEnds
    <3> QED BY <1>0, <2>1, <3>1, CallFacts, EndsIsEnough DEF Good, Marks
  <2>4. CASE BeginSection({}, r, stack)
    <3>0. r \in Engines /\ Sound(r) /\ r.site /\ r.fresh = FALSE /\ stack \in Seq(Frames) /\ Typed
      BY <1>0, <2>1, <2>2, CallFacts
    <3>1. Typed' /\ Sound(eng') /\ eng'.site /\ eng'.state = r.state /\ eng'.done = r.done \cup {}
          /\ runs' = Counted({})
      BY <2>4, <3>0, SectionFacts
    <3>2. Marks
      BY <1>0, <3>1 DEF Marks
    <3> QED BY <1>0, <3>1, <3>2, <2>2 DEF Good, Cut, Sound
  <2> QED BY <1>5, <2>3, <2>4 DEF ProcessScriptItemEvent, r
<1>6. ASSUME NEW b \in Blocks, NEW w \in BOOLEAN, ParseScriptText(b, w) PROVE Good
  <2>1. MayCall /\ b \notin ToSet(parsed) /\ parsed' = Append(parsed, b)
    BY <1>6 DEF ParseScriptText
  <2>2. b \in ToSet(parsed')
    <3>1. Len(parsed') = Len(parsed) + 1 /\ parsed'[Len(parsed) + 1] = b
          /\ Len(parsed) + 1 \in DOMAIN parsed'
      BY <2>1 DEF History
    <3> QED BY <3>1 DEF ToSet
  <2>3. ASSUME NEW e \in Engines, NEW x \in Errors \cup {"none"},
               Leaves(e, <<>>, stack, x), Sound(e), e.state = eng.state
        PROVE  Good
    <3>1. Ends(eng, stack)
      BY <2>1, <2>3, <1>00, CallFacts, LeavesFacts DEF Ends, Sound
    <3> QED BY <2>1, <3>1, CallFacts, EndsIsEnough DEF Good, Marks
  <2>4. CASE Leaves(eng, <<>>, stack, "other")
    BY <2>1, <2>3, <2>4, <1>00, CallFacts
  <2>5. CASE Leaves([eng EXCEPT !.blocks = @ \cup {b}], <<>>, stack, "none")
    <3>1. [eng EXCEPT !.blocks = @ \cup {b}] \in Engines /\ Sound([eng EXCEPT !.blocks = @ \cup {b}])
          /\ [eng EXCEPT !.blocks = @ \cup {b}].state = eng.state
      BY <2>1, CallFacts DEF Engines, Sound
    <3> QED BY <2>3, <2>5, <3>1
  <2>6. CASE eng.site /\ HandleException("script", r, stack)
    <3>1. Ends(r, stack)
      BY <1>0, <2>1, <2>6, CallFacts, HandlerEnds
    <3> QED BY <1>0, <2>1, <3>1, CallFacts, EndsIsEnough DEF Good, Marks
  <2>7. CASE eng.site /\ BeginSection({b}, r, stack)
    <3>1. /\ Typed' /\ Sound(eng') /\ eng'.site /\ eng'.state = r.state
          /\ eng'.done = r.done \cup {b}
          /\ runs' = Counted({b})
      BY <1>0, <2>1, <2>7, CallFacts, SectionFacts
    <3>2. Marks
      BY <1>0, <2>1, <2>2, <3>1 DEF Marks
    <3> QED BY <1>0, <2>7, <3>1, <3>2 DEF Good, Cut, Sound
  <2> QED BY <1>6, <2>4, <2>5, <2>6, <2>7 DEF ParseScriptText, r
<1> QED BY <1>1, <1>2, <1>3, <1>4, <1>5, <1>6 DEF HostCalls
----------------------------------------------------------------
LEMMA TailFacts ==
  ASSUME Typed, stack # <<>>
  PROVE  Tail(stack) \in Seq(Frames) /\ stack[1] \in Frames
BY DEF Typed

\* A method that was waiting ends with the engine e.
LEMMA PopsGood ==
  ASSUME IInv, stack # <<>>, NEW e \in Engines, Sound(e), NEW x \in Errors \cup {"none"},
         Leaves(e, <<>>, Tail(stack), x), eng.state = "closed" => e.state = "closed",
         e.site \/ x # "none"
  PROVE  Good
<1>1. Tail(stack) \in Seq(Frames) /\ <<>> \in Seq(Frames)
  BY TailFacts DEF IInv
<1>2. /\ Typed' /\ Kept /\ eng'.state = e.state /\ eng'.site = e.site /\ eng'.linked = e.linked
      /\ exc' = x
  BY <1>1, LeavesFacts DEF IInv
<1> QED BY <1>2 DEF Good, Cut, Sound, Marks

LEMMA StepsGood ==
  ASSUME IInv, EngineGoesOn PROVE Good
<1> USE DEF IInv
<1>0. eng \in Engines /\ "other" \in Errors /\ eng.fresh = FALSE /\ <<>> \in Seq(Frames)
  BY DEF Typed, Errors
<1>1. CASE DoExecutePendingScripts
  <2>1. stack # <<>> /\ exc = "none" /\ stack[1].op = "pending" /\ eng.site
    BY <1>1 DEF DoExecutePendingScripts, Top, Cut
  <2>2. CASE Leaves(eng, <<>>, Tail(stack), "none")
    BY <2>1, <2>2, <1>0, PopsGood
  <2>3. CASE HandleException("script", eng, stack)
    <3>1. Ends(eng, stack) /\ eng'.site
      BY <2>1, <2>3, <1>0, HandlerEnds DEF Typed
    <3> QED BY <3>1 DEF Good, Marks, Ends, Cut
  <2>4. ASSUME NEW k \in stack[1].at .. Len(parsed), parsed[k] \notin eng.done,
               BeginSection({parsed[k]}, eng, [stack EXCEPT ![1].at = k + 1])
        PROVE  Good
    <3>1. stack[1] \in [op : {"pending"}, at : Nat \ {0}, live : BOOLEAN, list : SUBSET Blocks]
      BY <2>1, TailFacts DEF Frames
    <3>2. [stack[1] EXCEPT !.at = k + 1] \in Frames
      <4>1. k + 1 \in Nat \ {0}
        BY <3>1
      <4> QED BY <3>1, <4>1 DEF Frames
    <3>3. [stack EXCEPT ![1].at = k + 1] \in Seq(Frames)
      BY <2>1, <3>2 DEF Typed
    <3>4. parsed[k] \in Blocks /\ parsed[k] \in ToSet(parsed)
      <4>1. k \in 1 .. Len(parsed)
        BY <3>1 DEF History
      <4> QED BY <4>1 DEF History, ToSet
    <3>5. /\ Typed' /\ Sound(eng') /\ eng'.site /\ eng'.state = eng.state
          /\ eng'.done = eng.done \cup {parsed[k]}
          /\ runs' = Counted({parsed[k]})
      BY <2>1, <2>4, <3>3, <3>4, <1>0, SectionFacts
    <3>6. parsed' = parsed
      BY <1>1 DEF DoExecutePendingScripts
    <3>7. Marks
      BY <2>4, <3>4, <3>5, <3>6 DEF Marks
    <3> QED BY <3>5, <3>7 DEF Good, Cut
  <2> QED BY <1>1, <2>1, <2>2, <2>3, <2>4 DEF DoExecutePendingScripts
<1>2. CASE StateIsStarted
  <2>1. stack # <<>> /\ eng.site
    BY <1>2 DEF StateIsStarted, Top, Cut
  <2> DEFINE e == ChangeScriptState(eng, "started")
  <2>2. e \in Engines /\ Sound(e) /\ e.site
    BY <2>1, <1>0 DEF ChangeScriptState, Sound, Engines, States
  <2>3. Leaves(e, <<>>, Tail(stack), "none")
    BY <1>2 DEF StateIsStarted
  <2> HIDE DEF e
  <2> QED BY <2>1, <2>2, <2>3, PopsGood DEF Sound
<1>3. CASE StateIsConnected
  <2>1. stack # <<>> /\ eng.site
    BY <1>3 DEF StateIsConnected, Top, Cut
  <2>2. CASE eng.state = "started"
    <3>1. Connect(eng) \in Engines /\ Sound(Connect(eng)) /\ Connect(eng).site
      BY <2>1, <2>2, <1>0, MethodTypes, MethodsSound DEF Sound
    <3>2. Leaves(Connect(eng), <<>>, Tail(stack), "none")
      BY <1>3, <2>2 DEF StateIsConnected
    <3> QED BY <2>1, <2>2, <3>1, <3>2, PopsGood
  <2>3. CASE eng.state # "started"
    <3>1. Leaves(eng, <<>>, Tail(stack), "none")
      BY <1>3, <2>3 DEF StateIsConnected
    <3> QED BY <2>1, <3>1, <1>0, PopsGood
  <2> QED BY <2>2, <2>3
<1>4. CASE RaiseReported
  <2>1. stack # <<>> /\ stack[1].op = "report" /\ Leaves(eng, <<>>, Tail(stack), stack[1].as)
    BY <1>4 DEF RaiseReported, Top
  <2>2. stack[1].as \in Errors
    BY <2>1, TailFacts DEF Frames
  <2> QED BY <2>1, <2>2, <1>0, PopsGood DEF Errors
<1>5. ASSUME NEW kind \in Errors \cup {"none", "script"}, EndSection(kind) PROVE Good
  <2>1. stack # <<>> /\ Tail(stack) \in Seq(Frames)
    BY <1>5, TailFacts DEF EndSection
  <2>2. CASE ~eng.site
    <3>1. Leaves(eng, <<>>, Tail(stack), "other")
      BY <1>5, <2>2 DEF EndSection
    <3> QED BY <2>1, <3>1, <1>0, PopsGood
  <2>3. CASE eng.site /\ kind = "none"
    <3>1. Leaves(eng, <<>>, Tail(stack), "none")
      BY <1>5, <2>3 DEF EndSection
    <3> QED BY <2>1, <2>3, <3>1, <1>0, PopsGood
  <2>4. CASE eng.site /\ kind # "none"
    <3>1. HandleException(kind, eng, Tail(stack))
      BY <1>5, <2>4 DEF EndSection
    <3>2. Ends(eng, Tail(stack)) /\ eng'.site
      BY <2>1, <2>4, <3>1, <1>0, HandlerEnds
    <3> QED BY <3>2 DEF Good, Marks, Ends, Cut
  <2> QED BY <2>2, <2>3, <2>4
<1>6. CASE ScriptReturns \/ ScriptRaises \/ ScriptPasses
  <2>1. ScriptReturns => \E kind \in Errors \cup {"none", "script"} : EndSection(kind)
    BY DEF ScriptReturns
  <2>2. ScriptRaises => \E kind \in Errors \cup {"none", "script"} : EndSection(kind)
    BY DEF ScriptRaises, Errors
  <2>3. ScriptPasses => \E kind \in Errors \cup {"none", "script"} : EndSection(kind)
    BY DEF ScriptPasses, Errors
  <2> QED BY <1>5, <1>6, <2>1, <2>2, <2>3
<1>7. CASE ScriptCatches \/ HostGets
  <2>1. eng' = eng /\ stack' = stack /\ runs' = runs /\ exc' = "none" /\ (stack = <<>> \/ stack[1].op = "script")
    BY <1>7 DEF ScriptCatches, HostGets
  <2>2. Kept
    BY <2>1 DEF Kept, Typed
  <2> QED BY <2>1, <2>2 DEF Good, Marks, Typed, Sound, Cut
<1>8. CASE Unwind
  <2>1. stack # <<>> /\ exc # "none" /\ Leaves(eng, <<>>, Tail(stack), exc)
    BY <1>8 DEF Unwind
  <2> QED BY <2>1, <1>0, PopsGood DEF Typed
<1> QED BY <1>1, <1>2, <1>3, <1>4, <1>6, <1>7, <1>8 DEF EngineGoesOn

LEMMA HistoryStep == IInv /\ [Next]_vars => History'
<1> SUFFICES ASSUME IInv, [Next]_vars PROVE History'
  OBVIOUS
<1> USE DEF IInv, History
<1>0. eng.state \in States
  BY DEF Typed, Engines
<1>1. ASSUME NEW to \in States \cup {"none"}, NEW c \in BOOLEAN, Asks(to, c)
      PROVE  /\ asked' \in [to : States \cup {"none"}, from : States, failed : BOOLEAN]
             /\ meddled' \in BOOLEAN
  BY <1>1, <1>0 DEF Asks
<1>2. CASE HostCalls
  <2>1. ASSUME NEW kind, NEW e, NEW b, BeginSection(kind, e, b) PROVE entered' \in Int
    BY <2>1 DEF BeginSection
  <2>2. ASSUME NEW s \in States, CallSetScriptState(s) PROVE History'
    BY <2>2, <1>1 DEF CallSetScriptState
  <2>3. CASE CallClose \/ SetScriptSite
    BY <2>3, <1>1 DEF CallClose, SetScriptSite
  <2>4. ASSUME NEW i \in Names, AddNamedItem(i) \/ AddScriptlet(i) PROVE History'
    BY <2>4, <1>1 DEF AddNamedItem, AddScriptlet
  <2>5. ASSUME NEW i \in Names, ProcessScriptItemEvent(i) PROVE History'
    BY <2>5, <2>1, <1>1 DEF ProcessScriptItemEvent
  <2>6. ASSUME NEW b \in Blocks, NEW w \in BOOLEAN, ParseScriptText(b, w) PROVE History'
    <3>1. entered' \in Int
      BY <2>6, <2>1 DEF ParseScriptText
    <3>2. parsed' \in Seq(Blocks)
      BY <2>6 DEF ParseScriptText
    <3> QED BY <2>6, <3>1, <3>2, <1>1 DEF ParseScriptText
  <2> QED BY <1>2, <2>2, <2>3, <2>4, <2>5, <2>6 DEF HostCalls
<1>3. CASE EngineGoesOn
  <2>1. CASE DoExecutePendingScripts
    <3>1. ASSUME NEW kind, NEW e, NEW b, BeginSection(kind, e, b) PROVE entered' \in Int
      BY <3>1 DEF BeginSection
    <3>2. UNCHANGED <<parsed, asked, meddled>> /\ entered' \in Int
      BY <2>1, <3>1 DEF DoExecutePendingScripts
    <3> QED BY <3>2
  <2>2. ASSUME NEW kind, EndSection(kind) PROVE History'
    BY <2>2 DEF EndSection
  <2>3. CASE StateIsStarted \/ StateIsConnected \/ RaiseReported \/ ScriptCatches \/ Unwind
    BY <2>3 DEF StateIsStarted, StateIsConnected, RaiseReported, ScriptCatches, Unwind
  <2>4. CASE HostGets
    BY <2>4 DEF HostGets
  <2> QED BY <1>3, <2>1, <2>2, <2>3, <2>4 DEF EngineGoesOn, ScriptReturns, ScriptRaises, ScriptPasses
<1>4. CASE UNCHANGED vars
  BY <1>4 DEF vars
<1> QED BY <1>2, <1>3, <1>4 DEF Next

LEMMA IInvInit == Init => IInv
<1> SUFFICES ASSUME Init PROVE IInv
  OBVIOUS
<1>1. eng \in Engines /\ eng.fresh = FALSE /\ Sound(eng) /\ eng.site
  BY DEF Init, Engines, States, Sound
<1>2. stack \in Seq(Frames) /\ exc \in Errors \cup {"none"}
  BY DEF Init
<1>3. runs \in [Blocks -> Nat]
  BY DEF Init
<1>4. parsed = <<>> /\ entered = 0 /\ meddled = FALSE
      /\ asked = [to |-> "none", from |-> "initialized", failed |-> FALSE]
  BY DEF Init
<1>5. asked \in [to : States \cup {"none"}, from : States, failed : BOOLEAN]
  BY <1>4 DEF States
<1>6. parsed \in Seq(Blocks) /\ entered \in Int
  BY <1>4
<1>7. meddled \in BOOLEAN
  BY <1>4
<1>8. History
  BY <1>5, <1>6, <1>7 DEF History
<1> QED BY <1>1, <1>2, <1>3, <1>8 DEF IInv, Typed, Cut

LEMMA IInvStep == IInv /\ [Next]_vars => IInv' /\ (eng.state = "closed" => eng'.state = "closed")
<1> SUFFICES ASSUME IInv, [Next]_vars
             PROVE  IInv' /\ (eng.state = "closed" => eng'.state = "closed")
  OBVIOUS
<1>1. CASE Next
  BY <1>1, CallsGood, StepsGood, HistoryStep DEF Next, Good, IInv
<1>2. CASE UNCHANGED vars
  BY <1>2 DEF vars, IInv, Typed, History, Sound, Cut
<1> QED BY <1>1, <1>2

LEMMA IInvHolds == Spec => []IInv
<1>1. IInv /\ [Next]_vars => IInv'
  BY IInvStep
<1> QED BY IInvInit, <1>1, PTL DEF Spec

(***************************************************************************)
(* The theorems.                                                           *)
(***************************************************************************)

\* COMScript.Close: a closed engine stays closed, whatever was running in it.
THEOREM SpecClosedIsFinal == Spec => ClosedIsFinal
<1>1. IInv /\ [Next]_vars => [eng.state = "closed" => eng'.state = "closed"]_vars
  BY IInvStep
<1> QED BY <1>1, IInvHolds, PTL DEF Spec, ClosedIsFinal

\* EventSink.Connect: an item is connected only while the engine runs.
THEOREM SpecQuietAtRest == Spec => []QuietAtRest
<1>1. IInv => QuietAtRest
  BY DEF IInv, Sound, QuietAtRest
<1> QED BY <1>1, IInvHolds, PTL

\* ExecInScriptedSection: a block runs at most once between two resets.
MarksTell ==
  \A b \in Blocks : /\ runs[b] <= 1
                    /\ b \notin eng.done \/ b \notin ToSet(parsed) => runs[b] = 0

LEMMA MarksStep == IInv /\ MarksTell /\ [Next]_vars => MarksTell'
<1> SUFFICES ASSUME IInv, MarksTell, [Next]_vars PROVE MarksTell'
  OBVIOUS
<1>1. CASE Next
  <2>1. Marks /\ runs \in [Blocks -> Nat]
    BY <1>1, CallsGood, StepsGood DEF Next, Good, IInv, Typed
  <2>2. ToSet(parsed) \subseteq ToSet(parsed')
    <3>1. CASE parsed' = parsed
      BY <3>1
    <3>2. ASSUME NEW b \in Blocks, parsed' = Append(parsed, b)
          PROVE  ToSet(parsed) \subseteq ToSet(parsed')
      BY <3>2 DEF IInv, History, ToSet
    <3>3. CASE HostCalls
      BY <3>3, <3>1, <3>2 DEF HostCalls, CallSetScriptState, CallClose, SetScriptSite, AddNamedItem,
         AddScriptlet, ProcessScriptItemEvent, ParseScriptText
    <3>4. CASE EngineGoesOn
      BY <3>4, <3>1 DEF EngineGoesOn, DoExecutePendingScripts, StateIsStarted, StateIsConnected,
         RaiseReported, ScriptReturns, ScriptRaises, ScriptPasses, ScriptCatches, Unwind, HostGets,
         EndSection
    <3> QED BY <1>1, <3>3, <3>4 DEF Next
  <2>3. CASE Kept
    BY <2>1, <2>2, <2>3 DEF Kept, MarksTell
  <2>4. ASSUME NEW bs \in SUBSET Blocks,
               runs' = Counted(bs),
               eng'.done = eng.done \cup bs,
               \A b \in bs : b \notin eng.done \/ b \notin ToSet(parsed),
               \A b \in bs : b \in ToSet(parsed')
        PROVE  MarksTell'
    BY <2>1, <2>2, <2>4 DEF MarksTell, Counted
  <2> QED BY <2>1, <2>3, <2>4 DEF Marks
<1>2. CASE UNCHANGED vars
  BY <1>2 DEF vars, MarksTell
<1> QED BY <1>1, <1>2

\* A block runs at most once until a reset lets it run again, whatever script code calls
\* while it runs (ExecInScriptedSection, DoExecutePendingScripts).
THEOREM SpecRanOnce == Spec => []RanOnce
<1>1. Init => MarksTell
  BY DEF Init, MarksTell
<1>2. MarksTell => RanOnce
  BY DEF MarksTell, RanOnce
<1> QED BY <1>1, <1>2, MarksStep, IInvHolds, PTL DEF Spec

(***************************************************************************)
(* The sections the site was told of.                                      *)
(***************************************************************************)
SameOps(s, t) == Len(s) = Len(t) /\ \A k \in 1 .. Len(t) : s[k].op = t[k].op

LEMMA LeavesShape ==
  ASSUME NEW e \in Engines, NEW new, NEW base \in Seq(Frames), NEW x, Typed,
         Leaves(e, new, base, x)
  PROVE  /\ eng'.items = e.items /\ eng'.registered = e.registered /\ eng'.state = e.state
         /\ exc' = x
         /\ \E b \in Seq(Frames) : SameOps(b, base) /\ stack' = new \o b
<1>1. /\ eng'.items = e.items /\ eng'.registered = e.registered /\ eng'.state = e.state
      /\ exc' = x
  BY DEF Leaves, Engines
<1>2. CASE e.fresh
  BY <1>1, <1>2, DetachedTypes DEF Leaves, SameOps
<1>3. CASE ~e.fresh
  BY <1>1, <1>3 DEF Leaves, SameOps
<1> QED BY <1>2, <1>3

Sections(s) == {k \in DOMAIN s : s[k].op = "script"}

LEMMA SectionsFinite ==
  ASSUME NEW s \in Seq(Frames)
  PROVE  IsFiniteSet(Sections(s)) /\ Cardinality(Sections(s)) \in Nat
<1>1. DOMAIN s = 1 .. Len(s) /\ Len(s) \in Nat
  OBVIOUS
<1>2. IsFiniteSet(1 .. Len(s)) /\ Sections(s) \in SUBSET (1 .. Len(s))
  BY <1>1, FS_Interval DEF Sections
<1> QED BY <1>2, FS_Subset, FS_CardinalityType

LEMMA PushSections ==
  ASSUME NEW f \in Frames, NEW s \in Seq(Frames)
  PROVE  /\ <<f>> \o s \in Seq(Frames)
         /\ Cardinality(Sections(<<f>> \o s)) =
              Cardinality(Sections(s)) + IF f.op = "script" THEN 1 ELSE 0
<1> DEFINE n == Len(s)
           v == <<f>> \o s
           moved == {k + 1 : k \in Sections(s)}
           m == [k \in Sections(s) |-> k + 1]
<1>1. /\ v \in Seq(Frames) /\ DOMAIN v = 1 .. n + 1 /\ v[1] = f /\ n \in Nat /\ DOMAIN s = 1 .. n
      /\ \A k \in 1 .. n : v[k + 1] = s[k]
  OBVIOUS
<1>2. Sections(s) \subseteq 1 .. n
  BY <1>1 DEF Sections
<1> HIDE DEF n, v
<1>3. Cardinality(moved) = Cardinality(Sections(s)) /\ IsFiniteSet(moved)
  <2>1. m \in Bijection(Sections(s), moved)
    <3>1. m \in [Sections(s) -> moved]
      OBVIOUS
    <3>2. \A a, b \in Sections(s) : m[a] = m[b] => a = b
      BY <1>1, <1>2
    <3>3. \A y \in moved : \E a \in Sections(s) : m[a] = y
      OBVIOUS
    <3> QED BY <3>1, <3>2, <3>3 DEF Bijection, Injection, Surjection, IsInjective
  <2>2. ExistsBijection(Sections(s), moved)
    BY <2>1 DEF ExistsBijection
  <2> QED BY <2>2, SectionsFinite, FS_Bijection
<1>4. 1 \notin moved
  BY <1>1, <1>2
<1>5. Sections(v) = moved \cup (IF f.op = "script" THEN {1} ELSE {})
  <2>1. ASSUME NEW k \in Sections(v)
        PROVE  k \in moved \cup (IF f.op = "script" THEN {1} ELSE {})
    <3>1. k \in 1 .. n + 1 /\ v[k].op = "script"
      BY <1>1 DEF Sections
    <3>2. CASE k = 1
      BY <1>1, <3>1, <3>2
    <3>3. CASE k # 1
      <4>1. k - 1 \in 1 .. n /\ (k - 1) + 1 = k
        BY <1>1, <3>1, <3>3
      <4>2. s[k - 1].op = "script"
        BY <1>1, <3>1, <4>1
      <4> QED BY <1>1, <4>1, <4>2 DEF Sections
    <3> QED BY <3>2, <3>3
  <2>2. ASSUME NEW k \in Sections(s) PROVE k + 1 \in Sections(v)
    BY <1>1, <1>2 DEF Sections
  <2>3. f.op = "script" => 1 \in Sections(v)
    BY <1>1 DEF Sections
  <2> QED BY <2>1, <2>2, <2>3
<1>6. Cardinality(Sections(s)) \in Nat
  BY SectionsFinite
<1>7. CASE f.op = "script"
  BY <1>1, <1>3, <1>4, <1>5, <1>6, <1>7, FS_AddElement DEF v
<1>8. CASE f.op # "script"
  <2>1. Sections(v) = moved
    BY <1>5, <1>8
  <2>2. Cardinality(Sections(v)) = Cardinality(Sections(s))
    BY <1>3, <2>1
  <2>3. Cardinality(Sections(s)) = Cardinality(Sections(s)) + 0
    BY <1>6
  <2> QED BY <1>1, <1>8, <2>2, <2>3 DEF v
<1> QED BY <1>7, <1>8

LEMMA PopSections ==
  ASSUME NEW s \in Seq(Frames), s # <<>>
  PROVE  /\ Tail(s) \in Seq(Frames) /\ s[1] \in Frames
         /\ Cardinality(Sections(s)) =
              Cardinality(Sections(Tail(s))) + IF s[1].op = "script" THEN 1 ELSE 0
<1>1. Tail(s) \in Seq(Frames) /\ s[1] \in Frames /\ s = <<s[1]>> \o Tail(s)
  OBVIOUS
<1> QED BY <1>1, PushSections

\* Two frames are pushed one after the other.
LEMMA PushTwo ==
  ASSUME NEW f \in Frames, NEW g \in Frames, NEW b \in Seq(Frames)
  PROVE  <<f, g>> \o b = <<f>> \o (<<g>> \o b)
<1> DEFINE l == <<f, g>> \o b
           r == <<f>> \o (<<g>> \o b)
<1>1. /\ l \in Seq(Frames) /\ Len(l) = Len(b) + 2 /\ l[1] = f /\ l[2] = g
      /\ \A k \in 1 .. Len(b) : l[k + 2] = b[k]
  OBVIOUS
<1>2. /\ r \in Seq(Frames) /\ Len(r) = Len(b) + 2 /\ r[1] = f /\ r[2] = g
      /\ \A k \in 1 .. Len(b) : r[k + 2] = b[k]
  <2> DEFINE t == <<g>> \o b
  <2>1. /\ t \in Seq(Frames) /\ Len(t) = Len(b) + 1 /\ t[1] = g
        /\ \A k \in 1 .. Len(b) : t[k + 1] = b[k]
    OBVIOUS
  <2> HIDE DEF t
  <2>2. /\ <<f>> \o t \in Seq(Frames) /\ Len(<<f>> \o t) = Len(t) + 1 /\ (<<f>> \o t)[1] = f
        /\ \A k \in 1 .. Len(t) : (<<f>> \o t)[k + 1] = t[k]
    BY <2>1
  <2>3. r = <<f>> \o t
    BY DEF t
  <2> QED BY <2>1, <2>2, <2>3
<1> HIDE DEF l, r
<1>3. ASSUME NEW k \in 1 .. Len(l) PROVE l[k] = r[k]
  <2>1. k = 1 \/ k = 2 \/ (k - 2 \in 1 .. Len(b) /\ (k - 2) + 2 = k)
    BY <1>1
  <2> QED BY <1>1, <1>2, <2>1
<1>4. l = r
  BY <1>1, <1>2, <1>3
<1> QED BY <1>4 DEF l, r

LEMMA SameSections ==
  ASSUME NEW s \in Seq(Frames), NEW t \in Seq(Frames), SameOps(s, t)
  PROVE  Sections(s) = Sections(t)
BY DEF SameOps, Sections

\* A method that ends changes no section.
LEMMA LeavesSections ==
  ASSUME NEW e \in Engines, NEW base \in Seq(Frames), NEW x, Typed, Leaves(e, <<>>, base, x)
  PROVE  Cardinality(Sections(stack')) = Cardinality(Sections(base))
<1>1. PICK b \in Seq(Frames) : SameOps(b, base) /\ stack' = <<>> \o b
  BY LeavesShape
<1>2. stack' = b
  BY <1>1
<1> QED BY <1>1, <1>2, SameSections

LEMMA SetStateSections ==
  ASSUME NEW s \in States, NEW e \in Engines, NEW base \in Seq(Frames), Typed,
         SetScriptState(s, e, base)
  PROVE  Cardinality(Sections(stack')) = Cardinality(Sections(base))
<1> DEFINE p == Prepared(s, e)
<1>0. p \in Engines /\ RegisterNewNamedItems(p) \in Engines
  BY MethodTypes
<1> HIDE DEF p
<1>1. CASE \E d \in Engines, x \in Errors \cup {"none"} : Leaves(d, <<>>, base, x)
  BY <1>1, LeavesSections
<1>2. CASE s \in {"started", "connected"} /\
           Leaves(RegisterNewNamedItems(p),
              <<[op |-> "pending", at |-> 1, live |-> TRUE, list |-> {}], Frame(s)>>, base, "none")
  <2> DEFINE f == [op |-> "pending", at |-> 1, live |-> TRUE, list |-> {}]
             g == Frame(s)
  <2>1. f \in Frames /\ f.op # "script" /\ g \in Frames /\ g.op # "script"
    <3>1. 1 \in Nat \ {0} /\ TRUE \in BOOLEAN /\ {} \in SUBSET Blocks
      OBVIOUS
    <3> QED BY <1>2, <3>1, FrameTypes DEF Frame
  <2>2. Leaves(RegisterNewNamedItems(p), <<f, g>>, base, "none")
    BY <1>2
  <2> HIDE DEF f, g
  <2>3. PICK b \in Seq(Frames) : SameOps(b, base) /\ stack' = <<f, g>> \o b
    BY <1>0, <2>2, LeavesShape
  <2>4. <<f, g>> \o b = <<f>> \o (<<g>> \o b)
    BY <2>1, PushTwo
  <2>5. /\ <<g>> \o b \in Seq(Frames)
        /\ Cardinality(Sections(<<g>> \o b)) = Cardinality(Sections(b))
    BY <2>1, PushSections, SectionsFinite
  <2>6. Cardinality(Sections(<<f>> \o (<<g>> \o b))) = Cardinality(Sections(b))
    BY <2>1, <2>5, PushSections, SectionsFinite
  <2>7. Sections(b) = Sections(base)
    BY <2>3, SameSections
  <2> QED BY <2>3, <2>4, <2>6, <2>7
<1> QED BY <1>0, <1>1, <1>2 DEF SetScriptState, RunsScripts, Run, Errors, p

LEMMA HandlerSections ==
  ASSUME NEW kind \in Errors \cup {"script"}, NEW e \in Engines, NEW base \in Seq(Frames), Typed,
         HandleException(kind, e, base)
  PROVE  Cardinality(Sections(stack')) = Cardinality(Sections(base))
<1>1. CASE kind # "script"
  BY <1>1, LeavesSections DEF HandleException
<1>2. CASE kind = "script"
  <2>1. PICK r \in Errors :
           SetScriptState("connected", e, <<[op |-> "report", as |-> r]>> \o base)
    BY <1>2 DEF HandleException
  <2> DEFINE f == [op |-> "report", as |-> r]
  <2>2. f \in Frames /\ f.op # "script"
    BY FrameTypes
  <2> HIDE DEF f
  <2>3. <<f>> \o base \in Seq(Frames)
        /\ Cardinality(Sections(<<f>> \o base)) = Cardinality(Sections(base))
    BY <2>2, PushSections, SectionsFinite
  <2>4. SetScriptState("connected", e, <<f>> \o base) /\ "connected" \in States
    BY <2>1 DEF f, States
  <2> QED BY <2>3, <2>4, SetStateSections
<1> QED BY <1>1, <1>2

LEMMA BeginSections ==
  ASSUME NEW bs, NEW e, NEW base \in Seq(Frames), BeginSection(bs, e, base)
  PROVE  /\ Cardinality(Sections(stack')) = Cardinality(Sections(base)) + 1
         /\ entered' = entered + 1
<1>1. Frame("script") \in Frames /\ Frame("script").op = "script"
  BY FrameTypes DEF Frame
<1> QED BY <1>1, PushSections DEF BeginSection

\* A step opens as many sections as it tells the site of, and closes as many.
Even == entered' - Cardinality(Sections(stack')) = entered - Cardinality(Sections(stack))

LEMMA CallsEven ==
  ASSUME IInv, HostCalls PROVE Even
<1> USE DEF IInv, History
<1> DEFINE r == RegisterNewNamedItems(eng)
<1>0. eng \in Engines /\ r \in Engines /\ stack \in Seq(Frames)
  BY MethodTypes DEF Typed
<1> HIDE DEF r
<1>00. Cardinality(Sections(stack)) \in Nat
  BY <1>0, SectionsFinite
<1>1. ASSUME entered' = entered, Cardinality(Sections(stack')) = Cardinality(Sections(stack))
      PROVE  Even
  BY <1>1 DEF Even
<1>2. ASSUME NEW e \in Engines, NEW x, Leaves(e, <<>>, stack, x), entered' = entered PROVE Even
  BY <1>0, <1>1, <1>2, LeavesSections
<1>3. ASSUME NEW bs, BeginSection(bs, r, stack) PROVE Even
  BY <1>0, <1>00, <1>3, BeginSections DEF Even
<1>4. ASSUME HandleException("script", r, stack), entered' = entered PROVE Even
  BY <1>0, <1>1, <1>4, HandlerSections
<1>5. ASSUME NEW s \in States, CallSetScriptState(s) PROVE Even
  BY <1>0, <1>1, <1>5, SetStateSections DEF CallSetScriptState
<1>6. CASE CallClose \/ SetScriptSite
  BY <1>0, <1>2, <1>6, MethodTypes DEF CallClose, SetScriptSite
<1>7. ASSUME NEW i \in Names, AddNamedItem(i) \/ AddScriptlet(i) PROVE Even
  <2>1. [eng EXCEPT !.items = @ \cup {i}] \in Engines /\ [eng EXCEPT !.scriptlets = @ \cup {i}] \in Engines
    BY <1>0 DEF Engines
  <2> QED BY <1>0, <1>2, <1>7, <2>1 DEF AddNamedItem, AddScriptlet
<1>8. ASSUME NEW i \in Names, ProcessScriptItemEvent(i) PROVE Even
  BY <1>3, <1>4, <1>8 DEF ProcessScriptItemEvent, r
<1>9. ASSUME NEW b \in Blocks, NEW w \in BOOLEAN, ParseScriptText(b, w) PROVE Even
  <2>1. [eng EXCEPT !.blocks = @ \cup {b}] \in Engines
    BY <1>0 DEF Engines
  <2> QED BY <1>0, <1>2, <1>3, <1>4, <1>9, <2>1 DEF ParseScriptText, r
<1> QED BY <1>5, <1>6, <1>7, <1>8, <1>9, Zenon DEF HostCalls

LEMMA StepsEven ==
  ASSUME IInv, EngineGoesOn PROVE ~eng'.site \/ Even
<1> USE DEF IInv, History
<1>0. eng \in Engines /\ stack \in Seq(Frames)
  BY DEF Typed
<1>00. Cardinality(Sections(stack)) \in Nat
  BY <1>0, SectionsFinite
<1>1. ASSUME entered' = entered, Cardinality(Sections(stack')) = Cardinality(Sections(stack))
      PROVE  Even
  BY <1>1 DEF Even
<1>2. ASSUME stack # <<>>, stack[1].op # "script", NEW e \in Engines, NEW x,
             Leaves(e, <<>>, Tail(stack), x), entered' = entered
      PROVE  Even
  <2>1. Tail(stack) \in Seq(Frames)
    BY <1>0, <1>2, PopSections
  <2>2. Cardinality(Sections(stack)) = Cardinality(Sections(Tail(stack)))
    <3>1. Cardinality(Sections(stack)) = Cardinality(Sections(Tail(stack))) + 0
      BY <1>0, <1>2, PopSections
    <3>2. Cardinality(Sections(Tail(stack))) \in Nat
      BY <2>1, SectionsFinite
    <3> QED BY <3>1, <3>2
  <2> QED BY <1>1, <1>2, <2>1, <2>2, LeavesSections
<1>3. CASE DoExecutePendingScripts
  <2>1. stack # <<>> /\ stack[1].op = "pending" /\ stack[1] \in Frames
    BY <1>0, <1>3 DEF DoExecutePendingScripts, Top
  <2>2. ASSUME HandleException("script", eng, stack), entered' = entered PROVE Even
    BY <1>0, <1>1, <2>2, HandlerSections
  <2>3. ASSUME NEW k \in stack[1].at .. Len(parsed), NEW bs,
               BeginSection(bs, eng, [stack EXCEPT ![1].at = k + 1])
        PROVE  Even
    <3> DEFINE base == [stack EXCEPT ![1].at = k + 1]
    <3>1. base \in Seq(Frames) /\ SameOps(base, stack)
      <4>1. stack[1] \in [op : {"pending"}, at : Nat \ {0}, live : BOOLEAN, list : SUBSET Blocks]
        BY <2>1 DEF Frames
      <4>2. [stack[1] EXCEPT !.at = k + 1] \in Frames /\ [stack[1] EXCEPT !.at = k + 1].op = "pending"
        <5>1. k + 1 \in Nat \ {0}
          BY <4>1
        <5> QED BY <4>1, <5>1 DEF Frames
      <4> QED BY <1>0, <2>1, <4>2 DEF SameOps
    <3>2. Cardinality(Sections(base)) = Cardinality(Sections(stack))
      BY <1>0, <3>1, SameSections
    <3> HIDE DEF base
    <3>3. BeginSection(bs, eng, base)
      BY <2>3 DEF base
    <3> QED BY <1>00, <3>1, <3>2, <3>3, BeginSections DEF Even
  <2> QED BY <1>0, <1>2, <1>3, <2>1, <2>2, <2>3 DEF DoExecutePendingScripts
<1>4. CASE StateIsStarted
  <2>1. ChangeScriptState(eng, "started") \in Engines
    BY <1>0, MethodTypes DEF States
  <2> QED BY <1>2, <1>4, <2>1 DEF StateIsStarted, Top
<1>5. CASE StateIsConnected
  BY <1>0, <1>2, <1>5, MethodTypes DEF StateIsConnected, Top
<1>6. CASE RaiseReported \/ Unwind
  BY <1>0, <1>2, <1>6 DEF RaiseReported, Unwind, Top
<1>7. ASSUME NEW kind \in Errors \cup {"none", "script"}, EndSection(kind)
      PROVE  ~eng'.site \/ Even
  <2>1. stack # <<>> /\ stack[1].op = "script" /\ Tail(stack) \in Seq(Frames)
    BY <1>0, <1>7, PopSections DEF EndSection
  <2>2. CASE ~eng.site
    BY <1>7, <2>2 DEF EndSection, Leaves, Typed, Engines
  <2>3. CASE eng.site
    <3>1. entered' = entered - 1
      BY <1>7, <2>3 DEF EndSection
    <3>2. Cardinality(Sections(stack')) = Cardinality(Sections(Tail(stack)))
      BY <1>0, <1>7, <2>1, <2>3, LeavesSections, HandlerSections DEF EndSection
    <3>3. Cardinality(Sections(stack)) = Cardinality(Sections(Tail(stack))) + 1
      BY <1>0, <2>1, PopSections
    <3>4. Cardinality(Sections(Tail(stack))) \in Nat
      BY <2>1, SectionsFinite
    <3> QED BY <3>1, <3>2, <3>3, <3>4 DEF Even
  <2> QED BY <2>2, <2>3
<1>8. CASE ScriptReturns \/ ScriptRaises \/ ScriptPasses
  <2>1. ScriptReturns => \E kind \in Errors \cup {"none", "script"} : EndSection(kind)
    BY DEF ScriptReturns
  <2>2. ScriptRaises => \E kind \in Errors \cup {"none", "script"} : EndSection(kind)
    BY DEF ScriptRaises, Errors
  <2>3. ScriptPasses => \E kind \in Errors \cup {"none", "script"} : EndSection(kind)
    BY DEF ScriptPasses, Errors
  <2> QED BY <1>7, <1>8, <2>1, <2>2, <2>3
<1>9. CASE ScriptCatches \/ HostGets
  BY <1>1, <1>9 DEF ScriptCatches, HostGets
<1> QED BY <1>3, <1>4, <1>5, <1>6, <1>8, <1>9 DEF EngineGoesOn

\* ExecInScriptedSection: the site, while it is there, is told of the end of every
\* section of script code it was told the begin of.
THEOREM SpecBracketed == Spec => []Bracketed
<1>0. Bracketed <=> (eng.site => entered = Cardinality(Sections(stack)))
  BY DEF Bracketed, Sections
<1>1. Init => Bracketed
  <2> SUFFICES ASSUME Init PROVE entered = Cardinality(Sections(stack))
    BY <1>0
  <2>1. Sections(stack) = {} /\ entered = 0
    BY DEF Init, Sections
  <2> QED BY <2>1, FS_EmptySet
<1>2. IInv /\ IInv' /\ Bracketed /\ [Next]_vars => Bracketed'
  <2> SUFFICES ASSUME IInv, IInv', Bracketed, [Next]_vars, eng'.site
               PROVE  entered' = Cardinality(Sections(stack'))
    BY DEF Bracketed, Sections
  <2>1. eng.site
    BY IInvStep DEF IInv, Sound
  <2>2. entered' - Cardinality(Sections(stack')) = entered - Cardinality(Sections(stack))
    <3>1. CASE Next
      BY <3>1, CallsEven, StepsEven DEF Next, Even
    <3>2. CASE UNCHANGED vars
      BY <3>2 DEF vars
    <3> QED BY <3>1, <3>2
  <2>3. entered = Cardinality(Sections(stack))
    BY <1>0, <2>1
  <2>4. stack \in Seq(Frames) /\ stack' \in Seq(Frames) /\ entered' \in Int /\ entered \in Int
    BY DEF IInv, History, Typed
  <2>5. Cardinality(Sections(stack)) \in Nat /\ Cardinality(Sections(stack')) \in Nat
    BY <2>4, SectionsFinite
  <2> QED BY <2>2, <2>3, <2>4, <2>5
<1> QED BY <1>1, <1>2, IInvHolds, PTL DEF Spec

\* The site is never told of more ends than begins: while it is there, a section
\* that ends is one it was told the begin of.
LEMMA EnteredStep == IInv /\ Bracketed /\ entered \in Nat /\ [Next]_vars => entered' \in Nat
<1> SUFFICES ASSUME IInv, Bracketed, entered \in Nat, [Next]_vars PROVE entered' \in Nat
  OBVIOUS
<1>1. ASSUME NEW bs, NEW e, NEW base, BeginSection(bs, e, base) PROVE entered' \in Nat
  BY <1>1 DEF BeginSection
<1>2. CASE HostCalls
  <2>1. ASSUME NEW i \in Names, AddNamedItem(i) \/ AddScriptlet(i) PROVE entered' \in Nat
    BY <2>1 DEF AddNamedItem, AddScriptlet
  <2>2. ASSUME NEW i \in Names, ProcessScriptItemEvent(i) PROVE entered' \in Nat
    BY <1>1, <2>2 DEF ProcessScriptItemEvent
  <2>3. ASSUME NEW b \in Blocks, NEW w \in BOOLEAN, ParseScriptText(b, w) PROVE entered' \in Nat
    BY <1>1, <2>3 DEF ParseScriptText
  <2>4. CASE CallClose \/ SetScriptSite \/ \E s \in States : CallSetScriptState(s)
    BY <2>4 DEF CallClose, SetScriptSite, CallSetScriptState
  <2> QED BY <1>2, <2>1, <2>2, <2>3, <2>4 DEF HostCalls
<1>3. ASSUME NEW kind, EndSection(kind) PROVE entered' \in Nat
  <2>1. CASE ~eng.site
    BY <1>3, <2>1 DEF EndSection
  <2>2. CASE eng.site
    <3>1. stack # <<>> /\ stack[1].op = "script" /\ stack \in Seq(Frames)
      BY <1>3 DEF EndSection, IInv, Typed
    <3>2. Tail(stack) \in Seq(Frames)
          /\ Cardinality(Sections(stack)) = Cardinality(Sections(Tail(stack))) + 1
      BY <3>1, PopSections
    <3>3. entered = Cardinality(Sections(stack))
      BY <2>2 DEF Bracketed, Sections
    <3>4. Cardinality(Sections(Tail(stack))) \in Nat
      BY <3>2, SectionsFinite
    <3>5. entered' = entered - 1
      BY <1>3, <2>2 DEF EndSection
    <3> QED BY <3>2, <3>3, <3>4, <3>5
  <2> QED BY <2>1, <2>2
<1>4. CASE EngineGoesOn
  <2>1. CASE DoExecutePendingScripts
    BY <1>1, <2>1 DEF DoExecutePendingScripts
  <2>2. CASE ScriptReturns \/ ScriptRaises \/ ScriptPasses
    BY <1>3, <2>2 DEF ScriptReturns, ScriptRaises, ScriptPasses
  <2>3. CASE \/ StateIsStarted \/ StateIsConnected \/ RaiseReported \/ ScriptCatches \/ Unwind
             \/ HostGets
    BY <2>3 DEF StateIsStarted, StateIsConnected, RaiseReported, ScriptCatches, Unwind, HostGets
  <2> QED BY <1>4, <2>1, <2>2, <2>3 DEF EngineGoesOn
<1> QED BY <1>2, <1>3, <1>4 DEF Next, vars

\* The state the engine keeps (AXEngine, COMScript) has its types, and the sections the
\* site was told of are never less than none.
THEOREM SpecTypeOK == Spec => []TypeOK
<1>1. Init => entered \in Nat
  BY DEF Init
<1>2. IInv /\ entered \in Nat => TypeOK
  <2> SUFFICES ASSUME IInv, entered \in Nat PROVE TypeOK
    OBVIOUS
  <2>1. eng \in [state : States, site : BOOLEAN, items : SUBSET Names, registered : SUBSET Names,
                 linked : SUBSET Names, scriptlets : SUBSET Names, blocks : SUBSET Blocks,
                 done : SUBSET Blocks, fresh : {FALSE}]
    BY DEF IInv, Typed, Engines
  <2> QED BY <2>1 DEF TypeOK, IInv, Typed, History
<1>3. IInv /\ Bracketed /\ entered \in Nat /\ [Next]_vars => (entered \in Nat)'
  BY EnteredStep
<1> QED BY <1>1, <1>2, <1>3, SpecBracketed, IInvHolds, PTL DEF Spec

(***************************************************************************)
(* What holds until script code meddles with the engine.                   *)
(***************************************************************************)

\* Only SetScriptState(CONNECTED) is between a report and what runs above it; while it
\* waits, the engine is at most connected.
Backed(st) == \A k \in 2 .. Len(st) : st[k].op = "report" => st[k - 1].op = "connected"
Waiting(st, q) == (\E k \in 1 .. Len(st) : st[k].op = "connected") => q \in {"started", "connected"}
Orderly(st, q) == Backed(st) /\ Waiting(st, q) /\ q # "closed"

\* Code below the host's call sees all items, a report is shown by an engine that goes
\* on with events, and the frame that waits longest is the state the host asked for.
Unspoilt ==
  stack # <<>> =>
    /\ eng.items \subseteq eng.registered
    /\ Orderly(stack, eng.state)
    /\ stack[1].op = "report" => exc # "none" \/ eng.state \in {"connected", "disconnected"}
    /\ asked.to # "none" => stack[Len(stack)].op = asked.to

Undisturbed == ~meddled => Unspoilt /\ Granted

LEMMA PushFacts ==
  ASSUME NEW f \in Frames, NEW s \in Seq(Frames)
  PROVE  /\ <<f>> \o s \in Seq(Frames) /\ Len(<<f>> \o s) = Len(s) + 1 /\ (<<f>> \o s)[1] = f
         /\ <<f>> \o s # <<>>
         /\ \A k \in 1 .. Len(s) : (<<f>> \o s)[k + 1] = s[k]
  OBVIOUS

LEMMA PushOrderly ==
  ASSUME NEW f \in Frames, NEW s \in Seq(Frames), NEW q, Orderly(s, q),
         f.op = "connected" => q \in {"started", "connected"},
         s # <<>> /\ s[1].op = "report" => f.op = "connected"
  PROVE  /\ Orderly(<<f>> \o s, q)
         /\ s # <<>> => (<<f>> \o s)[Len(<<f>> \o s)].op = s[Len(s)].op
         /\ s = <<>> => (<<f>> \o s)[Len(<<f>> \o s)].op = f.op
<1> DEFINE v == <<f>> \o s
<1>1. /\ v \in Seq(Frames) /\ Len(v) = Len(s) + 1 /\ v[1] = f /\ Len(s) \in Nat
      /\ \A k \in 1 .. Len(s) : v[k + 1] = s[k]
      /\ s # <<>> <=> Len(s) > 0
  BY PushFacts
<1> HIDE DEF v
<1>2. ASSUME NEW k \in 2 .. Len(v)
      PROVE  k - 1 \in 1 .. Len(s) /\ v[k] = s[k - 1]
  <2>1. k - 1 \in 1 .. Len(s) /\ (k - 1) + 1 = k
    BY <1>1
  <2> QED BY <1>1, <2>1
<1>3. Backed(v)
  <2> SUFFICES ASSUME NEW k \in 2 .. Len(v), v[k].op = "report" PROVE v[k - 1].op = "connected"
    BY DEF Backed
  <2>1. CASE k = 2
    BY <1>1, <1>2, <2>1
  <2>2. CASE k # 2
    <3>1. k - 1 \in 2 .. Len(v) /\ k - 1 \in 2 .. Len(s)
      BY <1>1, <2>2
    <3>2. v[k] = s[k - 1] /\ v[k - 1] = s[(k - 1) - 1]
      BY <1>2, <3>1
    <3> QED BY <3>1, <3>2 DEF Orderly, Backed
  <2> QED BY <2>1, <2>2
<1>4. Waiting(v, q)
  <2> SUFFICES ASSUME NEW k \in 1 .. Len(v), v[k].op = "connected"
               PROVE  q \in {"started", "connected"}
    BY DEF Waiting
  <2>1. CASE k = 1
    BY <1>1, <2>1
  <2>2. CASE k # 1
    <3>1. k \in 2 .. Len(v)
      BY <1>1, <2>2
    <3> QED BY <1>2, <3>1 DEF Orderly, Waiting
  <2> QED BY <2>1, <2>2
<1>5. s # <<>> => v[Len(v)] = s[Len(s)]
  BY <1>1
<1> QED BY <1>1, <1>3, <1>4, <1>5 DEF Orderly, v

LEMMA PopOrderly ==
  ASSUME NEW s \in Seq(Frames), s # <<>>, NEW q, Orderly(s, q)
  PROVE  /\ Tail(s) \in Seq(Frames) /\ Orderly(Tail(s), q)
         /\ Tail(s) # <<>> => Tail(s)[Len(Tail(s))].op = s[Len(s)].op
         /\ Tail(s) = <<>> => s[Len(s)].op = s[1].op
         /\ Tail(s) # <<>> /\ Tail(s)[1].op = "report" => s[1].op = "connected"
<1> DEFINE t == Tail(s)
<1>1. /\ t \in Seq(Frames) /\ Len(s) = Len(t) + 1 /\ Len(t) \in Nat
      /\ \A k \in 1 .. Len(t) : t[k] = s[k + 1]
      /\ t # <<>> <=> Len(t) > 0
  OBVIOUS
<1> HIDE DEF t
<1>2. Backed(t)
  <2> SUFFICES ASSUME NEW k \in 2 .. Len(t), t[k].op = "report" PROVE t[k - 1].op = "connected"
    BY DEF Backed
  <2>1. k + 1 \in 2 .. Len(s) /\ t[k] = s[k + 1] /\ t[k - 1] = s[(k - 1) + 1] /\ (k + 1) - 1 = (k - 1) + 1
    BY <1>1
  <2> QED BY <2>1 DEF Orderly, Backed
<1>3. Waiting(t, q)
  <2> SUFFICES ASSUME NEW k \in 1 .. Len(t), t[k].op = "connected"
               PROVE  q \in {"started", "connected"}
    BY DEF Waiting
  <2>1. k + 1 \in 1 .. Len(s) /\ t[k] = s[k + 1]
    BY <1>1
  <2> QED BY <2>1 DEF Orderly, Waiting
<1>4. t # <<>> => t[Len(t)] = s[Len(s)]
  BY <1>1
<1>5. t = <<>> => s[Len(s)] = s[1]
  BY <1>1
<1>6. t # <<>> /\ t[1].op = "report" => s[1].op = "connected"
  <2> SUFFICES ASSUME t # <<>>, t[1].op = "report" PROVE s[1].op = "connected"
    OBVIOUS
  <2>1. 2 \in 2 .. Len(s) /\ t[1] = s[2] /\ 2 - 1 = 1
    BY <1>1
  <2> QED BY <2>1 DEF Orderly, Backed
<1> QED BY <1>1, <1>2, <1>3, <1>4, <1>5, <1>6 DEF Orderly, t

LEMMA SameOrderly ==
  ASSUME NEW s \in Seq(Frames), NEW t \in Seq(Frames), SameOps(s, t), NEW q
  PROVE  /\ Orderly(t, q) => Orderly(s, q)
         /\ s = <<>> <=> t = <<>>
         /\ t # <<>> => s[1].op = t[1].op /\ s[Len(s)].op = t[Len(t)].op
<1>1. Len(s) = Len(t) /\ Len(s) \in Nat /\ (s = <<>> <=> Len(s) = 0) /\ (t = <<>> <=> Len(t) = 0)
  BY DEF SameOps
<1>2. \A k \in 1 .. Len(s) : s[k].op = t[k].op
  BY <1>1 DEF SameOps
<1>3. Backed(t) => Backed(s)
  BY <1>1, <1>2 DEF Backed
<1>4. Waiting(t, q) => Waiting(s, q)
  BY <1>1, <1>2 DEF Waiting
<1> QED BY <1>1, <1>2, <1>3, <1>4 DEF Orderly

\* A method that ends leaves the frames below it as they are.
LEMMA LeavesOrderly ==
  ASSUME NEW e \in Engines, NEW base \in Seq(Frames), NEW x, Typed, Leaves(e, <<>>, base, x)
  PROVE  /\ eng'.items = e.items /\ eng'.registered = e.registered /\ eng'.state = e.state
         /\ exc' = x /\ stack' \in Seq(Frames)
         /\ Orderly(base, e.state) => Orderly(stack', e.state)
         /\ stack' = <<>> <=> base = <<>>
         /\ base # <<>> => stack'[1].op = base[1].op /\ stack'[Len(stack')].op = base[Len(base)].op
<1>1. PICK b \in Seq(Frames) : SameOps(b, base) /\ stack' = <<>> \o b
  BY LeavesShape
<1>2. stack' = b
  BY <1>1
<1>3. /\ eng'.items = e.items /\ eng'.registered = e.registered /\ eng'.state = e.state
      /\ exc' = x
  BY LeavesShape
<1> QED BY <1>1, <1>2, <1>3, SameOrderly

\* The pending blocks and the rest of SetScriptState(s) are put above base.
LEMMA RunOrderly ==
  ASSUME NEW e \in Engines, NEW base \in Seq(Frames), Typed, NEW s \in {"started", "connected"},
         Leaves(e, <<[op |-> "pending", at |-> 1, live |-> TRUE, list |-> {}], Frame(s)>>,
                base, "none"),
         Orderly(base, e.state), s = "connected" => e.state \in {"started", "connected"},
         base # <<>> /\ base[1].op = "report" => s = "connected"
  PROVE  /\ eng'.items = e.items /\ eng'.registered = e.registered /\ eng'.state = e.state
         /\ exc' = "none" /\ stack' # <<>>
         /\ Orderly(stack', e.state) /\ stack'[1].op # "report"
         /\ base # <<>> => stack'[Len(stack')].op = base[Len(base)].op
         /\ base = <<>> => stack'[Len(stack')].op = s
<1> DEFINE f == [op |-> "pending", at |-> 1, live |-> TRUE, list |-> {}]
           g == Frame(s)
<1>1. f \in Frames /\ f.op = "pending" /\ g \in Frames /\ g.op = s
  <2>1. 1 \in Nat \ {0} /\ TRUE \in BOOLEAN /\ {} \in SUBSET Blocks
    OBVIOUS
  <2> QED BY <2>1, FrameTypes DEF Frame
<1>2. Leaves(e, <<f, g>>, base, "none")
  OBVIOUS
<1> HIDE DEF f, g
<1>3. PICK b \in Seq(Frames) : SameOps(b, base) /\ stack' = <<f, g>> \o b
  BY <1>2, LeavesShape
<1>4. /\ eng'.items = e.items /\ eng'.registered = e.registered /\ eng'.state = e.state
      /\ exc' = "none"
  BY <1>2, LeavesShape
<1>5. Orderly(b, e.state) /\ (b = <<>> <=> base = <<>>)
      /\ (base # <<>> => b[1].op = base[1].op /\ b[Len(b)].op = base[Len(base)].op)
  BY <1>3, SameOrderly
<1> DEFINE c == <<g>> \o b
<1>6. c \in Seq(Frames) /\ c # <<>> /\ c[1] = g /\ Orderly(c, e.state)
      /\ (b # <<>> => c[Len(c)].op = b[Len(b)].op) /\ (b = <<>> => c[Len(c)].op = g.op)
  BY <1>1, <1>5, PushFacts, PushOrderly
<1> HIDE DEF c
<1>7. stack' = <<f>> \o c
  BY <1>1, <1>3, PushTwo DEF c
<1>8. stack' # <<>> /\ stack'[1] = f /\ Orderly(stack', e.state)
      /\ stack'[Len(stack')].op = c[Len(c)].op
  BY <1>1, <1>6, <1>7, PushFacts, PushOrderly
<1> QED BY <1>1, <1>4, <1>5, <1>6, <1>8

\* How an undisturbed method leaves the engine, above the frames of base.
Leaving(base) ==
  /\ stack' # <<>>
  /\ eng'.items \subseteq eng'.registered
  /\ Orderly(stack', eng'.state)
  /\ stack'[1].op = "report" => exc' # "none" \/ eng'.state \in {"connected", "disconnected"}
  /\ base # <<>> => stack'[Len(stack')].op = base[Len(base)].op

\* HandleException: the engine that was open runs, and the report waits for it.
LEMMA HandlerKeeps ==
  ASSUME NEW e \in Engines, Sound(e), e.items \subseteq e.registered, NEW base \in Seq(Frames), Typed,
         Orderly(base, e.state), base # <<>> => base[1].op # "report", e.state # "closed",
         HandleException("script", e, base)
  PROVE  Leaving(base)
<1>1. PICK r \in Errors : SetScriptState("connected", e, <<[op |-> "report", as |-> r]>> \o base)
  BY DEF HandleException
<1> DEFINE f == [op |-> "report", as |-> r]
           b == <<f>> \o base
<1>2. f \in Frames /\ f.op = "report"
  BY FrameTypes
<1> HIDE DEF f
<1>3. ASSUME NEW q, Orderly(base, q)
      PROVE  Orderly(b, q)
  BY <1>2, <1>3, PushOrderly
<1>4. b \in Seq(Frames) /\ b # <<>> /\ b[1] = f
      /\ (base # <<>> => b[Len(b)].op = base[Len(base)].op)
  BY <1>2, PushFacts, PushOrderly
<1>5. SetScriptState("connected", e, b)
  BY <1>1 DEF f
<1> HIDE DEF b
<1>6. ASSUME NEW d \in Engines, Leaves(d, <<>>, b, "none"), d.items \subseteq d.registered,
             Orderly(base, d.state), d.state \in {"connected", "disconnected"}
      PROVE  Leaving(base)
  BY <1>3, <1>4, <1>6, LeavesOrderly DEF Leaving
<1>7. CASE e.state \in {"connected", "disconnected"}
  <2>1. Leaves(e, <<>>, b, "none")
    BY <1>5, <1>7 DEF SetScriptState, RunsScripts, Prepared
  <2> QED BY <1>6, <1>7, <2>1
<1>8. CASE e.state = "started"
  <2>1. Leaves(Connect(e), <<>>, b, "none")
    BY <1>5, <1>8 DEF SetScriptState, RunsScripts, Prepared
  <2>2. Connect(e) \in Engines /\ Connect(e).state = "connected"
        /\ Connect(e).items \subseteq Connect(e).registered
    BY MethodTypes DEF Connect, RegisterNewNamedItems, ChangeScriptState, Engines
  <2>3. Orderly(base, "connected")
    BY DEF Orderly, Waiting
  <2> QED BY <1>6, <2>1, <2>2, <2>3
<1>9. CASE e.state \in {"uninitialized", "initialized"}
  <2> DEFINE d == RegisterNewNamedItems(ChangeScriptState(e, "started"))
  <2>1. d \in Engines /\ d.state = "started" /\ d.items \subseteq d.registered
    <3>1. ChangeScriptState(e, "started") \in Engines
      BY MethodTypes DEF States
    <3>2. ChangeScriptState(e, "started").state = "started"
      BY DEF ChangeScriptState, Engines
    <3> QED BY <3>2, <3>1, MethodTypes DEF RegisterNewNamedItems, Engines
  <2>2. Leaves(d, <<[op |-> "pending", at |-> 1, live |-> TRUE, list |-> {}], Frame("connected")>>,
               b, "none")
    <3>1. ChangeScriptState(e, "started").state = "started"
      BY DEF ChangeScriptState, Engines
    <3>2. Prepared("connected", e) = ChangeScriptState(e, "started")
      BY <1>9 DEF Prepared
    <3> QED BY <1>5, <1>9, <3>1, <3>2 DEF SetScriptState, RunsScripts, Run
  <2> HIDE DEF d
  <2>3. Orderly(base, "started")
    BY DEF Orderly, Waiting
  <2>4. Orderly(b, d.state)
    BY <1>3, <2>1, <2>3
  <2> QED BY <1>4, <2>1, <2>2, <2>4, RunOrderly DEF Leaving
<1>10. e.state \in States
  BY DEF Engines
<1> QED BY <1>7, <1>8, <1>9, <1>10 DEF States

\* A section that begins above base.
LEMMA BeginKeeps ==
  ASSUME NEW bs, NEW e \in Engines, e.items \subseteq e.registered, NEW base \in Seq(Frames),
         Orderly(base, e.state), base # <<>> => base[1].op # "report", BeginSection(bs, e, base)
  PROVE  Leaving(base)
<1>1. Frame("script") \in Frames /\ Frame("script").op = "script"
  BY FrameTypes DEF Frame
<1>2. stack' = <<Frame("script")>> \o base
  BY DEF BeginSection
<1>3. eng'.items = e.items /\ eng'.registered = e.registered /\ eng'.state = e.state
  BY DEF BeginSection, Engines
<1> QED BY <1>1, <1>2, <1>3, PushFacts, PushOrderly DEF Leaving

\* What SetScriptState makes of an engine that runs no script code for it.
LEMMA PreparedState ==
  ASSUME NEW e \in Engines, NEW s \in States, ~RunsScripts(s, e), e.state # "closed"
  PROVE  Prepared(s, e).state \in {s, e.state}
<1>1. ASSUME NEW x \in Engines
      PROVE  Reset(x).state = "initialized" /\ Disconnect(x).state = "disconnected"
             /\ Connect(x).state = "connected" /\ Close(x).state = "closed"
  BY DEF Reset, Disconnect, Connect, Close, RegisterNewNamedItems, ChangeScriptState, Engines
<1>2. Stop(e).state = "initialized"
  <2> DEFINE marked == [e EXCEPT !.done = e.done \cup e.blocks]
  <2>1. marked \in Engines
    BY DEF Engines
  <2> HIDE DEF marked
  <2>2. Stop(e) = Reset(IF e.state = "connected" THEN Disconnect(marked) ELSE marked)
    BY DEF Stop, marked
  <2>3. Disconnect(marked) \in Engines
    BY <2>1, MethodTypes
  <2> QED BY <2>1, <2>2, <2>3, <1>1
<1>3. ASSUME NEW x \in Engines, NEW q PROVE ChangeScriptState(x, q).state = q
  BY DEF ChangeScriptState, Engines
<1>4. s = "uninitialized" => Prepared(s, e).state = s
  <2>1. Stop(e) \in Engines /\ Reset(e) \in Engines /\ Reset(Disconnect(e)) \in Engines
    BY MethodTypes
  <2> QED BY <1>3, <2>1 DEF Prepared
<1>5. s = "initialized" => Prepared(s, e).state \in {s, e.state}
  BY <1>2 DEF Prepared
<1>6. s = "started" => FALSE
  BY DEF RunsScripts
<1>7. s \in {"connected", "disconnected", "closed"} => Prepared(s, e).state \in {s, e.state}
  BY <1>1 DEF Prepared, RunsScripts
<1> QED BY <1>4, <1>5, <1>6, <1>7 DEF States

\* A request from outside: the engine it asks for, an error, or what runs to reach it.
LEMMA CallFromOutside ==
  ASSUME IInv, stack = <<>>, NEW s \in States, CallSetScriptState(s)
  PROVE  Unspoilt' /\ Granted'
<1>0. eng \in Engines /\ Typed /\ asked' = [to |-> s, from |-> eng.state, failed |-> FALSE]
      /\ SetScriptState(s, eng, stack) /\ stack \in Seq(Frames) /\ s # "none" /\ eng.state \in States
  BY DEF IInv, Typed, Engines, CallSetScriptState, Asks, States
<1>1. ASSUME NEW e \in Engines, NEW x, Leaves(e, <<>>, stack, x),
             x # "none" \/ e.state \in {s, eng.state}
      PROVE  Unspoilt' /\ Granted'
  <2>1. stack' = <<>> /\ exc' = x /\ eng'.state = e.state
    BY <1>0, <1>1, LeavesOrderly
  <2> QED BY <1>0, <1>1, <2>1 DEF Unspoilt, Granted
<1>2. CASE s = eng.state \/ eng.state = "closed"
  BY <1>0, <1>1, <1>2 DEF SetScriptState
<1> DEFINE p == Prepared(s, eng)
<1>3. p \in Engines /\ RegisterNewNamedItems(p) \in Engines
      /\ RegisterNewNamedItems(p).items \subseteq RegisterNewNamedItems(p).registered
      /\ RegisterNewNamedItems(p).state = p.state
  <2>1. p \in Engines
    BY <1>0, MethodTypes
  <2> HIDE DEF p
  <2> QED BY <2>1, MethodTypes DEF RegisterNewNamedItems, Engines
<1>4. CASE s # eng.state /\ eng.state # "closed" /\ RunsScripts(s, eng)
  <2>1. s \in {"started", "connected"} /\ Run(p, s, stack)
    BY <1>0, <1>4 DEF SetScriptState, RunsScripts
  <2>2. s = "connected" => p.state = "started"
    BY <1>0, <1>4 DEF RunsScripts, Prepared, ChangeScriptState, Engines
  <2> HIDE DEF p
  <2>3. CASE p.state \in {"initialized", "started"}
    <3>1. Orderly(stack, p.state)
      BY <1>0, <2>3 DEF Orderly, Backed, Waiting
    <3>2. Leaves(RegisterNewNamedItems(p),
            <<[op |-> "pending", at |-> 1, live |-> TRUE, list |-> {}], Frame(s)>>, stack, "none")
      BY <2>1, <2>3 DEF Run
    <3>3. /\ eng'.items = RegisterNewNamedItems(p).items
          /\ eng'.registered = RegisterNewNamedItems(p).registered
          /\ eng'.state = p.state /\ exc' = "none" /\ stack' # <<>>
          /\ Orderly(stack', p.state) /\ stack'[1].op # "report"
          /\ stack'[Len(stack')].op = s
      BY <1>0, <1>3, <2>1, <2>2, <3>1, <3>2, RunOrderly
    <3> QED BY <1>0, <1>3, <3>3 DEF Unspoilt, Granted
  <2>4. CASE p.state \notin {"initialized", "started"}
    BY <1>1, <1>3, <2>1, <2>4 DEF Run
  <2> QED BY <2>3, <2>4
<1>5. CASE s # eng.state /\ eng.state # "closed" /\ ~RunsScripts(s, eng)
  <2>1. Leaves(p, <<>>, stack, "none") /\ p.state \in {s, eng.state}
    BY <1>0, <1>5, PreparedState DEF SetScriptState
  <2> QED BY <1>1, <1>3, <2>1
<1> QED BY <1>2, <1>4, <1>5

LEMMA UndisturbedCalls ==
  ASSUME IInv, Undisturbed, HostCalls PROVE Undisturbed'
<1> SUFFICES ASSUME ~meddled' PROVE Unspoilt' /\ Granted'
  BY DEF Undisturbed
<1> USE DEF IInv
<1> DEFINE r == RegisterNewNamedItems(eng)
<1>0. /\ eng \in Engines /\ stack \in Seq(Frames) /\ Typed
      /\ r \in Engines /\ Sound(r) /\ r.state = eng.state /\ r.site = eng.site
      /\ r.items \subseteq r.registered
  <2>1. eng \in Engines
    BY DEF Typed
  <2> QED BY <2>1, RegisterFacts DEF Typed, RegisterNewNamedItems, Engines
<1> HIDE DEF r
\* A call from outside other than SetScriptState leaves nothing to be granted, and one
\* from script code changes nothing the frames below rely on.
<1>1. ASSUME MayCall, NEW c \in BOOLEAN, Asks("none", c)
      PROVE  /\ stack # <<>> => asked' = asked /\ ~c /\ ~meddled /\ Unspoilt /\ stack[1].op = "script"
             /\ stack = <<>> => asked'.to = "none"
  BY <1>1 DEF MayCall, Asks, Undisturbed, History
<1>2. ASSUME MayCall, NEW c \in BOOLEAN, Asks("none", c), NEW e \in Engines, NEW x,
             Leaves(e, <<>>, stack, x), stack = <<>>
      PROVE  Unspoilt' /\ Granted'
  <2>1. stack' = <<>>
    BY <1>0, <1>2, LeavesOrderly
  <2> QED BY <1>1, <1>2, <2>1 DEF Unspoilt, Granted
<1>3. ASSUME MayCall, NEW c \in BOOLEAN, Asks("none", c), NEW e \in Engines, NEW x,
             Leaves(e, <<>>, stack, x), e.items = eng.items, e.registered = eng.registered,
             e.state = eng.state
      PROVE  Unspoilt' /\ Granted'
  <2>1. CASE stack # <<>>
    <3>1. /\ asked' = asked /\ stack[1].op = "script" /\ eng.items \subseteq eng.registered
          /\ Orderly(stack, eng.state)
          /\ asked.to # "none" => stack[Len(stack)].op = asked.to
      BY <1>1, <1>3, <2>1 DEF Unspoilt
    <3>2. /\ eng'.items = e.items /\ eng'.registered = e.registered /\ eng'.state = e.state
          /\ Orderly(stack', e.state) /\ stack' # <<>> /\ stack'[1].op = stack[1].op
          /\ stack'[Len(stack')].op = stack[Len(stack)].op
      BY <1>0, <1>3, <2>1, <3>1, LeavesOrderly
    <3> QED BY <1>3, <3>1, <3>2 DEF Unspoilt, Granted
  <2> QED BY <1>2, <1>3, <2>1
<1>4. ASSUME MayCall, Asks("none", FALSE), Leaving(stack) PROVE Unspoilt' /\ Granted'
  <2>1. stack # <<>> => asked' = asked /\ (asked.to # "none" => stack[Len(stack)].op = asked.to)
    BY <1>1, <1>4 DEF Unspoilt
  <2>2. stack = <<>> => asked'.to = "none"
    BY <1>1, <1>4
  <2> QED BY <1>4, <2>1, <2>2 DEF Leaving, Unspoilt, Granted
<1>5. ASSUME MayCall, Asks("none", FALSE), eng.state # "closed"
      PROVE  Orderly(stack, r.state) /\ (stack # <<>> => stack[1].op # "report")
  <2>1. CASE stack = <<>>
    BY <1>0, <1>5, <2>1 DEF Orderly, Backed, Waiting
  <2>2. CASE stack # <<>>
    <3>1. Unspoilt /\ stack[1].op = "script"
      BY <1>1, <1>5, <2>2
    <3> QED BY <1>0, <2>2, <3>1 DEF Unspoilt
  <2> QED BY <2>1, <2>2
<1>6. ASSUME NEW s \in States, CallSetScriptState(s) PROVE Unspoilt' /\ Granted'
  <2>1. stack = <<>>
    BY <1>6 DEF CallSetScriptState, Asks
  <2> QED BY <1>6, <2>1, CallFromOutside
<1>7. CASE CallClose \/ SetScriptSite
  <2>1. MayCall /\ Asks("none", TRUE)
    BY <1>7 DEF CallClose, SetScriptSite
  <2>2. stack = <<>>
    BY <1>1, <2>1
  <2>3. Close(eng) \in Engines /\ Reset(eng) \in Engines
    BY <1>0, MethodTypes
  <2> QED BY <1>2, <1>7, <2>1, <2>2, <2>3 DEF CallClose, SetScriptSite
<1>8. ASSUME NEW i \in Names, AddNamedItem(i) PROVE Unspoilt' /\ Granted'
  <2>1. MayCall /\ Asks("none", TRUE)
    BY <1>8 DEF AddNamedItem
  <2>2. stack = <<>>
    BY <1>1, <2>1
  <2>3. [eng EXCEPT !.items = @ \cup {i}] \in Engines
    BY <1>0 DEF Engines
  <2> QED BY <1>0, <1>2, <1>8, <2>1, <2>2, <2>3 DEF AddNamedItem
<1>9. ASSUME NEW i \in Names, AddScriptlet(i) PROVE Unspoilt' /\ Granted'
  <2> DEFINE e == [eng EXCEPT !.scriptlets = @ \cup {i}]
  <2>1. MayCall /\ Asks("none", FALSE)
    BY <1>9 DEF AddScriptlet
  <2>2. e \in Engines /\ e.items = eng.items /\ e.registered = eng.registered /\ e.state = eng.state
    BY <1>0 DEF Engines
  <2>3. Leaves(e, <<>>, stack, "none") \/ Leaves(eng, <<>>, stack, "other")
    BY <1>9 DEF AddScriptlet
  <2> HIDE DEF e
  <2> QED BY <1>0, <1>3, <2>1, <2>2, <2>3
<1>10. ASSUME NEW i \in Names, ProcessScriptItemEvent(i) PROVE Unspoilt' /\ Granted'
  <2>1. MayCall /\ Asks("none", FALSE) /\ eng.state # "closed"
    BY <1>10 DEF ProcessScriptItemEvent, Sound
  <2>2. Leaving(stack)
    BY <1>0, <1>5, <1>10, <2>1, HandlerKeeps, BeginKeeps DEF ProcessScriptItemEvent, r
  <2> QED BY <1>4, <2>1, <2>2
<1>11. ASSUME NEW b \in Blocks, NEW w \in BOOLEAN, ParseScriptText(b, w)
       PROVE  Unspoilt' /\ Granted'
  <2> DEFINE e == [eng EXCEPT !.blocks = @ \cup {b}]
  <2>1. MayCall /\ Asks("none", FALSE)
    BY <1>11 DEF ParseScriptText
  <2>2. e \in Engines /\ e.items = eng.items /\ e.registered = eng.registered /\ e.state = eng.state
    BY <1>0 DEF Engines
  <2>3. \/ Leaves(eng, <<>>, stack, "other")
        \/ Leaves(e, <<>>, stack, "none")
        \/ eng.site /\ HandleException("script", r, stack)
        \/ eng.site /\ BeginSection({b}, r, stack)
    BY <1>11 DEF ParseScriptText, r
  <2> HIDE DEF e
  <2>4. CASE Leaves(eng, <<>>, stack, "other") \/ Leaves(e, <<>>, stack, "none")
    BY <1>0, <1>3, <2>1, <2>2, <2>4
  <2>5. CASE eng.site /\ (HandleException("script", r, stack) \/ BeginSection({b}, r, stack))
    <3>1. eng.state # "closed"
      BY <2>5 DEF Sound
    <3>2. Leaving(stack)
      BY <1>0, <1>5, <2>1, <2>5, <3>1, HandlerKeeps, BeginKeeps
    <3> QED BY <1>4, <2>1, <3>2
  <2> QED BY <2>3, <2>4, <2>5
<1> QED BY <1>6, <1>7, <1>8, <1>9, <1>10, <1>11 DEF HostCalls

LEMMA UndisturbedSteps ==
  ASSUME IInv, Undisturbed, EngineGoesOn PROVE Undisturbed'
<1> USE DEF IInv
<1>0. eng \in Engines /\ stack \in Seq(Frames) /\ Typed /\ asked.to \in States \cup {"none"}
  BY DEF Typed, History
<1>00. meddled' = meddled
  BY DEF EngineGoesOn, DoExecutePendingScripts, StateIsStarted, StateIsConnected, RaiseReported,
     ScriptReturns, ScriptRaises, ScriptPasses, ScriptCatches, Unwind, HostGets, EndSection
<1> SUFFICES ASSUME ~meddled PROVE Unspoilt' /\ Granted'
  BY <1>00 DEF Undisturbed
<1>1. Unspoilt
  BY DEF Undisturbed
<1>2. stack # <<>> =>
        /\ Tail(stack) \in Seq(Frames) /\ Orderly(Tail(stack), eng.state)
        /\ eng.items \subseteq eng.registered /\ eng.state # "closed" /\ eng.site
        /\ Tail(stack) # <<>> => Tail(stack)[Len(Tail(stack))].op = stack[Len(stack)].op
        /\ Tail(stack) = <<>> => stack[Len(stack)].op = stack[1].op
        /\ Tail(stack) # <<>> /\ Tail(stack)[1].op = "report" => stack[1].op = "connected"
        /\ asked.to # "none" => stack[Len(stack)].op = asked.to
  BY <1>0, <1>1, PopOrderly DEF Unspoilt, Orderly, Sound
\* A frame that ends with the engine e and the exception x.
<1>3. ASSUME stack # <<>>, asked' = asked, NEW e \in Engines, NEW x,
             Leaves(e, <<>>, Tail(stack), x), e.items \subseteq e.registered,
             Orderly(Tail(stack), e.state),
             x = "none" => e.state = stack[1].op \/ stack[1].op \notin States,
             x = "none" /\ stack[1].op = "connected" => e.state = "connected"
      PROVE  Unspoilt' /\ Granted'
  <2>1. /\ eng'.items = e.items /\ eng'.registered = e.registered /\ eng'.state = e.state
        /\ exc' = x /\ Orderly(stack', e.state) /\ (stack' = <<>> <=> Tail(stack) = <<>>)
        /\ Tail(stack) # <<>> => /\ stack'[1].op = Tail(stack)[1].op
                                 /\ stack'[Len(stack')].op = Tail(stack)[Len(Tail(stack))].op
    BY <1>2, <1>3, LeavesOrderly
  <2>2. Unspoilt'
    BY <1>2, <1>3, <2>1 DEF Unspoilt
  <2>3. Granted'
    <3> SUFFICES ASSUME stack' = <<>>, x = "none", asked.to # "none" PROVE e.state = asked.to
      BY <1>3, <2>1 DEF Granted
    <3>1. asked.to = stack[1].op
      BY <1>2, <1>3, <2>1
    <3> QED BY <1>0, <1>3, <3>1
  <2> QED BY <2>2, <2>3
\* A frame that stays, or ends with code that runs above those below it.
<1>4. ASSUME asked' = asked, NEW base \in Seq(Frames), Leaving(base),
             asked.to # "none" => base # <<>> /\ base[Len(base)].op = asked.to
      PROVE  Unspoilt' /\ Granted'
  BY <1>4 DEF Leaving, Unspoilt, Granted
<1>5. CASE DoExecutePendingScripts
  <2>1. /\ stack # <<>> /\ stack[1].op = "pending" /\ asked' = asked /\ stack[1] \in Frames
        /\ Orderly(stack, eng.state) /\ eng.site
    BY <1>0, <1>1, <1>2, <1>5 DEF DoExecutePendingScripts, Top, Unspoilt
  <2>2. CASE Leaves(eng, <<>>, Tail(stack), "none")
    BY <1>0, <1>2, <1>3, <2>1, <2>2 DEF States
  <2>3. CASE HandleException("script", eng, stack)
    <3>1. Leaving(stack)
      BY <1>0, <1>2, <2>1, <2>3, HandlerKeeps
    <3> QED BY <1>0, <1>2, <1>4, <2>1, <3>1
  <2>4. ASSUME NEW k \in stack[1].at .. Len(parsed), NEW bs,
               BeginSection(bs, eng, [stack EXCEPT ![1].at = k + 1])
        PROVE  Unspoilt' /\ Granted'
    <3> DEFINE base == [stack EXCEPT ![1].at = k + 1]
    <3>1. base \in Seq(Frames) /\ SameOps(base, stack)
      <4>1. stack[1] \in [op : {"pending"}, at : Nat \ {0}, live : BOOLEAN, list : SUBSET Blocks]
        BY <2>1 DEF Frames
      <4>2. [stack[1] EXCEPT !.at = k + 1] \in Frames /\ [stack[1] EXCEPT !.at = k + 1].op = "pending"
        <5>1. k + 1 \in Nat \ {0}
          BY <4>1
        <5> QED BY <4>1, <5>1 DEF Frames
      <4> QED BY <1>0, <2>1, <4>2 DEF SameOps
    <3>2. BeginSection(bs, eng, base)
      BY <2>4
    <3> HIDE DEF base
    <3>3. /\ Orderly(base, eng.state) /\ base # <<>> /\ base[1].op = "pending"
          /\ base[Len(base)].op = stack[Len(stack)].op
      BY <1>0, <2>1, <3>1, SameOrderly
    <3>4. Leaving(base)
      BY <1>0, <1>2, <2>1, <3>1, <3>2, <3>3, BeginKeeps
    <3> QED BY <1>2, <1>4, <2>1, <3>1, <3>3, <3>4
  <2> QED BY <1>5, <2>1, <2>2, <2>3, <2>4 DEF DoExecutePendingScripts
<1>6. CASE StateIsStarted
  <2> DEFINE e == ChangeScriptState(eng, "started")
  <2>1. stack # <<>> /\ stack[1].op = "started" /\ asked' = asked /\ Leaves(e, <<>>, Tail(stack), "none")
    BY <1>6 DEF StateIsStarted, Top
  <2>2. e \in Engines /\ e.state = "started" /\ e.items = eng.items /\ e.registered = eng.registered
    BY <1>0 DEF ChangeScriptState, Engines, States
  <2> HIDE DEF e
  <2>3. Orderly(Tail(stack), "started")
    BY <1>2, <2>1 DEF Orderly, Waiting
  <2> QED BY <1>2, <1>3, <2>1, <2>2, <2>3
<1>7. CASE StateIsConnected
  <2>1. stack # <<>> /\ stack[1].op = "connected" /\ asked' = asked
    BY <1>7 DEF StateIsConnected, Top
  <2>2. eng.state \in {"started", "connected"}
    <3>1. Orderly(stack, eng.state) /\ 1 \in 1 .. Len(stack)
      BY <1>0, <1>1, <2>1 DEF Unspoilt
    <3> QED BY <2>1, <3>1 DEF Orderly, Waiting
  <2> DEFINE e == IF eng.state = "started" THEN Connect(eng) ELSE eng
  <2>3. Leaves(e, <<>>, Tail(stack), "none")
    BY <1>7 DEF StateIsConnected
  <2>4. e \in Engines /\ e.state = "connected" /\ e.items \subseteq e.registered
    <3>1. Connect(eng) \in Engines
      BY <1>0, MethodTypes
    <3>2. Connect(eng).state = "connected" /\ Connect(eng).items \subseteq Connect(eng).registered
      BY <1>0 DEF Connect, RegisterNewNamedItems, ChangeScriptState, Engines
    <3> QED BY <1>0, <1>2, <2>1, <2>2, <3>1, <3>2
  <2> HIDE DEF e
  <2>5. Orderly(Tail(stack), "connected")
    BY <1>2, <2>1 DEF Orderly, Waiting
  <2> QED BY <1>3, <2>1, <2>3, <2>4, <2>5
<1>8. CASE RaiseReported \/ Unwind
  <2>1. PICK x \in Errors : stack # <<>> /\ asked' = asked /\ Leaves(eng, <<>>, Tail(stack), x)
    <3>1. RaiseReported => stack # <<>> /\ stack[1] \in Frames /\ stack[1].op = "report"
      BY <1>0 DEF RaiseReported, Top
    <3>2. RaiseReported => stack[1].as \in Errors
      BY <3>1 DEF Frames
    <3>3. Unwind => exc \in Errors
      BY DEF Unwind, Typed
    <3> QED BY <1>8, <3>2, <3>3 DEF RaiseReported, Unwind, Top
  <2> QED BY <1>0, <1>2, <1>3, <2>1 DEF Errors
<1>9. ASSUME NEW kind \in Errors \cup {"none", "script"}, EndSection(kind)
      PROVE  Unspoilt' /\ Granted'
  <2>1. stack # <<>> /\ stack[1].op = "script" /\ asked' = asked
    BY <1>9 DEF EndSection
  <2>2. ASSUME NEW x, Leaves(eng, <<>>, Tail(stack), x) PROVE Unspoilt' /\ Granted'
    BY <1>0, <1>2, <1>3, <2>1, <2>2 DEF States
  <2>3. CASE HandleException("script", eng, Tail(stack))
    <3>1. Leaving(Tail(stack))
      BY <1>0, <1>2, <2>1, <2>3, HandlerKeeps
    <3>2. asked.to # "none" => Tail(stack) # <<>> /\ Tail(stack)[Len(Tail(stack))].op = asked.to
      BY <1>0, <1>2, <2>1 DEF States
    <3> QED BY <1>2, <1>4, <2>1, <3>1, <3>2
  <2> QED BY <1>2, <1>9, <2>1, <2>2, <2>3 DEF EndSection, HandleException
<1>10. CASE ScriptReturns \/ ScriptRaises \/ ScriptPasses
  <2>1. ScriptReturns => \E kind \in Errors \cup {"none", "script"} : EndSection(kind)
    BY DEF ScriptReturns
  <2>2. ScriptRaises => \E kind \in Errors \cup {"none", "script"} : EndSection(kind)
    BY DEF ScriptRaises, Errors
  <2>3. ScriptPasses => \E kind \in Errors \cup {"none", "script"} : EndSection(kind)
    BY DEF ScriptPasses, Errors
  <2> QED BY <1>9, <1>10, <2>1, <2>2, <2>3
<1>11. CASE ScriptCatches
  BY <1>1, <1>11 DEF ScriptCatches, Unspoilt, Granted
<1>12. CASE HostGets
  <2>1. asked'.failed /\ stack' = <<>>
    BY <1>12 DEF HostGets, History
  <2> QED BY <2>1 DEF Unspoilt, Granted
<1> QED BY <1>5, <1>6, <1>7, <1>8, <1>10, <1>11, <1>12 DEF EngineGoesOn

\* COMScript.SetScriptState and HandleException: as long as script code does not change
\* the engine itself, the host gets the state it asked for, script code sees all items
\* of the host, and an error of a script does not end the events.
THEOREM SpecUnlessMeddled == Spec => []UnlessMeddled
<1>1. Init => Undisturbed
  BY DEF Init, Undisturbed, Unspoilt, Granted
<1>2. IInv /\ Undisturbed /\ [Next]_vars => Undisturbed'
  <2> SUFFICES ASSUME IInv, Undisturbed, [Next]_vars PROVE Undisturbed'
    OBVIOUS
  <2>1. CASE UNCHANGED vars
    BY <2>1 DEF vars, Undisturbed, Unspoilt, Granted
  <2> QED BY <2>1, UndisturbedCalls, UndisturbedSteps DEF Next
<1>3. IInv /\ Undisturbed => UnlessMeddled
  <2> SUFFICES ASSUME IInv, Undisturbed, ~meddled PROVE Granted /\ ItemsVisible /\ FurtherEvents
    BY DEF UnlessMeddled
  <2> QED BY DEF Undisturbed, Unspoilt, ItemsVisible, FurtherEvents, Top
<1> QED BY <1>1, <1>2, <1>3, IInvHolds, PTL DEF Spec
=============================================================================
