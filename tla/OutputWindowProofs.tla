-------------------------- MODULE OutputWindowProofs --------------------------
(***************************************************************************)
(* Proofs about the output window, for any number of threads, messages and *)
(* flushes inside one another.                                             *)
(***************************************************************************)
EXTENDS OutputWindow, FiniteSetTheorems, SequenceTheorems, TLAPS

(***************************************************************************)
(* Sequences.                                                              *)
(***************************************************************************)
LEMMA FrontFacts ==
  ASSUME NEW S, NEW s \in Seq(S), s # <<>>
  PROVE  /\ Len(s) \in Nat \ {0}
         /\ Front(s) \in Seq(S) /\ Len(Front(s)) = Len(s) - 1
         /\ \A i \in 1..Len(s) - 1 : Front(s)[i] = s[i]
<1>1. Len(s) \in Nat \ {0}
  OBVIOUS
<1>2. \A i \in 1..Len(s) - 1 : s[i] \in S
  BY <1>1
<1>3. /\ SubSeq(s, 1, Len(s) - 1) \in Seq(S)
      /\ Len(SubSeq(s, 1, Len(s) - 1)) = Len(s) - 1
      /\ \A i \in 1..Len(s) - 1 : SubSeq(s, 1, Len(s) - 1)[i] = s[i]
  <2> DEFINE n == Len(s) - 1
  <2>1. n \in Nat /\ 1 \in Int /\ n \in Int /\ \A i \in 1..n : s[i] \in S
    BY <1>1, <1>2
  <2> HIDE DEF n
  <2>2. /\ SubSeq(s, 1, n) \in Seq(S)
        /\ Len(SubSeq(s, 1, n)) = IF 1 =< n THEN n - 1 + 1 ELSE 0
        /\ \A i \in 1..n - 1 + 1 : SubSeq(s, 1, n)[i] = s[1 + i - 1]
    BY ONLY <2>1, SubSeqProperties, SMTT(20)
  <2>3. /\ SubSeq(s, 1, n) \in Seq(S) /\ Len(SubSeq(s, 1, n)) = n
        /\ \A i \in 1..n : SubSeq(s, 1, n)[i] = s[i]
    BY <2>1, <2>2
  <2> QED BY <2>3 DEF n
<1> QED BY <1>1, <1>3 DEF Front

LEMMA PrefixFacts ==
  ASSUME NEW S, NEW s \in Seq(S), NEW t \in Seq(S)
  PROVE  IsPrefix(s, s) /\ IsPrefix(s, s \o t)
<1>1. SubSeq(s \o t, 1, Len(s)) = SubSeq(s, 1, Len(s)) /\ Len(s) =< Len(s \o t)
  OBVIOUS
<1> QED BY <1>1 DEF IsPrefix

(***************************************************************************)
(* The flushes that are under way.                                         *)
(***************************************************************************)
Depth(t) == Len(flushes[t])

LEMMA TopFacts ==
  ASSUME flushes \in [Threads -> Seq(Flush)], NEW t \in Threads
  PROVE  /\ Depth(t) \in Nat /\ DOMAIN flushes[t] = 1..Depth(t)
         /\ flushes[t] \in Seq(Flush)
         /\ \A i \in 1..Depth(t) : flushes[t][i] \in Flush
         /\ ~Quiet(t) => /\ Depth(t) \in 1..Depth(t) /\ Top(t) = flushes[t][Depth(t)]
                         /\ Top(t) \in Flush
<1>1. flushes[t] \in Seq(Flush)
  OBVIOUS
<1>2. Depth(t) \in Nat /\ DOMAIN flushes[t] = 1..Depth(t)
  BY <1>1 DEF Depth
<1>3. \A i \in 1..Depth(t) : flushes[t][i] \in Flush
  BY <1>1, <1>2
<1>4. ~Quiet(t) => Depth(t) # 0
  BY <1>1 DEF Depth, Quiet
<1> QED BY <1>1, <1>2, <1>3, <1>4 DEF Top, Depth

LEMMA FlushFacts ==
  ASSUME NEW f \in Flush
  PROVE  /\ f.by \in {"idle", "call"} /\ f.stage \in Stages /\ f.items \in Seq(Messages)
         /\ f.rc \in BOOLEAN
BY DEF Flush

\* The innermost flush of a thread goes on.
Moves(t, f) ==
  /\ flushes' \in [Threads -> Seq(Flush)]
  /\ \A s \in Threads : Depth(s)' = Depth(s)
  /\ \A s \in Threads : \A i \in 1..Depth(s) :
        flushes'[s][i] = IF s = t /\ i = Depth(t) THEN f ELSE flushes[s][i]

LEMMA MoveFacts ==
  ASSUME flushes \in [Threads -> Seq(Flush)], NEW t \in Threads, ~Quiet(t),
         NEW f \in Flush, Become(t, f)
  PROVE  Moves(t, f)
<1>1. Depth(t) \in 1..Depth(t) /\ flushes[t] \in Seq(Flush) /\ DOMAIN flushes[t] = 1..Depth(t)
  BY TopFacts
<1>2. flushes' = [flushes EXCEPT ![t] = [flushes[t] EXCEPT ![Depth(t)] = f]]
  BY DEF Become, Depth
<1>3. [flushes[t] EXCEPT ![Depth(t)] = f] \in Seq(Flush)
  BY <1>1
<1>4. /\ flushes' \in [Threads -> Seq(Flush)]
      /\ \A s \in Threads : s # t => flushes'[s] = flushes[s]
      /\ flushes'[t] = [flushes[t] EXCEPT ![Depth(t)] = f]
  BY <1>2, <1>3
<1>5. /\ Len(flushes'[t]) = Depth(t)
      /\ \A i \in 1..Depth(t) : flushes'[t][i] = IF i = Depth(t) THEN f ELSE flushes[t][i]
  BY <1>1, <1>4 DEF Depth
<1> QED BY <1>4, <1>5 DEF Moves, Depth

\* The innermost flush of a thread ends.
Pops(t) ==
  /\ flushes' \in [Threads -> Seq(Flush)]
  /\ \A s \in Threads : Depth(s)' = IF s = t THEN Depth(s) - 1 ELSE Depth(s)
  /\ \A s \in Threads : \A i \in 1..Depth(s)' : flushes'[s][i] = flushes[s][i]

LEMMA PopFacts ==
  ASSUME flushes \in [Threads -> Seq(Flush)], NEW t \in Threads, ~Quiet(t), Pop(t)
  PROVE  Pops(t)
<1>1. flushes[t] \in Seq(Flush) /\ flushes[t] # <<>>
  BY DEF Quiet
<1>2. /\ Front(flushes[t]) \in Seq(Flush) /\ Len(Front(flushes[t])) = Depth(t) - 1
      /\ \A i \in 1..Depth(t) - 1 : Front(flushes[t])[i] = flushes[t][i]
  BY <1>1, FrontFacts DEF Depth
<1>3. /\ flushes' \in [Threads -> Seq(Flush)]
      /\ \A s \in Threads : s # t => flushes'[s] = flushes[s]
      /\ flushes'[t] = Front(flushes[t])
  BY <1>2 DEF Pop
<1> QED BY <1>2, <1>3 DEF Pops, Depth

\* Another flush of a thread begins.
Starts(by) == [by |-> by, stage |-> "enter", items |-> <<>>, rc |-> FALSE]
Pushes(t, by) ==
  /\ flushes' \in [Threads -> Seq(Flush)]
  /\ \A s \in Threads : Depth(s)' = IF s = t THEN Depth(s) + 1 ELSE Depth(s)
  /\ \A s \in Threads : \A i \in 1..Depth(s) : flushes'[s][i] = flushes[s][i]
  /\ flushes'[t][Depth(t) + 1] = Starts(by)

LEMMA PushFacts ==
  ASSUME flushes \in [Threads -> Seq(Flush)], NEW t \in Threads,
         NEW by \in {"idle", "call"}, Enter(t, by)
  PROVE  Pushes(t, by)
<1>0. "enter" \in Stages /\ <<>> \in Seq(Messages) /\ FALSE \in BOOLEAN
  BY DEF Stages
<1>1. Starts(by) \in Flush /\ flushes[t] \in Seq(Flush)
  BY <1>0 DEF Starts, Flush
<1>2. flushes' = [flushes EXCEPT ![t] = Append(flushes[t], Starts(by))]
  BY DEF Enter, Starts
<1>3. /\ Append(flushes[t], Starts(by)) \in Seq(Flush)
      /\ Len(Append(flushes[t], Starts(by))) = Depth(t) + 1
      /\ \A i \in 1..Depth(t) : Append(flushes[t], Starts(by))[i] = flushes[t][i]
      /\ Append(flushes[t], Starts(by))[Depth(t) + 1] = Starts(by)
  BY <1>1 DEF Depth
<1>4. /\ flushes' \in [Threads -> Seq(Flush)]
      /\ \A s \in Threads : s # t => flushes'[s] = flushes[s]
      /\ flushes'[t] = Append(flushes[t], Starts(by))
  BY <1>2, <1>3
<1> QED BY <1>3, <1>4 DEF Pushes, Depth

\* The flushes one by one, as pairs of a thread and a depth.
Frames == {p \in Threads \X Nat : p[2] \in 1..Depth(p[1])}
Frame(p) == flushes[p[1]][p[2]]
Items(p) == Frame(p).items
Inner(t) == <<t, Depth(t)>>

(***************************************************************************)
(* The types.                                                              *)
(***************************************************************************)

\* A worker has one flush at most.  Only the outermost flush of the main thread
\* is one of the idle handler, which has not been interrupted.
FlushInv ==
  /\ flushes \in [Threads -> Seq(Flush)]
  /\ \A t \in Threads : Depth(t) =< MaxDepth
  /\ \A w \in Workers : Depth(w) =< 1
  /\ \A t \in Threads : \A i \in 1..Depth(t) :
        flushes[t][i].by = "idle" => t = Main /\ i = 1 /\ interruptCount = 0
  /\ \A t \in Threads : \A i \in 1..Depth(t) :
        flushes[t][i].stage = "enter" => flushes[t][i].items = <<>>

\* The text is in the window or saved.
WindowInv == /\ view = "none" => text = <<>>
             /\ view = "open" => killBuffer = <<>>

Inv == TypeOK /\ FlushInv /\ WindowInv /\ (interruptCount = 1 => ~handlers)

LEMMA MovedInv ==
  ASSUME FlushInv, NEW t \in Threads, ~Quiet(t), NEW f \in Flush, Moves(t, f),
         f.by = Top(t).by, f.stage = "enter" => f.items = <<>>, UNCHANGED interruptCount
  PROVE  FlushInv'
<1>1. Depth(t) \in 1..Depth(t) /\ Top(t) = flushes[t][Depth(t)]
  BY TopFacts DEF FlushInv
<1>2. \A s \in Threads : Depth(s)' = Depth(s)
  BY DEF Moves
<1>3. ASSUME NEW s \in Threads, NEW i \in 1..Depth(s)'
      PROVE  /\ flushes'[s][i].by = "idle" => s = Main /\ i = 1 /\ interruptCount' = 0
             /\ flushes'[s][i].stage = "enter" => flushes'[s][i].items = <<>>
  <2>1. i \in 1..Depth(s)
    BY <1>2
  <2>2. flushes'[s][i] = IF s = t /\ i = Depth(t) THEN f ELSE flushes[s][i]
    BY <2>1 DEF Moves
  <2>3. CASE s = t /\ i = Depth(t)
    <3>1. flushes'[s][i] = f
      BY <2>2, <2>3
    <3>2. f.by = "idle" => flushes[s][i].by = "idle"
      BY <1>1, <2>3
    <3> QED BY <2>1, <3>1, <3>2 DEF FlushInv
  <2>4. CASE ~(s = t /\ i = Depth(t))
    <3>1. flushes'[s][i] = flushes[s][i]
      BY ONLY <2>2, <2>4
    <3> QED BY <2>1, <3>1 DEF FlushInv
  <2> QED BY <2>3, <2>4
<1>4. flushes' \in [Threads -> Seq(Flush)]
  BY DEF Moves
<1>5. \A w \in Workers : w \in Threads
  BY DEF Threads
<1> QED BY <1>2, <1>3, <1>4, <1>5 DEF FlushInv

LEMMA PoppedInv ==
  ASSUME FlushInv, NEW t \in Threads, ~Quiet(t), Pops(t),
         interruptCount' \in {0, interruptCount} \/ Top(t).by = "idle"
  PROVE  FlushInv' /\ Depth(t)' \in Nat
<1>1. Depth(t) \in 1..Depth(t) /\ Top(t) = flushes[t][Depth(t)] /\ Depth(t) \in Nat
  BY TopFacts DEF FlushInv
<1>2. \A s \in Threads : Depth(s)' = IF s = t THEN Depth(s) - 1 ELSE Depth(s)
  BY DEF Pops
<1>3. \A s \in Threads : Depth(s) \in Nat
  BY TopFacts DEF FlushInv
<1>4. ASSUME NEW s \in Threads, NEW i \in 1..Depth(s)'
      PROVE  /\ flushes'[s][i].by = "idle" => s = Main /\ i = 1 /\ interruptCount' = 0
             /\ flushes'[s][i].stage = "enter" => flushes'[s][i].items = <<>>
  <2>1. i \in 1..Depth(s) /\ ~(s = t /\ i = Depth(t))
    BY <1>2, <1>3
  <2>2. flushes'[s][i] = flushes[s][i]
    BY DEF Pops
  <2>3. flushes'[s][i].stage = "enter" => flushes'[s][i].items = <<>>
    BY <2>1, <2>2 DEF FlushInv
  <2>4. ASSUME flushes'[s][i].by = "idle"
        PROVE  s = Main /\ i = 1 /\ interruptCount = 0
    BY <2>1, <2>2, <2>4 DEF FlushInv
  <2>5. ASSUME flushes'[s][i].by = "idle" PROVE interruptCount' = 0
    <3>1. CASE interruptCount' \in {0, interruptCount}
      BY <2>4, <2>5, <3>1
    <3>2. CASE Top(t).by = "idle"
      <4>1. t = Main /\ Depth(t) = 1
        BY <1>1, <3>2 DEF FlushInv
      <4> QED BY <2>1, <2>4, <2>5, <4>1
    <3> QED BY <3>1, <3>2
  <2> QED BY <2>3, <2>4, <2>5
<1>5. flushes' \in [Threads -> Seq(Flush)]
  BY DEF Pops
<1>6. \A s \in Threads : Depth(s)' =< Depth(s)
  BY <1>2, <1>3
<1>7. /\ \A s \in Threads : Depth(s)' =< MaxDepth
      /\ \A w \in Workers : Depth(w)' =< 1
  <2>1. \A s \in Threads : Depth(s)' \in Int
    BY <1>2, <1>3
  <2>2. MaxDepth \in Nat /\ \A w \in Workers : w \in Threads
    BY WindowAssumption DEF Threads
  <2> QED BY <1>3, <1>6, <2>1, <2>2 DEF FlushInv
<1>8. Depth(t)' \in Nat
  BY <1>1, <1>2
<1> QED BY <1>4, <1>5, <1>7, <1>8 DEF FlushInv

LEMMA PushedInv ==
  ASSUME FlushInv, NEW t \in Threads, NEW by \in {"idle", "call"}, Pushes(t, by),
         Depth(t) < MaxDepth, t \in Workers => Quiet(t),
         by = "idle" => t = Main /\ Quiet(t) /\ interruptCount = 0,
         UNCHANGED interruptCount
  PROVE  FlushInv'
<1>1. \A s \in Threads : Depth(s) \in Nat
  BY TopFacts DEF FlushInv
<1>2. \A s \in Threads : Depth(s)' = IF s = t THEN Depth(s) + 1 ELSE Depth(s)
  BY DEF Pushes
<1>3. Quiet(t) => Depth(t) = 0
  BY DEF Quiet, Depth
<1>4. Starts(by).by = by /\ Starts(by).items = <<>>
  BY DEF Starts
<1>5. ASSUME NEW s \in Threads, NEW i \in 1..Depth(s)'
      PROVE  /\ flushes'[s][i].by = "idle" => s = Main /\ i = 1 /\ interruptCount' = 0
             /\ flushes'[s][i].stage = "enter" => flushes'[s][i].items = <<>>
  <2>1. CASE i \in 1..Depth(s)
    <3>1. flushes'[s][i] = flushes[s][i]
      BY <2>1 DEF Pushes
    <3> QED BY <2>1, <3>1 DEF FlushInv
  <2>2. CASE s = t /\ i = Depth(t) + 1
    <3>1. flushes'[s][i] = Starts(by)
      BY <2>2 DEF Pushes
    <3> QED BY <1>3, <1>4, <2>2, <3>1
  <2> QED BY <1>1, <1>2, <2>1, <2>2
<1>6. /\ \A s \in Threads : Depth(s)' =< MaxDepth
      /\ \A w \in Workers : Depth(w)' =< 1
  <2>1. MaxDepth \in Nat /\ \A w \in Workers : w \in Threads
    BY WindowAssumption DEF Threads
  <2>2. \A s \in Threads : Depth(s)' =< MaxDepth
    BY <1>1, <1>2, <2>1 DEF FlushInv
  <2>3. ASSUME NEW w \in Workers PROVE Depth(w)' =< 1
    <3>1. CASE w = t
      <4>1. Depth(t) = 0
        BY <1>3, <2>3, <3>1
      <4> QED BY <1>2, <2>1, <3>1, <4>1
    <3>2. CASE w # t
      <4>1. Depth(w)' = Depth(w)
        BY <1>2, <2>1, <2>3, <3>2
      <4> QED BY <2>3, <4>1 DEF FlushInv
    <3> QED BY <3>1, <3>2
  <2> QED BY <2>2, <2>3
<1>7. flushes' \in [Threads -> Seq(Flush)]
  BY DEF Pushes
<1> QED BY <1>5, <1>6, <1>7 DEF FlushInv

LEMMA InvInit == Init => Inv
<1> SUFFICES ASSUME Init PROVE Inv
  OBVIOUS
<1>1. /\ flushes = [t \in Threads |-> <<>>] /\ <<>> \in Seq(Flush)
      /\ \A t \in Threads : flushes[t] = <<>> /\ Depth(t) = 0
  BY DEF Init, Depth
<1>2. /\ outputQueue \in Seq(Messages) /\ text \in Seq(Messages)
      /\ killBuffer \in Seq(Messages)
  BY DEF Init
<1>3. /\ written \in 0..MaxMessages /\ interruptCount \in 0..1 /\ view \in {"none", "open"}
  BY WindowAssumption DEF Init
<1>4. /\ mail \in BOOLEAN /\ idle \in BOOLEAN /\ handlers \in BOOLEAN
      /\ idleHandlerSet \in BOOLEAN /\ bCreating \in BOOLEAN /\ chatty \in BOOLEAN
      /\ errorCantRecreate \in BOOLEAN /\ waking \in SUBSET Workers
      /\ missed \in BOOLEAN /\ raced \in BOOLEAN
      /\ lost \in SUBSET Messages /\ overtaken \in SUBSET Messages
  BY Zenon DEF Init
<1>5. flushes \in [Threads -> Seq(Flush)]
  BY <1>1
<1>6. \A t \in Threads : Len(flushes[t]) =< MaxDepth
  BY <1>1, WindowAssumption
<1>7. FlushInv
  <2>1. \A t \in Threads : Depth(t) =< MaxDepth
    BY <1>6 DEF Depth
  <2>2. \A w \in Workers : Depth(w) =< 1
    BY <1>1 DEF Threads
  <2>3. \A t \in Threads : 1..Depth(t) = {}
    BY <1>1
  <2> QED BY <1>5, <2>1, <2>2, <2>3 DEF FlushInv
<1>8. TypeOK
  BY <1>2, <1>3, <1>4, <1>5, <1>6, Zenon DEF TypeOK
<1>9. WindowInv /\ (interruptCount = 1 => ~handlers)
  BY DEF WindowInv, Init
<1> QED BY <1>7, <1>8, <1>9 DEF Inv

LEMMA PutTypes ==
  ASSUME TypeOK, Put
  PROVE  /\ outputQueue' \in Seq(Messages) /\ written' \in 0..MaxMessages
         /\ outputQueue' = Append(outputQueue, written + 1) /\ written + 1 \in Messages
BY WindowAssumption DEF TypeOK, Put, Messages

LEMMA PostTypes ==
  ASSUME TypeOK, Post
  PROVE  mail' \in BOOLEAN /\ missed' \in BOOLEAN
BY Zenon DEF TypeOK, Post

LEMMA EnterTypes ==
  ASSUME TypeOK, NEW t, NEW by, Enter(t, by)
  PROVE  raced' \in BOOLEAN
BY Zenon DEF Enter

LEMMA MainFacts == Main \in Threads /\ Main \notin Workers /\ \A w \in Workers : w \in Threads
BY WindowAssumption DEF Threads

LEMMA PrintStep ==
  ASSUME Inv, PrintOnMain, idle' \in BOOLEAN,
         UNCHANGED <<waking, handlers, idleHandlerSet, interruptCount, chatty, window,
                     lost, overtaken>>
  PROVE  Inv'
<1>0. TypeOK /\ FlushInv
  BY DEF Inv
<1>1. UNCHANGED <<view, text, killBuffer, bCreating, errorCantRecreate>>
  BY DEF window
<1>2. outputQueue' \in Seq(Messages) /\ written' \in 0..MaxMessages
  <2>1. Put \/ UNCHANGED <<outputQueue, written>>
    BY DEF PrintOnMain
  <2> QED BY <1>0, <2>1, PutTypes DEF TypeOK
<1>3. mail' \in BOOLEAN /\ missed' \in BOOLEAN
  <2>1. Post \/ UNCHANGED <<mail, missed>>
    BY DEF PrintOnMain
  <2> QED BY <1>0, <2>1, PostTypes DEF TypeOK
<1>4. FlushInv' /\ raced' \in BOOLEAN
  <2>1. CASE Len(flushes[Main]) < MaxDepth /\ Enter(Main, "call")
    <3>1. Pushes(Main, "call") /\ Depth(Main) < MaxDepth
      BY <1>0, <2>1, MainFacts, PushFacts DEF FlushInv, Depth
    <3>2. FlushInv'
      BY <1>0, <3>1, MainFacts, PushedInv
    <3> QED BY <1>0, <2>1, <3>2, EnterTypes
  <2>2. CASE UNCHANGED <<flushes, raced>>
    BY <1>0, <2>2 DEF FlushInv, Depth, TypeOK
  <2> QED BY <2>1, <2>2 DEF PrintOnMain
<1>5. TypeOK'
  <2>1. flushes' \in [Threads -> Seq(Flush)] /\ \A t \in Threads : Len(flushes'[t]) =< MaxDepth
    BY <1>4 DEF FlushInv, Depth
  <2> QED BY <1>0, <1>1, <1>2, <1>3, <1>4, <2>1 DEF TypeOK
<1>6. WindowInv' /\ (interruptCount' = 1 => ~handlers')
  BY <1>1 DEF WindowInv, Inv
<1> QED BY <1>4, <1>5, <1>6 DEF Inv

\* A flush ends.
LEMMA ReturnFacts ==
  ASSUME Inv, NEW t \in Threads, ~Quiet(t), NEW rc \in BOOLEAN, Return(t, rc)
  PROVE  /\ Pops(t) /\ FlushInv' /\ idle' \in BOOLEAN /\ interruptCount' \in 0..1
         /\ interruptCount' = 1 => ~handlers'
         /\ interruptCount' \in {0, interruptCount}
         /\ UNCHANGED <<mail, handlers, idleHandlerSet, missed>>
<1>0. TypeOK /\ FlushInv
  BY DEF Inv
<1>1. Pops(t)
  BY <1>0, PopFacts DEF Return, FlushInv
<1>2. interruptCount' \in {0, interruptCount} /\ UNCHANGED <<mail, handlers, idleHandlerSet, missed>>
  BY Zenon DEF Return
<1>3. FlushInv'
  BY <1>0, <1>1, <1>2, PoppedInv
<1>4. idle' \in BOOLEAN
  BY <1>0, Zenon DEF Return, MoreWhen, TypeOK
<1>5. interruptCount' \in 0..1 /\ (interruptCount' = 1 => ~handlers')
  BY <1>0, <1>2 DEF TypeOK, Inv
<1> QED BY <1>1, <1>2, <1>3, <1>4, <1>5

LEMMA FailFacts ==
  ASSUME Inv, NEW t \in Threads, ~Quiet(t), Fail(t),
         interruptCount' = interruptCount \/ Top(t).by = "idle"
  PROVE  /\ Pops(t) /\ FlushInv' /\ idle' \in BOOLEAN /\ handlers' \in BOOLEAN
         /\ handlers' => handlers
         /\ UNCHANGED <<mail, idleHandlerSet, missed>>
<1>0. TypeOK /\ FlushInv
  BY DEF Inv
<1>1. Pops(t)
  BY <1>0, PopFacts DEF Fail, FlushInv
<1>2. FlushInv'
  BY <1>0, <1>1, PoppedInv
<1>3. idle' \in BOOLEAN /\ handlers' \in BOOLEAN /\ (handlers' => handlers)
  BY <1>0, Zenon DEF Fail, TypeOK
<1>4. UNCHANGED <<mail, idleHandlerSet, missed>>
  BY DEF Fail
<1> QED BY <1>1, <1>2, <1>3, <1>4

LEMMA GotoFacts ==
  ASSUME FlushInv, NEW t \in Threads, ~Quiet(t), NEW stage \in Stages, stage # "enter",
         Goto(t, stage)
  PROVE  /\ [Top(t) EXCEPT !.stage = stage] \in Flush
         /\ [Top(t) EXCEPT !.stage = stage].stage = stage
         /\ [Top(t) EXCEPT !.stage = stage].by = Top(t).by
         /\ [Top(t) EXCEPT !.stage = stage].items = Top(t).items
         /\ [Top(t) EXCEPT !.stage = stage].rc = Top(t).rc
         /\ Moves(t, [Top(t) EXCEPT !.stage = stage])
<1>1. Top(t) \in Flush
  BY TopFacts DEF FlushInv
<1>2. [Top(t) EXCEPT !.stage = stage] \in Flush
  BY <1>1 DEF Flush
<1>3. Become(t, [Top(t) EXCEPT !.stage = stage])
  BY DEF Goto
<1>4. Moves(t, [Top(t) EXCEPT !.stage = stage])
  BY <1>2, <1>3, MoveFacts DEF FlushInv
<1> QED BY <1>1, <1>2, <1>4 DEF Flush

LEMMA GotoInv ==
  ASSUME FlushInv, NEW t \in Threads, ~Quiet(t), NEW stage \in Stages, stage # "enter",
         Goto(t, stage), UNCHANGED interruptCount
  PROVE  FlushInv'
<1>1. /\ [Top(t) EXCEPT !.stage = stage] \in Flush
      /\ [Top(t) EXCEPT !.stage = stage].stage # "enter"
      /\ [Top(t) EXCEPT !.stage = stage].by = Top(t).by
      /\ Moves(t, [Top(t) EXCEPT !.stage = stage])
  BY GotoFacts
<1> QED BY <1>1, MovedInv

LEMMA DropTypes ==
  ASSUME TypeOK, FlushInv, NEW t \in Threads, ~Quiet(t), Drop(t)
  PROVE  lost' \in SUBSET Messages
<1>1. Top(t).items \in Seq(Messages)
  BY TopFacts, FlushFacts DEF FlushInv
<1> QED BY <1>1 DEF Drop, ToSet, TypeOK

\* The item that comes next.
NextItem == Head(outputQueue)
WithItem(t) == [Top(t) EXCEPT !.items = Append(@, NextItem)]
WithRc(t) == [Top(t) EXCEPT !.stage = "check", !.rc = ~Full(t)]

LEMMA TakeFacts ==
  ASSUME Inv, NEW t \in Threads, TakeItem(t)
  PROVE  /\ ~Quiet(t) /\ Top(t) \in Flush /\ Top(t).stage = "take"
         /\ outputQueue # <<>> /\ NextItem \in Messages
         /\ outputQueue' = Tail(outputQueue) /\ outputQueue' \in Seq(Messages)
         /\ WithItem(t) \in Flush /\ WithItem(t).stage = Top(t).stage
         /\ WithItem(t).by = Top(t).by
         /\ WithItem(t).items = Append(Top(t).items, NextItem)
         /\ Moves(t, WithItem(t))
<1>1. ~Quiet(t) /\ Top(t) \in Flush /\ Top(t).stage = "take" /\ outputQueue # <<>>
  BY TopFacts DEF TakeItem, At, Inv, FlushInv
<1>2. outputQueue \in Seq(Messages)
  BY DEF Inv, TypeOK
<1>3. /\ NextItem \in Messages
      /\ outputQueue' = Tail(outputQueue) /\ outputQueue' \in Seq(Messages)
  BY <1>1, <1>2 DEF TakeItem, Remaining, NextItem
<1>4. Append(Top(t).items, NextItem) \in Seq(Messages)
  BY <1>1, <1>3, FlushFacts
<1>5. /\ WithItem(t) \in Flush /\ WithItem(t).stage = Top(t).stage
      /\ WithItem(t).by = Top(t).by
      /\ WithItem(t).items = Append(Top(t).items, NextItem)
  BY <1>1, <1>4 DEF WithItem, Flush
<1>6. Become(t, WithItem(t))
  BY DEF TakeItem, WithItem, NextItem
<1>7. Moves(t, WithItem(t))
  BY <1>1, <1>5, <1>6, MoveFacts DEF Inv, FlushInv
<1> QED BY <1>1, <1>3, <1>5, <1>7

LEMMA CheckFacts ==
  ASSUME FlushInv, NEW t \in Threads, ~Quiet(t), Become(t, WithRc(t))
  PROVE  /\ WithRc(t) \in Flush /\ WithRc(t).stage = "check" /\ WithRc(t).rc = ~Full(t)
         /\ WithRc(t).by = Top(t).by /\ WithRc(t).items = Top(t).items
         /\ Moves(t, WithRc(t))
<1>1. Top(t) \in Flush /\ "check" \in Stages
  BY TopFacts DEF FlushInv, Stages
<1>2. Full(t) \in BOOLEAN
  BY DEF Full
<1>3. WithRc(t) \in Flush
  BY <1>1, <1>2 DEF WithRc, Flush
<1>4. /\ WithRc(t).stage = "check" /\ WithRc(t).rc = ~Full(t)
      /\ WithRc(t).by = Top(t).by /\ WithRc(t).items = Top(t).items
  BY <1>1 DEF WithRc, Flush
<1> QED BY <1>3, <1>4, MoveFacts DEF FlushInv

LEMMA FlushStep ==
  ASSUME Inv, NEW t \in Threads, QueueFlush(t) PROVE Inv'
<1>0. TypeOK /\ FlushInv /\ WindowInv
  BY DEF Inv
<1>1. ~Quiet(t)
  BY DEF QueueFlush, At, Begin, TakeItem, Taken, WindowIsThere, WindowIsGone, WindowIsNotToBe,
         BeginCreate, CreateSucceeds, CreateGivesUp, CreateRaises, PumpPaintMessages, WriteItems
<1>2. Top(t) \in Flush /\ Top(t).items \in Seq(Messages) /\ Top(t).rc \in BOOLEAN
  BY <1>0, <1>1, TopFacts, FlushFacts DEF FlushInv
<1>3. ASSUME FlushInv'
      PROVE  flushes' \in [Threads -> Seq(Flush)] /\ \A s \in Threads : Len(flushes'[s]) =< MaxDepth
  BY <1>3 DEF FlushInv, Depth
<1>4. TRUE \in BOOLEAN
  OBVIOUS
<1>5. ASSUME FlushInv', UNCHANGED <<outputQueue, written, waking, chatty, loop, window,
                                    lost, overtaken>>,
             raced' \in BOOLEAN
      PROVE  Inv'
  BY <1>0, <1>3, <1>5 DEF Inv, TypeOK, WindowInv, loop, window
<1>6. ASSUME NEW rc \in BOOLEAN, Return(t, rc),
             UNCHANGED <<outputQueue, written, waking, chatty, view, killBuffer, bCreating,
                         overtaken, raced>>,
             text' \in Seq(Messages), view = "none" => text' = text,
             errorCantRecreate' \in BOOLEAN, lost' \in SUBSET Messages
      PROVE  Inv'
  <2>1. /\ FlushInv' /\ idle' \in BOOLEAN /\ interruptCount' \in 0..1
        /\ interruptCount' = 1 => ~handlers'
        /\ UNCHANGED <<mail, handlers, idleHandlerSet, missed>>
    BY <1>1, <1>6, ReturnFacts
  <2>2. TypeOK'
    BY <1>0, <1>3, <1>6, <2>1 DEF TypeOK
  <2>3. WindowInv'
    BY <1>0, <1>6 DEF WindowInv
  <2> QED BY <2>1, <2>2, <2>3 DEF Inv
<1>7. ASSUME UNCHANGED loop PROVE UNCHANGED interruptCount
  BY <1>7 DEF loop
<1>8. CASE Begin(t)
  <2>1. UNCHANGED <<outputQueue, written, waking, chatty, window, history>>
    BY <1>8 DEF Begin
  <2>2. CASE Return(t, TRUE)
    BY <1>0, <1>4, <1>6, <2>1, <2>2 DEF window, history, TypeOK
  <2>3. CASE Goto(t, "take") /\ UNCHANGED loop
    <3>1. FlushInv'
      BY <1>0, <1>1, <1>7, <2>3, GotoInv DEF Stages
    <3> QED BY <1>0, <1>5, <2>1, <2>3, <3>1 DEF history, TypeOK
  <2> QED BY <1>8, <2>2, <2>3 DEF Begin
<1>9. CASE TakeItem(t)
  <2>1. /\ outputQueue' \in Seq(Messages)
        /\ WithItem(t) \in Flush /\ WithItem(t).stage = "take" /\ WithItem(t).by = Top(t).by
        /\ Moves(t, WithItem(t))
    BY <1>9, TakeFacts
  <2>2. /\ UNCHANGED <<written, waking, chatty, loop, window, lost, raced>>
        /\ overtaken' = overtaken \cup HeldBeside(t)
    BY <1>9 DEF TakeItem
  <2>3. FlushInv'
    BY <1>0, <1>1, <1>7, <2>1, <2>2, MovedInv
  <2>4. HeldBeside(t) \in SUBSET Messages
    <3>1. ASSUME NEW s \in Threads, NEW i \in 1..Depth(s)
          PROVE  ToSet(flushes[s][i].items) \in SUBSET Messages
      <4>1. flushes[s][i].items \in Seq(Messages)
        BY <1>0, TopFacts, FlushFacts DEF FlushInv
      <4> QED BY <4>1 DEF ToSet
    <3>2. Depth(t) \in Nat /\ \A i \in 1..Depth(t) - 1 : i \in 1..Depth(t)
      BY <1>0, TopFacts DEF FlushInv
    <3>3. \A s \in Threads : Held(s, Depth(s)) \in SUBSET Messages
      BY <3>1 DEF Held
    <3>4. Held(t, Depth(t) - 1) \in SUBSET Messages
      BY <3>1, <3>2 DEF Held
    <3> QED BY <3>3, <3>4 DEF HeldBeside, Depth
  <2>5. TypeOK'
    BY <1>0, <1>3, <2>1, <2>2, <2>3, <2>4 DEF TypeOK, loop, window
  <2>6. WindowInv' /\ (interruptCount' = 1 => ~handlers')
    BY <1>0, <2>2 DEF WindowInv, window, loop, Inv
  <2> QED BY <2>3, <2>5, <2>6 DEF Inv
<1>10. CASE Taken(t)
  <2>1. UNCHANGED <<outputQueue, written, waking, chatty, window, history>>
    BY <1>10 DEF Taken
  <2>2. CASE Return(t, TRUE)
    BY <1>0, <1>4, <1>6, <2>1, <2>2 DEF window, history, TypeOK
  <2>3. CASE Become(t, WithRc(t)) /\ UNCHANGED loop
    <3>1. /\ WithRc(t) \in Flush /\ WithRc(t).stage # "enter" /\ WithRc(t).by = Top(t).by
          /\ Moves(t, WithRc(t))
      BY <1>0, <1>1, <2>3, CheckFacts
    <3>2. FlushInv'
      BY <1>0, <1>1, <1>7, <2>3, <3>1, MovedInv
    <3> QED BY <1>0, <1>5, <2>1, <2>3, <3>2 DEF history, TypeOK
  <2> QED BY <1>10, <2>2, <2>3 DEF Taken, WithRc
<1>11. CASE WindowIsThere(t) \/ CreateGivesUp(t) \/ PumpPaintMessages(t)
  <2>1. /\ \E stage \in {"pump", "write"} : Goto(t, stage)
        /\ UNCHANGED <<outputQueue, written, waking, chatty, loop, window, history>>
    BY <1>11 DEF WindowIsThere, CreateGivesUp, PumpPaintMessages
  <2>2. FlushInv'
    <3>1. PICK stage \in {"pump", "write"} : Goto(t, stage)
      BY <2>1
    <3>2. stage \in Stages /\ stage # "enter"
      BY DEF Stages
    <3> QED BY <1>0, <1>1, <1>7, <2>1, <3>1, <3>2, GotoInv
  <2> QED BY <1>0, <1>5, <2>1, <2>2 DEF history, TypeOK
<1>12. CASE WindowIsGone(t)
  <2>1. /\ Goto(t, "recreate")
        /\ UNCHANGED <<outputQueue, written, waking, chatty, loop, window, lost, overtaken>>
    BY <1>12 DEF WindowIsGone
  <2>2. raced' \in BOOLEAN
    BY <1>0, <1>12, Zenon DEF WindowIsGone, TypeOK
  <2>3. FlushInv'
    BY <1>0, <1>1, <1>7, <2>1, GotoInv DEF Stages
  <2> QED BY <1>5, <2>1, <2>2, <2>3
<1>13. CASE WindowIsNotToBe(t) \/ CreateRaises(t)
  <2>1. /\ errorCantRecreate' = TRUE /\ Drop(t) /\ Return(t, TRUE)
        /\ UNCHANGED <<outputQueue, written, waking, chatty, view, text, killBuffer, bCreating,
                       overtaken, raced>>
    BY <1>13 DEF WindowIsNotToBe, CreateRaises
  <2>2. lost' \in SUBSET Messages
    BY <1>0, <1>1, <2>1, DropTypes
  <2>3. text' \in Seq(Messages)
    BY <1>0, <2>1 DEF TypeOK
  <2> QED BY <1>4, <1>6, <2>1, <2>2, <2>3
<1>14. CASE BeginCreate(t)
  <2>1. /\ bCreating' = TRUE /\ Goto(t, "create")
        /\ UNCHANGED <<outputQueue, written, waking, chatty, loop, view, text, killBuffer,
                       errorCantRecreate, history>>
    BY <1>14 DEF BeginCreate
  <2>2. FlushInv'
    BY <1>0, <1>1, <1>7, <2>1, GotoInv DEF Stages
  <2>3. TypeOK'
    BY <1>0, <1>3, <2>1, <2>2 DEF TypeOK, loop, history
  <2>4. WindowInv' /\ (interruptCount' = 1 => ~handlers')
    BY <1>0, <2>1 DEF WindowInv, loop, Inv
  <2> QED BY <2>2, <2>3, <2>4 DEF Inv
<1>15. CASE CreateSucceeds(t)
  <2>1. /\ view' = "open" /\ text' = killBuffer /\ killBuffer' = <<>> /\ bCreating' = FALSE
        /\ lost' = lost \cup ToSet(text) /\ Goto(t, "pump")
        /\ UNCHANGED <<outputQueue, written, waking, chatty, loop, errorCantRecreate,
                       overtaken, raced>>
    BY <1>15 DEF CreateSucceeds
  <2>2. FlushInv'
    BY <1>0, <1>1, <1>7, <2>1, GotoInv DEF Stages
  <2>3. lost' \in SUBSET Messages /\ killBuffer' \in Seq(Messages) /\ text' \in Seq(Messages)
    BY <1>0, <2>1 DEF TypeOK, ToSet
  <2>4. TypeOK'
    BY <1>0, <1>3, <2>1, <2>2, <2>3 DEF TypeOK, loop
  <2>5. WindowInv' /\ (interruptCount' = 1 => ~handlers')
    BY <1>0, <2>1 DEF WindowInv, loop, Inv
  <2> QED BY <2>2, <2>4, <2>5 DEF Inv
<1>16. CASE WriteItems(t) /\ view = "open"
  <2>1. /\ text' = text \o Top(t).items /\ Return(t, Top(t).rc)
        /\ UNCHANGED <<outputQueue, written, waking, chatty, view, killBuffer, bCreating,
                       errorCantRecreate, lost, overtaken, raced>>
    BY <1>16 DEF WriteItems, Written
  <2>2. text' \in Seq(Messages)
    BY <1>0, <1>2, <2>1 DEF TypeOK
  <2>3. errorCantRecreate' \in BOOLEAN /\ lost' \in SUBSET Messages
    BY <1>0, <2>1 DEF TypeOK
  <2> QED BY <1>2, <1>6, <1>16, <2>1, <2>2, <2>3
<1>17. CASE WriteItems(t) /\ view # "open"
  <2>1. /\ Drop(t) /\ Fail(t)
        /\ UNCHANGED <<outputQueue, written, waking, chatty, view, text, killBuffer, bCreating,
                       errorCantRecreate, interruptCount, overtaken, raced>>
    BY <1>17 DEF WriteItems
  <2>2. /\ FlushInv' /\ idle' \in BOOLEAN /\ handlers' \in BOOLEAN /\ (handlers' => handlers)
        /\ UNCHANGED <<mail, idleHandlerSet, missed>>
    BY <1>1, <2>1, FailFacts
  <2>3. lost' \in SUBSET Messages
    BY <1>0, <1>1, <2>1, DropTypes
  <2>4. TypeOK'
    BY <1>0, <1>3, <2>1, <2>2, <2>3 DEF TypeOK
  <2>5. WindowInv' /\ (interruptCount' = 1 => ~handlers')
    BY <1>0, <2>1, <2>2 DEF WindowInv, Inv
  <2> QED BY <2>2, <2>4, <2>5 DEF Inv
<1> QED BY <1>8, <1>9, <1>10, <1>11, <1>12, <1>13, <1>14, <1>15, <1>16, <1>17 DEF QueueFlush

LEMMA InterruptFacts ==
  ASSUME Inv, Interrupt
  PROVE  /\ ~Quiet(Main) /\ Pops(Main) /\ FlushInv' /\ Drop(Main)
         /\ idle' = FALSE /\ handlers' = FALSE /\ interruptCount' = 1
         /\ UNCHANGED <<outputQueue, mail, idleHandlerSet, missed, written, waking, chatty,
                        window, overtaken, raced>>
<1>0. TypeOK /\ FlushInv /\ ~Quiet(Main) /\ Top(Main).by = "idle" /\ Main \in Threads
  BY MainFacts DEF Inv, Interrupt
<1>1. interruptCount = 0
  BY <1>0, TopFacts DEF FlushInv
<1>2. /\ Fail(Main) /\ Drop(Main) /\ interruptCount' = 1 /\ UNCHANGED outputQueue
      /\ UNCHANGED <<written, waking, chatty, window, overtaken, raced>>
  BY <1>1 DEF Interrupt
<1>3. idle' = FALSE /\ handlers' = FALSE
  BY <1>0, <1>2 DEF Fail
<1> QED BY <1>0, <1>2, <1>3, FailFacts

LEMMA InterruptStep ==
  ASSUME Inv, Interrupt PROVE Inv'
<1>0. TypeOK /\ FlushInv /\ WindowInv /\ Main \in Threads
  BY MainFacts DEF Inv
<1>1. /\ ~Quiet(Main) /\ FlushInv' /\ Drop(Main)
      /\ idle' = FALSE /\ handlers' = FALSE /\ interruptCount' = 1
      /\ UNCHANGED <<outputQueue, mail, idleHandlerSet, missed, written, waking, chatty,
                     window, overtaken, raced>>
  BY InterruptFacts
<1>2. lost' \in SUBSET Messages
  BY <1>0, <1>1, DropTypes
<1>3. flushes' \in [Threads -> Seq(Flush)] /\ \A t \in Threads : Len(flushes'[t]) =< MaxDepth
  BY <1>1 DEF FlushInv, Depth
<1>4. interruptCount' \in 0..1
  BY <1>1
<1>5. idle' \in BOOLEAN /\ handlers' \in BOOLEAN
  BY <1>1, Zenon
<1>6. TypeOK'
  BY <1>0, <1>1, <1>2, <1>3, <1>4, <1>5 DEF TypeOK, window
<1>7. WindowInv' /\ (interruptCount' = 1 => ~handlers')
  BY <1>0, <1>1 DEF WindowInv, window
<1> QED BY <1>1, <1>6, <1>7 DEF Inv

LEMMA IdleStep ==
  ASSUME Inv, OnIdle PROVE Inv'
<1>0. TypeOK /\ FlushInv /\ WindowInv /\ Quiet(Main)
  BY DEF Inv, OnIdle
<1>1. UNCHANGED <<outputQueue, written, waking, chatty, mail, handlers, idleHandlerSet,
                  interruptCount, missed, window, lost, overtaken>>
  BY DEF OnIdle
<1>2. FlushInv' /\ raced' \in BOOLEAN /\ idle' \in BOOLEAN
  <2>1. CASE handlers
    <3>1. Enter(Main, "idle") /\ UNCHANGED idle
      BY <2>1 DEF OnIdle
    <3>2. Pushes(Main, "idle")
      BY <1>0, <3>1, MainFacts, PushFacts DEF FlushInv
    <3>3. interruptCount = 0
      BY <1>0, <2>1 DEF TypeOK, Inv
    <3>4. Depth(Main) < MaxDepth
      BY <1>0, WindowAssumption DEF Quiet, Depth
    <3>5. FlushInv'
      BY <1>0, <1>1, <3>2, <3>3, <3>4, MainFacts, PushedInv
    <3> QED BY <1>0, <3>1, <3>5, EnterTypes DEF TypeOK
  <2>2. CASE ~handlers
    <3>1. idle' = FALSE /\ UNCHANGED <<flushes, raced>>
      BY <2>2 DEF OnIdle
    <3> QED BY <1>0, <1>1, <3>1 DEF FlushInv, Depth, TypeOK
  <2> QED BY <2>1, <2>2
<1>3. flushes' \in [Threads -> Seq(Flush)] /\ \A t \in Threads : Len(flushes'[t]) =< MaxDepth
  BY <1>2 DEF FlushInv, Depth
<1>4. TypeOK'
  BY <1>0, <1>1, <1>2, <1>3 DEF TypeOK, window
<1>5. WindowInv' /\ (interruptCount' = 1 => ~handlers')
  BY <1>0, <1>1 DEF WindowInv, window, Inv
<1> QED BY <1>2, <1>4, <1>5 DEF Inv

LEMMA SameFlushes ==
  ASSUME FlushInv, UNCHANGED <<flushes, interruptCount>>
  PROVE  FlushInv'
BY DEF FlushInv, Depth

LEMMA CloseStep ==
  ASSUME Inv, UserCloses \/ Close PROVE Inv'
<1>0. TypeOK /\ FlushInv /\ WindowInv
  BY DEF Inv
<1>1. UNCHANGED <<outputQueue, written, waking, chatty, mail, interruptCount, missed, flushes,
                  bCreating, errorCantRecreate, lost, overtaken>>
  BY DEF UserCloses, Close
<1>2. Destroyed \/ UNCHANGED <<view, text, killBuffer, raced>>
  BY DEF UserCloses, Close
<1>3. /\ handlers' \in BOOLEAN /\ idleHandlerSet' \in BOOLEAN /\ (handlers' => handlers)
      /\ idle' \in BOOLEAN
  <2>1. CASE UserCloses
    BY <1>0, <2>1 DEF UserCloses, TypeOK
  <2>2. CASE Close
    <3>1. idle' \in {idle, TRUE} /\ handlers' = FALSE /\ idleHandlerSet' = FALSE
      BY <2>2 DEF Close
    <3> QED BY <1>0, <3>1 DEF TypeOK
  <2> QED BY <2>1, <2>2
<1>4. /\ view' \in {"none", "open"} /\ text' \in Seq(Messages) /\ killBuffer' \in Seq(Messages)
      /\ raced' \in BOOLEAN /\ WindowInv'
  <2>1. CASE Destroyed
    <3>1. view' = "none" /\ text' = <<>> /\ killBuffer' = text
      BY <2>1 DEF Destroyed, SaveKillBuffer
    <3>2. raced' \in BOOLEAN
      BY <1>0, <2>1, Zenon DEF Destroyed, TypeOK
    <3> QED BY <1>0, <3>1, <3>2 DEF TypeOK, WindowInv
  <2>2. CASE UNCHANGED <<view, text, killBuffer, raced>>
    BY <1>0, <2>2 DEF TypeOK, WindowInv
  <2> QED BY <1>2, <2>1, <2>2
<1>5. TypeOK'
  BY <1>0, <1>1, <1>3, <1>4 DEF TypeOK
<1>6. FlushInv'
  BY <1>0, <1>1, SameFlushes
<1>7. interruptCount' = 1 => ~handlers'
  BY <1>1, <1>3 DEF Inv
<1> QED BY <1>4, <1>5, <1>6, <1>7 DEF Inv

LEMMA WorkerStep ==
  ASSUME Inv, NEW w \in Workers, WorkerWrites(w) \/ WorkerFlushes(w) PROVE Inv'
<1>0. TypeOK /\ FlushInv /\ WindowInv
  BY DEF Inv
<1>1. CASE WorkerWrites(w)
  <2>1. UNCHANGED <<idle, handlers, idleHandlerSet, interruptCount, flushes, chatty, window,
                    lost, overtaken, raced>>
    BY <1>1 DEF WorkerWrites, history
  <2>2. \/ Put /\ UNCHANGED <<mail, missed>>
        \/ Post /\ UNCHANGED <<outputQueue, written>>
    BY <1>1 DEF WorkerWrites, HandleOutput
  <2>3. waking' \in SUBSET Workers
    BY <1>0, <1>1 DEF WorkerWrites, HandleOutput, TypeOK
  <2>4. mail' \in BOOLEAN /\ missed' \in BOOLEAN
    BY <1>0, <2>2, PostTypes DEF TypeOK
  <2>5. outputQueue' \in Seq(Messages) /\ written' \in 0..MaxMessages
    BY <1>0, <2>2, PutTypes DEF TypeOK
  <2>6. TypeOK'
    BY <1>0, <2>1, <2>3, <2>4, <2>5 DEF TypeOK, window
  <2>7. FlushInv'
    BY <1>0, <2>1, SameFlushes
  <2>8. WindowInv' /\ (interruptCount' = 1 => ~handlers')
    BY <1>0, <2>1 DEF WindowInv, window, Inv
  <2> QED BY <2>6, <2>7, <2>8 DEF Inv
<1>2. CASE WorkerFlushes(w)
  <2>1. /\ Quiet(w) /\ Enter(w, "call")
        /\ UNCHANGED <<outputQueue, written, waking, chatty, loop, window, lost, overtaken>>
    BY <1>2 DEF WorkerFlushes
  <2>2. Pushes(w, "call")
    BY <1>0, <2>1, MainFacts, PushFacts DEF FlushInv
  <2>3. Depth(w) < MaxDepth
    BY <1>0, <2>1, WindowAssumption DEF Quiet, Depth
  <2>4. FlushInv'
    BY <1>0, <2>1, <2>2, <2>3, MainFacts, PushedInv DEF loop
  <2>5. raced' \in BOOLEAN
    BY <1>0, <2>1, EnterTypes
  <2>6. flushes' \in [Threads -> Seq(Flush)] /\ \A t \in Threads : Len(flushes'[t]) =< MaxDepth
    BY <2>4 DEF FlushInv, Depth
  <2>7. TypeOK'
    BY <1>0, <2>1, <2>5, <2>6 DEF TypeOK, loop, window
  <2>8. WindowInv' /\ (interruptCount' = 1 => ~handlers')
    BY <1>0, <2>1 DEF WindowInv, window, loop, Inv
  <2> QED BY <2>4, <2>7, <2>8 DEF Inv
<1> QED BY <1>1, <1>2

LEMMA InvStep == Inv /\ [Next]_vars => Inv'
<1> SUFFICES ASSUME Inv, [Next]_vars PROVE Inv'
  OBVIOUS
<1>1. ASSUME NEW t \in Threads, QueueFlush(t) PROVE Inv'
  BY <1>1, FlushStep
<1>2. CASE OnIdle
  BY <1>2, IdleStep
<1>3. CASE PumpMail \/ UNCHANGED vars
  <2>1. /\ UNCHANGED <<flushes, interruptCount, outputQueue, written, waking, chatty, handlers,
                       idleHandlerSet, missed, window, history>>
        /\ mail' \in BOOLEAN /\ idle' \in BOOLEAN
    BY <1>3 DEF PumpMail, vars, loop, Inv, TypeOK
  <2>2. FlushInv'
    BY <2>1, SameFlushes DEF Inv
  <2> QED BY <2>1, <2>2 DEF Inv, TypeOK, WindowInv, window, history
<1>4. CASE HandlerPrints
  <2>1. idle' \in BOOLEAN
    BY <1>4, Zenon DEF HandlerPrints, Inv, TypeOK
  <2> QED BY <1>4, <2>1, PrintStep DEF HandlerPrints
<1>5. CASE Interrupt
  BY <1>5, InterruptStep
<1>6. CASE MainPrints
  <2>1. idle' \in BOOLEAN
    BY <1>6, Zenon DEF MainPrints, Inv, TypeOK
  <2> QED BY <1>6, <2>1, PrintStep DEF MainPrints
<1>7. CASE UserCloses \/ Close
  BY <1>7, CloseStep
<1>8. ASSUME NEW w \in Workers, WorkerWrites(w) \/ WorkerFlushes(w) PROVE Inv'
  BY <1>8, WorkerStep
<1> QED BY <1>1, <1>2, <1>3, <1>4, <1>5, <1>6, <1>7, <1>8 DEF Next

LEMMA InvHolds == Spec => []Inv
<1> QED BY InvInit, InvStep, PTL DEF Spec

\* The types, and the second interrupt that never comes: for any threads,
\* messages and depth of flushes.
THEOREM SpecTypeOK == Spec => []TypeOK
<1>1. Inv => TypeOK
  BY DEF Inv
<1> QED BY <1>1, InvHolds, PTL

(***************************************************************************)
(* One thread at a time makes the window.                                  *)
(***************************************************************************)

\* Unless there was a race, the thread that looks for the window to make it, or
\* makes it, is the only one that flushes, the flushes in the one that makes it
\* return at once, and one that is about to write has a window or one whose
\* making was given up.
AloneNow ==
  /\ \A t \in Threads : \A i \in 1..Depth(t) :
        flushes[t][i].stage \in {"recreate", "create"} =>
          \A s \in Threads : s # t => Depth(s) = 0
  /\ \A t \in Threads : \A i \in 1..Depth(t) :
        flushes[t][i].stage = "create" =>
          /\ bCreating /\ view = "none"
          /\ \A j \in 1..Depth(t) : i < j => flushes[t][j].stage = "enter"
  /\ \A t \in Threads : \A i \in 1..Depth(t) :
        flushes[t][i].stage = "recreate" => ~bCreating /\ view = "none" /\ i = Depth(t)
  /\ \A t \in Threads : \A i \in 1..Depth(t) :
        flushes[t][i].stage \in {"pump", "write"} => view = "open" \/ bCreating

Alone == raced \/ AloneNow

LEMMA QuietFacts ==
  ASSUME flushes \in [Threads -> Seq(Flush)], NEW t \in Threads
  PROVE  Quiet(t) <=> Depth(t) = 0
<1>1. flushes[t] \in Seq(Flush)
  OBVIOUS
<1> QED BY <1>1 DEF Quiet, Depth

LEMMA AloneMoved ==
  ASSUME FlushInv, AloneNow, NEW t \in Threads, ~Quiet(t), NEW f, Moves(t, f),
         Top(t).stage # "enter" \/ ~bCreating,
         f.stage \in {"recreate", "create"} => \A s \in Threads : s # t => Depth(s) = 0,
         f.stage = "create" => bCreating' /\ view' = "none",
         f.stage = "recreate" => ~bCreating' /\ view' = "none",
         f.stage \in {"pump", "write"} => view' = "open" \/ bCreating',
         view = "open" \/ bCreating => view' = "open" \/ bCreating'
  PROVE  AloneNow'
<1>1. Depth(t) \in 1..Depth(t) /\ Top(t) = flushes[t][Depth(t)]
  BY TopFacts DEF FlushInv
<1>2. \A s \in Threads : Depth(s)' = Depth(s) /\ Depth(s) \in Nat
  BY TopFacts DEF Moves, FlushInv
<1>3. ASSUME NEW s \in Threads, NEW i \in 1..Depth(s), ~(s = t /\ i = Depth(t))
      PROVE  flushes[s][i].stage \notin {"recreate", "create"}
  <2>1. CASE s # t
    <3>1. Depth(t) # 0
      BY <1>1
    <3> QED BY <2>1, <3>1 DEF AloneNow
  <2>2. CASE s = t
    <3>1. i \in 1..Depth(t) /\ i < Depth(t)
      BY <1>2, <1>3, <2>2
    <3>2. flushes[t][i].stage # "create"
      BY <1>1, <3>1 DEF AloneNow
    <3>3. flushes[t][i].stage # "recreate"
      BY <3>1 DEF AloneNow
    <3> QED BY <2>2, <3>2, <3>3
  <2> QED BY <2>1, <2>2
<1>4. ASSUME NEW s \in Threads, NEW i \in 1..Depth(s)
      PROVE  \/ s = t /\ i = Depth(t) /\ flushes'[s][i] = f
             \/ /\ flushes'[s][i] = flushes[s][i]
                /\ flushes'[s][i].stage \notin {"recreate", "create"}
  <2>1. flushes'[s][i] = IF s = t /\ i = Depth(t) THEN f ELSE flushes[s][i]
    BY DEF Moves
  <2> QED BY <1>3, <2>1
<1>5. \A s \in Threads : \A i \in 1..Depth(s) :
        flushes'[s][i].stage \in {"pump", "write"} => view' = "open" \/ bCreating'
  BY <1>4 DEF AloneNow
<1>6. \A s \in Threads : \A i \in 1..Depth(s) :
        /\ flushes'[s][i].stage \in {"recreate", "create"} =>
             /\ s = t /\ i = Depth(t)
             /\ \A r \in Threads : r # s => Depth(r) = 0
        /\ flushes'[s][i].stage = "create" => bCreating' /\ view' = "none"
        /\ flushes'[s][i].stage = "recreate" => ~bCreating' /\ view' = "none"
  BY <1>4
<1>7. \A s \in Threads : \A i, j \in 1..Depth(s) :
        flushes'[s][i].stage = "create" => ~(i < j)
  BY <1>2, <1>6
<1> QED BY <1>2, <1>5, <1>6, <1>7 DEF AloneNow

LEMMA AlonePopped ==
  ASSUME FlushInv, AloneNow, NEW t \in Threads, ~Quiet(t), Pops(t), UNCHANGED <<view, bCreating>>
  PROVE  AloneNow'
<1>1. \A s \in Threads : Depth(s) \in Nat /\ Depth(s)' = IF s = t THEN Depth(s) - 1 ELSE Depth(s)
  BY TopFacts DEF FlushInv, Pops
<1>2. Depth(t) \in 1..Depth(t) /\ \A i \in 1..Depth(t)' : i < Depth(t)
  BY <1>1, TopFacts DEF FlushInv
<1>3. \A s \in Threads : \A i \in 1..Depth(s)' : i \in 1..Depth(s) /\ flushes'[s][i] = flushes[s][i]
  BY <1>1 DEF Pops
<1>4. \A s \in Threads : \A i \in 1..Depth(s)' :
        flushes'[s][i].stage \in {"recreate", "create"} =>
          \A r \in Threads : r # s => Depth(r)' = 0
  <2> SUFFICES ASSUME NEW s \in Threads, NEW i \in 1..Depth(s)',
                      flushes'[s][i].stage \in {"recreate", "create"},
                      NEW r \in Threads, r # s
               PROVE  Depth(r)' = 0
    OBVIOUS
  <2>1. Depth(r) = 0
    BY <1>3 DEF AloneNow
  <2>2. r # t
    BY <1>2, <2>1
  <2> QED BY <1>1, <2>1, <2>2
<1>5. \A s \in Threads : \A i \in 1..Depth(s)' :
        flushes'[s][i].stage = "create" =>
          /\ bCreating' /\ view' = "none"
          /\ \A j \in 1..Depth(s)' : i < j => flushes'[s][j].stage = "enter"
  BY <1>3 DEF AloneNow
<1>6. \A s \in Threads : \A i \in 1..Depth(s)' :
        flushes'[s][i].stage = "recreate" => ~bCreating' /\ view' = "none" /\ i = Depth(s)'
  BY <1>1, <1>2, <1>3 DEF AloneNow
<1>7. \A s \in Threads : \A i \in 1..Depth(s)' :
        flushes'[s][i].stage \in {"pump", "write"} => view' = "open" \/ bCreating'
  BY <1>3 DEF AloneNow
<1> QED BY <1>4, <1>5, <1>6, <1>7 DEF AloneNow

LEMMA AlonePushed ==
  ASSUME FlushInv, AloneNow, NEW t \in Threads, NEW by \in {"idle", "call"}, Enter(t, by),
         ~raced', Quiet(t) \/ Top(t).stage # "recreate", UNCHANGED <<view, bCreating>>
  PROVE  AloneNow'
<1>1. Pushes(t, by)
  BY PushFacts DEF FlushInv
<1>2. \A s \in Threads : Depth(s) \in Nat /\ Depth(s)' = IF s = t THEN Depth(s) + 1 ELSE Depth(s)
  BY <1>1, TopFacts DEF FlushInv, Pushes
<1>3. ASSUME NEW s \in Threads, s # t, NEW i \in 1..Depth(s)
      PROVE  flushes[s][i].stage \notin {"recreate", "create"}
  <2>1. ~Making(s)
    BY <1>3 DEF Enter
  <2>2. i \in DOMAIN flushes[s]
    BY TopFacts DEF FlushInv
  <2> QED BY <2>1, <2>2 DEF Making
<1>4. ASSUME NEW i \in 1..Depth(t) PROVE flushes[t][i].stage # "recreate"
  <2>1. i = Depth(t) => flushes[t][i] = Top(t) /\ ~Quiet(t)
    BY TopFacts, QuietFacts DEF FlushInv
  <2> QED BY <2>1 DEF AloneNow
<1>5. ASSUME NEW s \in Threads, NEW i \in 1..Depth(s)'
      PROVE  \/ s = t /\ i = Depth(t) + 1 /\ flushes'[s][i].stage = "enter"
             \/ /\ i \in 1..Depth(s) /\ flushes'[s][i] = flushes[s][i]
                /\ flushes'[s][i].stage # "recreate"
                /\ s # t => flushes'[s][i].stage # "create"
  <2>1. CASE i \in 1..Depth(s)
    <3>1. flushes'[s][i] = flushes[s][i]
      BY <1>1, <2>1 DEF Pushes
    <3> QED BY <1>3, <1>4, <2>1, <3>1
  <2>2. CASE s = t /\ i = Depth(t) + 1
    <3>1. flushes'[s][i] = Starts(by) /\ Starts(by).stage = "enter"
      BY <1>1, <2>2 DEF Pushes, Starts
    <3> QED BY <2>2, <3>1
  <2> QED BY <1>2, <2>1, <2>2
<1>6. \A s \in Threads : \A i \in 1..Depth(s)' :
        flushes'[s][i].stage \in {"recreate", "create"} =>
          /\ s = t /\ i \in 1..Depth(t) /\ flushes'[s][i] = flushes[t][i]
          /\ flushes[t][i].stage = "create"
          /\ \A r \in Threads : r # s => Depth(r)' = 0
  <2> SUFFICES ASSUME NEW s \in Threads, NEW i \in 1..Depth(s)',
                      flushes'[s][i].stage \in {"recreate", "create"}
               PROVE  /\ s = t /\ i \in 1..Depth(t) /\ flushes'[s][i] = flushes[t][i]
                      /\ flushes[t][i].stage = "create"
                      /\ \A r \in Threads : r # s => Depth(r)' = 0
    OBVIOUS
  <2>1. /\ s = t /\ i \in 1..Depth(t) /\ flushes'[s][i] = flushes[t][i]
        /\ flushes[t][i].stage = "create"
    BY <1>5
  <2>2. \A r \in Threads : r # t => Depth(r) = 0
    BY <2>1 DEF AloneNow
  <2> QED BY <1>2, <2>1, <2>2
<1>7. \A s \in Threads : \A i \in 1..Depth(s)' :
        flushes'[s][i].stage = "create" =>
          /\ bCreating' /\ view' = "none"
          /\ \A j \in 1..Depth(s)' : i < j => flushes'[s][j].stage = "enter"
  <2> SUFFICES ASSUME NEW s \in Threads, NEW i \in 1..Depth(s)',
                      flushes'[s][i].stage = "create"
               PROVE  /\ bCreating' /\ view' = "none"
                      /\ \A j \in 1..Depth(s)' : i < j => flushes'[s][j].stage = "enter"
    OBVIOUS
  <2>1. s = t /\ i \in 1..Depth(t) /\ flushes[t][i].stage = "create"
    BY <1>6
  <2>2. ASSUME NEW j \in 1..Depth(t)', i < j PROVE flushes'[t][j].stage = "enter"
    BY <1>5, <2>1, <2>2 DEF AloneNow
  <2> QED BY <2>1, <2>2 DEF AloneNow
<1>8. \A s \in Threads : \A i \in 1..Depth(s)' :
        /\ flushes'[s][i].stage # "recreate"
        /\ flushes'[s][i].stage \in {"pump", "write"} => view' = "open" \/ bCreating'
  BY <1>5 DEF AloneNow
<1> QED BY <1>6, <1>7, <1>8 DEF AloneNow

LEMMA AloneSame ==
  ASSUME AloneNow, UNCHANGED <<flushes, view, bCreating>>
  PROVE  AloneNow'
BY DEF AloneNow, Depth

\* Whoever is past the first look at bCreating has no creation under way.
LEMMA AloneStuck ==
  ASSUME FlushInv, AloneNow, NEW t \in Threads, ~Quiet(t), Top(t).stage \notin {"enter", "create"}
  PROVE  \A s \in Threads : \A i \in 1..Depth(s) : flushes[s][i].stage # "create"
<1>1. Depth(t) \in 1..Depth(t) /\ Top(t) = flushes[t][Depth(t)]
  BY TopFacts DEF FlushInv
<1> SUFFICES ASSUME NEW s \in Threads, NEW i \in 1..Depth(s), flushes[s][i].stage = "create"
             PROVE  FALSE
  OBVIOUS
<1>2. s = t
  BY <1>1 DEF AloneNow
<1>3. i # Depth(t)
  BY <1>1, <1>2
<1>4. i < Depth(t)
  BY <1>1, <1>2, <1>3, TopFacts DEF FlushInv
<1> QED BY <1>1, <1>2, <1>4 DEF AloneNow

LEMMA RacedStays == [Next]_vars /\ raced => raced'
<1> SUFFICES ASSUME [Next]_vars, raced PROVE raced'
  OBVIOUS
<1>1. ASSUME NEW t \in Threads, QueueFlush(t) PROVE raced'
  BY <1>1 DEF QueueFlush, Begin, TakeItem, Taken, WindowIsThere, WindowIsGone, WindowIsNotToBe,
     BeginCreate, CreateSucceeds, CreateGivesUp, CreateRaises, PumpPaintMessages, WriteItems,
     history
<1>2. CASE OnIdle \/ PumpMail \/ HandlerPrints \/ Interrupt \/ MainPrints \/ UNCHANGED vars
  BY <1>2 DEF OnIdle, PumpMail, HandlerPrints, Interrupt, MainPrints, PrintOnMain, Enter,
     history, vars
<1>3. CASE UserCloses \/ Close
  BY <1>3 DEF UserCloses, Close, Destroyed
<1>4. ASSUME NEW w \in Workers, WorkerWrites(w) \/ WorkerFlushes(w) PROVE raced'
  BY <1>4 DEF WorkerWrites, WorkerFlushes, Enter, history
<1> QED BY <1>1, <1>2, <1>3, <1>4 DEF Next

LEMMA AloneFlush ==
  ASSUME Inv, AloneNow, NEW t \in Threads, QueueFlush(t), ~raced'
  PROVE  AloneNow'
<1>0. FlushInv /\ TypeOK
  BY DEF Inv
<1>1. ~Quiet(t)
  BY DEF QueueFlush, At, Begin, TakeItem, Taken, WindowIsThere, WindowIsGone, WindowIsNotToBe,
         BeginCreate, CreateSucceeds, CreateGivesUp, CreateRaises, PumpPaintMessages, WriteItems
<1>2. Depth(t) \in 1..Depth(t) /\ Top(t) = flushes[t][Depth(t)]
  BY <1>0, <1>1, TopFacts DEF FlushInv
<1>3. ASSUME NEW rc, Return(t, rc) PROVE Pops(t)
  BY <1>0, <1>1, <1>3, PopFacts DEF Return, FlushInv
<1>4. ASSUME NEW stage \in Stages, stage # "enter", Goto(t, stage)
      PROVE  /\ [Top(t) EXCEPT !.stage = stage].stage = stage
             /\ Moves(t, [Top(t) EXCEPT !.stage = stage])
  BY <1>0, <1>1, <1>4, GotoFacts
<1>5. CASE Begin(t)
  <2>1. Top(t).stage = "enter" /\ UNCHANGED <<view, bCreating>>
    BY <1>5 DEF Begin, At, window
  <2>2. CASE Return(t, TRUE)
    BY <1>0, <1>1, <1>3, <2>1, <2>2, AlonePopped
  <2>3. CASE ~bCreating /\ Goto(t, "take")
    BY <1>0, <1>1, <1>4, <2>1, <2>3, AloneMoved DEF Stages
  <2> QED BY <1>5, <2>2, <2>3 DEF Begin
<1>6. CASE TakeItem(t)
  <2>1. UNCHANGED <<view, bCreating>>
    BY <1>6 DEF TakeItem, window
  <2>2. Moves(t, WithItem(t)) /\ WithItem(t).stage = "take" /\ Top(t).stage = "take"
    BY <1>6, TakeFacts
  <2> QED BY <1>0, <1>1, <2>1, <2>2, AloneMoved
<1>7. CASE Taken(t)
  <2>1. Top(t).stage = "take" /\ UNCHANGED <<view, bCreating>>
    BY <1>7 DEF Taken, At, window
  <2>2. CASE Return(t, TRUE)
    BY <1>0, <1>1, <1>3, <2>1, <2>2, AlonePopped
  <2>3. CASE Become(t, WithRc(t))
    <3>1. Moves(t, WithRc(t)) /\ WithRc(t).stage = "check"
      BY <1>0, <1>1, <2>3, CheckFacts
    <3> QED BY <1>0, <1>1, <2>1, <3>1, AloneMoved
  <2> QED BY <1>7, <2>2, <2>3 DEF Taken, WithRc
<1>8. CASE WindowIsThere(t)
  <2>1. /\ Top(t).stage = "check" /\ Goto(t, "pump") /\ (bCreating \/ view = "open")
        /\ UNCHANGED <<view, bCreating>>
    BY <1>8 DEF WindowIsThere, At, window
  <2> QED BY <1>0, <1>1, <1>4, <2>1, AloneMoved DEF Stages
<1>9. CASE WindowIsGone(t)
  <2>1. /\ Top(t).stage = "check" /\ Goto(t, "recreate") /\ ~bCreating /\ view = "none"
        /\ UNCHANGED <<view, bCreating>>
    BY <1>9 DEF WindowIsGone, At, window
  <2>2. \A s \in Threads : s # t => Depth(s) = 0
    <3>1. \A s \in Threads \ {t} : Quiet(s)
      BY <1>9 DEF WindowIsGone
    <3> QED BY <1>0, <3>1, QuietFacts DEF FlushInv
  <2> QED BY <1>0, <1>1, <1>4, <2>1, <2>2, AloneMoved DEF Stages
<1>10. CASE WindowIsNotToBe(t) \/ CreateRaises(t)
  <2>1. Return(t, TRUE) /\ UNCHANGED <<view, bCreating>>
    BY <1>10 DEF WindowIsNotToBe, CreateRaises
  <2> QED BY <1>0, <1>1, <1>3, <2>1, AlonePopped
<1>11. CASE BeginCreate(t)
  <2>1. /\ Top(t).stage = "recreate" /\ Goto(t, "create") /\ bCreating' /\ UNCHANGED view
    BY <1>11 DEF BeginCreate, At
  <2>2. view = "none" /\ \A s \in Threads : s # t => Depth(s) = 0
    BY <1>2, <2>1 DEF AloneNow
  <2> QED BY <1>0, <1>1, <1>4, <2>1, <2>2, AloneMoved DEF Stages
<1>12. CASE CreateSucceeds(t)
  <2>1. Top(t).stage = "create" /\ Goto(t, "pump") /\ view' = "open"
    BY <1>12 DEF CreateSucceeds, At
  <2> QED BY <1>0, <1>1, <1>4, <2>1, AloneMoved DEF Stages
<1>13. CASE CreateGivesUp(t)
  <2>1. Top(t).stage = "create" /\ Goto(t, "pump") /\ UNCHANGED <<view, bCreating>>
    BY <1>13 DEF CreateGivesUp, At, window
  <2>2. bCreating
    BY <1>2, <2>1 DEF AloneNow
  <2> QED BY <1>0, <1>1, <1>4, <2>1, <2>2, AloneMoved DEF Stages
<1>14. CASE PumpPaintMessages(t)
  <2>1. Top(t).stage = "pump" /\ Goto(t, "write") /\ UNCHANGED <<view, bCreating>>
    BY <1>14 DEF PumpPaintMessages, At, window
  <2>2. view = "open" \/ bCreating
    BY <1>2, <2>1 DEF AloneNow
  <2> QED BY <1>0, <1>1, <1>4, <2>1, <2>2, AloneMoved DEF Stages
<1>15. CASE WriteItems(t)
  <2>1. UNCHANGED <<view, bCreating>>
    BY <1>15 DEF WriteItems
  <2>2. Return(t, Top(t).rc) \/ Fail(t)
    BY <1>15 DEF WriteItems
  <2>3. Pops(t)
    BY <1>0, <1>1, <1>3, <2>2, PopFacts DEF Fail, FlushInv
  <2> QED BY <1>0, <1>1, <2>1, <2>3, AlonePopped
<1> QED BY <1>5, <1>6, <1>7, <1>8, <1>9, <1>10, <1>11, <1>12, <1>13, <1>14, <1>15 DEF QueueFlush

LEMMA AloneStep == Inv /\ Alone /\ [Next]_vars => Alone'
<1> SUFFICES ASSUME Inv, AloneNow, [Next]_vars, ~raced' PROVE AloneNow'
  BY RacedStays DEF Alone
<1>0. FlushInv /\ TypeOK /\ Main \in Threads
  BY MainFacts DEF Inv
<1>1. ASSUME NEW t \in Threads, QueueFlush(t) PROVE AloneNow'
  BY <1>1, AloneFlush
<1>2. CASE OnIdle
  <2>1. UNCHANGED <<view, bCreating>> /\ Quiet(Main)
    BY <1>2 DEF OnIdle, window
  <2>2. CASE Enter(Main, "idle")
    BY <1>0, <2>1, <2>2, AlonePushed
  <2>3. CASE UNCHANGED flushes
    BY <2>1, <2>3, AloneSame
  <2> QED BY <1>2, <2>2, <2>3 DEF OnIdle
<1>3. CASE PumpMail \/ UNCHANGED vars
  BY <1>3, AloneSame DEF PumpMail, vars, window
<1>4. CASE HandlerPrints \/ MainPrints
  <2>1. /\ UNCHANGED <<view, bCreating>> /\ PrintOnMain
        /\ Quiet(Main) \/ Top(Main).stage # "recreate"
    BY <1>4 DEF HandlerPrints, MainPrints, window, At
  <2>2. CASE Enter(Main, "call")
    BY <1>0, <2>1, <2>2, AlonePushed
  <2>3. CASE UNCHANGED flushes
    BY <2>1, <2>3, AloneSame
  <2> QED BY <2>1, <2>2, <2>3 DEF PrintOnMain
<1>5. CASE Interrupt
  <2>1. ~Quiet(Main) /\ Pops(Main) /\ UNCHANGED <<view, bCreating>>
    BY <1>5, InterruptFacts DEF window
  <2> QED BY <1>0, <2>1, AlonePopped
<1>6. CASE UserCloses \/ Close
  <2>1. Quiet(Main) /\ UNCHANGED <<flushes, bCreating>>
    BY <1>6 DEF UserCloses, Close
  <2>2. CASE Destroyed
    <3>1. \A w \in Workers : Quiet(w)
      BY <2>2 DEF Destroyed
    <3>2. \A t \in Threads : Depth(t)' = 0
      BY <1>0, <2>1, <3>1, QuietFacts DEF Threads, FlushInv, Depth
    <3>3. \A t \in Threads : \A i \in 1..Depth(t)' : FALSE
      BY <3>2
    <3> QED BY <3>3 DEF AloneNow
  <2>3. CASE UNCHANGED view
    BY <2>1, <2>3, AloneSame
  <2> QED BY <1>6, <2>2, <2>3 DEF UserCloses, Close
<1>7. ASSUME NEW w \in Workers, WorkerWrites(w) \/ WorkerFlushes(w) PROVE AloneNow'
  <2>1. CASE WorkerWrites(w)
    BY <2>1, AloneSame DEF WorkerWrites, window
  <2>2. CASE WorkerFlushes(w)
    BY <1>0, <2>2, MainFacts, AlonePushed DEF WorkerFlushes, window
  <2> QED BY <1>7, <2>1, <2>2
<1> QED BY <1>1, <1>2, <1>3, <1>4, <1>5, <1>6, <1>7 DEF Next

LEMMA AloneInit == Init => Alone
<1>1. Init => \A t \in Threads : \A i \in 1..Depth(t) : FALSE
  <2> SUFFICES ASSUME Init, NEW t \in Threads PROVE Depth(t) = 0
    OBVIOUS
  <2> QED BY DEF Init, Depth
<1> QED BY <1>1 DEF Alone, AloneNow

(***************************************************************************)
(* What is shown stays.                                                    *)
(***************************************************************************)
LEMMA CreateFacts ==
  ASSUME Inv, Alone, NEW t \in Threads, CreateSucceeds(t), ~raced
  PROVE  view = "none"
<1>1. Depth(t) \in 1..Depth(t) /\ Top(t) = flushes[t][Depth(t)] /\ Top(t).stage = "create"
  BY TopFacts DEF CreateSucceeds, At, Inv, FlushInv
<1> QED BY <1>1 DEF Alone, AloneNow

LEMMA ShownGrows ==
  ASSUME Inv, Alone, [Next]_vars
  PROVE  \/ Shown' = Shown
         \/ \E t \in Threads : WriteItems(t) /\ view = "open" /\ Shown' = Shown \o Top(t).items
         \/ raced /\ view = "open" /\ Shown' = <<>> /\ \E t \in Threads : CreateSucceeds(t)
<1>0. TypeOK /\ WindowInv
  BY DEF Inv
<1>1. ASSUME UNCHANGED <<view, text, killBuffer>> PROVE Shown' = Shown
  BY <1>1 DEF Shown
<1>2. ASSUME NEW t \in Threads, CreateSucceeds(t)
      PROVE  \/ Shown' = Shown
             \/ raced /\ view = "open" /\ Shown' = <<>>
  <2>1. view' = "open" /\ text' = killBuffer
    BY <1>2 DEF CreateSucceeds
  <2>2. CASE view = "none"
    BY <2>1, <2>2 DEF Shown
  <2>3. CASE view = "open"
    <3>1. raced
      BY <1>2, <2>3, CreateFacts
    <3>2. killBuffer = <<>>
      BY <1>0, <2>3 DEF WindowInv
    <3> QED BY <2>1, <2>3, <3>1, <3>2 DEF Shown
  <2> QED BY <1>0, <2>2, <2>3 DEF TypeOK
<1>3. ASSUME NEW t \in Threads, WriteItems(t)
      PROVE  Shown' = Shown \/ (view = "open" /\ Shown' = Shown \o Top(t).items)
  <2>1. CASE view = "open"
    <3>1. text' = text \o Top(t).items /\ view' = "open"
      BY <1>3, <2>1 DEF WriteItems, Written
    <3> QED BY <1>3, <2>1, <3>1 DEF Shown
  <2>2. CASE view # "open"
    BY <1>1, <1>3, <2>2 DEF WriteItems
  <2> QED BY <2>1, <2>2
<1>4. CASE UserCloses \/ Close
  <2>1. \/ view = "open" /\ view' = "none" /\ killBuffer' = text
        \/ UNCHANGED <<view, text, killBuffer>>
    BY <1>4 DEF UserCloses, Close, Destroyed, SaveKillBuffer
  <2> QED BY <1>1, <2>1 DEF Shown
<1>5. ASSUME NEW t \in Threads, QueueFlush(t), ~CreateSucceeds(t), ~WriteItems(t)
      PROVE  Shown' = Shown
  <2>1. CASE Begin(t) \/ TakeItem(t) \/ Taken(t) \/ WindowIsThere(t) \/ WindowIsGone(t)
    BY <1>1, <2>1 DEF Begin, TakeItem, Taken, WindowIsThere, WindowIsGone, window
  <2>2. CASE WindowIsNotToBe(t) \/ CreateRaises(t)
    BY <1>1, <2>2 DEF WindowIsNotToBe, CreateRaises
  <2>3. CASE BeginCreate(t) \/ CreateGivesUp(t) \/ PumpPaintMessages(t)
    BY <1>1, <2>3 DEF BeginCreate, CreateGivesUp, PumpPaintMessages, window
  <2> QED BY <1>5, <2>1, <2>2, <2>3 DEF QueueFlush
<1>6. CASE \/ OnIdle \/ PumpMail \/ HandlerPrints \/ Interrupt \/ MainPrints
           \/ (\E w \in Workers : WorkerWrites(w) \/ WorkerFlushes(w))
           \/ UNCHANGED vars
  BY <1>1, <1>6 DEF OnIdle, PumpMail, HandlerPrints, Interrupt, MainPrints, WorkerWrites,
     WorkerFlushes, vars, window
<1> QED BY <1>2, <1>3, <1>4, <1>5, <1>6 DEF Next

LEMMA ShownStep == Inv /\ Alone /\ [Next]_vars => [raced \/ IsPrefix(Shown, Shown')]_vars
<1> SUFFICES ASSUME Inv, Alone, [Next]_vars, ~raced PROVE IsPrefix(Shown, Shown')
  OBVIOUS
<1>1. Shown \in Seq(Messages)
  BY DEF Inv, TypeOK, Shown
<1>2. CASE Shown' = Shown
  BY <1>1, <1>2, PrefixFacts
<1>3. ASSUME NEW t \in Threads, WriteItems(t), Shown' = Shown \o Top(t).items
      PROVE  IsPrefix(Shown, Shown')
  <2>1. Top(t).items \in Seq(Messages)
    BY <1>3, TopFacts, FlushFacts DEF WriteItems, At, Inv, FlushInv
  <2> QED BY <1>1, <1>3, <2>1, PrefixFacts
<1> QED BY <1>2, <1>3, ShownGrows

LEMMA AloneHolds == Spec => []Alone
<1> QED BY InvHolds, AloneInit, AloneStep, PTL DEF Spec

\* What was shown stays shown, before what comes later, also when the window
\* is closed and made again, whatever prints, flushes or fails meanwhile, as long
\* as the window is made and closed by one thread at a time.
THEOREM SpecShownStays == Spec => ShownStays
<1> QED BY InvHolds, AloneHolds, ShownStep, PTL DEF Spec, ShownStays

(***************************************************************************)
(* What a step does to the messages.                                       *)
(***************************************************************************)
LEMMA FrameFacts ==
  ASSUME FlushInv
  PROVE  /\ \A p \in Frames : /\ p[1] \in Threads /\ p[2] \in 1..Depth(p[1]) /\ p = <<p[1], p[2]>>
                              /\ Frame(p) = flushes[p[1]][p[2]]
                              /\ Frame(p) \in Flush /\ Items(p) \in Seq(Messages)
         /\ \A t \in Threads : \A i \in 1..Depth(t) :
              <<t, i>> \in Frames /\ Frame(<<t, i>>) = flushes[t][i]
         /\ \A t \in Threads : ~Quiet(t) => Inner(t) \in Frames /\ Frame(Inner(t)) = Top(t)
<1>1. \A t \in Threads : Depth(t) \in Nat
  BY TopFacts DEF FlushInv
<1>2. ASSUME NEW p \in Frames
      PROVE  /\ p[1] \in Threads /\ p[2] \in 1..Depth(p[1]) /\ p = <<p[1], p[2]>>
             /\ Frame(p) = flushes[p[1]][p[2]]
             /\ Frame(p) \in Flush /\ Items(p) \in Seq(Messages)
  <2>1. p[1] \in Threads /\ p[2] \in 1..Depth(p[1]) /\ p = <<p[1], p[2]>>
    BY DEF Frames
  <2>2. Frame(p) \in Flush
    BY <2>1, TopFacts DEF Frame, FlushInv
  <2> QED BY <2>1, <2>2, FlushFacts DEF Frame, Items
<1>3. ASSUME NEW t \in Threads, NEW i \in 1..Depth(t)
      PROVE  <<t, i>> \in Frames /\ Frame(<<t, i>>) = flushes[t][i]
  BY <1>1 DEF Frames, Frame
<1>4. ASSUME NEW t \in Threads, ~Quiet(t)
      PROVE  Inner(t) \in Frames /\ Frame(Inner(t)) = Top(t)
  <2>1. Depth(t) \in 1..Depth(t) /\ Top(t) = flushes[t][Depth(t)]
    BY <1>4, TopFacts DEF FlushInv
  <2> QED BY <1>3, <2>1 DEF Inner
<1> QED BY <1>2, <1>3, <1>4

LEMMA FramesMoved ==
  ASSUME FlushInv, NEW t \in Threads, ~Quiet(t), NEW f, Moves(t, f)
  PROVE  /\ Frames' = Frames
         /\ \A p \in Frames : Items(p)' = IF p = Inner(t) THEN f.items ELSE Items(p)
<1>1. \A s \in Threads : Depth(s)' = Depth(s)
  BY DEF Moves
<1>2. Frames' = Frames
  BY <1>1 DEF Frames
<1>3. ASSUME NEW p \in Frames
      PROVE  Items(p)' = IF p = Inner(t) THEN f.items ELSE Items(p)
  <2>1. p[1] \in Threads /\ p[2] \in 1..Depth(p[1]) /\ p = <<p[1], p[2]>>
    BY FrameFacts
  <2>2. p = Inner(t) <=> p[1] = t /\ p[2] = Depth(t)
    BY <2>1 DEF Inner
  <2>3. flushes'[p[1]][p[2]] = IF p[1] = t /\ p[2] = Depth(t) THEN f ELSE flushes[p[1]][p[2]]
    BY <2>1 DEF Moves
  <2> QED BY <2>2, <2>3 DEF Items, Frame
<1> QED BY <1>2, <1>3

LEMMA FramesPopped ==
  ASSUME FlushInv, NEW t \in Threads, ~Quiet(t), Pops(t)
  PROVE  /\ Frames' = Frames \ {Inner(t)}
         /\ \A p \in Frames' : Items(p)' = Items(p)
<1>1. \A s \in Threads : Depth(s) \in Nat /\ Depth(s)' = IF s = t THEN Depth(s) - 1 ELSE Depth(s)
  BY TopFacts DEF FlushInv, Pops
<1>2. Depth(t) \in 1..Depth(t)
  BY TopFacts DEF FlushInv
<1>3. ASSUME NEW p \in Threads \X Nat
      PROVE  p \in Frames' <=> p \in Frames /\ p # Inner(t)
  <2>1. p \in Frames' <=> p[2] \in 1..Depth(p[1])'
    BY DEF Frames
  <2>2. p \in Frames <=> p[2] \in 1..Depth(p[1])
    BY DEF Frames
  <2>3. p = Inner(t) <=> p[1] = t /\ p[2] = Depth(t)
    BY DEF Inner
  <2>4. p[1] \in Threads /\ p[2] \in Nat
    OBVIOUS
  <2> QED BY <1>1, <1>2, <2>1, <2>2, <2>3, <2>4
<1>4. Frames' = Frames \ {Inner(t)}
  <2>1. Frames \subseteq Threads \X Nat /\ Frames' \subseteq Threads \X Nat
    BY DEF Frames
  <2> QED BY <1>3, <2>1
<1>5. ASSUME NEW p \in Frames' PROVE Items(p)' = Items(p)
  <2>1. p[1] \in Threads /\ p[2] \in 1..Depth(p[1])'
    BY DEF Frames
  <2>2. flushes'[p[1]][p[2]] = flushes[p[1]][p[2]]
    BY <2>1 DEF Pops
  <2> QED BY <2>2 DEF Items, Frame
<1> QED BY <1>4, <1>5

\* The flushes keep their items; one that begins has none.
Keeps == /\ Frames \subseteq Frames'
         /\ \A p \in Frames' : Items(p)' = IF p \in Frames THEN Items(p) ELSE <<>>

LEMMA FramesPushed ==
  ASSUME FlushInv, NEW t \in Threads, NEW by \in {"idle", "call"}, Pushes(t, by)
  PROVE  Keeps
<1>1. \A s \in Threads : Depth(s) \in Nat /\ Depth(s)' = IF s = t THEN Depth(s) + 1 ELSE Depth(s)
  BY TopFacts DEF FlushInv, Pushes
<1>2. ASSUME NEW p \in Frames PROVE p \in Frames' /\ Items(p)' = Items(p)
  <2>1. p \in Threads \X Nat /\ p[1] \in Threads /\ p[2] \in 1..Depth(p[1])
    BY DEF Frames
  <2>2. p[2] \in 1..Depth(p[1])'
    BY <1>1, <2>1
  <2>3. flushes'[p[1]][p[2]] = flushes[p[1]][p[2]]
    BY <2>1 DEF Pushes
  <2> QED BY <2>1, <2>2, <2>3 DEF Frames, Items, Frame
<1>3. ASSUME NEW p \in Frames', p \notin Frames PROVE Items(p)' = <<>>
  <2>1. p \in Threads \X Nat /\ p[1] \in Threads /\ p[2] \in 1..Depth(p[1])'
    BY DEF Frames
  <2>2. p[2] \notin 1..Depth(p[1])
    BY <1>3, <2>1 DEF Frames
  <2>3. p[1] = t /\ p[2] = Depth(t) + 1
    BY <1>1, <2>1, <2>2
  <2>4. flushes'[p[1]][p[2]] = Starts(by)
    BY <2>3 DEF Pushes
  <2> QED BY <2>4 DEF Items, Frame, Starts
<1> QED BY <1>2, <1>3 DEF Keeps

LEMMA FramesSame ==
  ASSUME UNCHANGED flushes
  PROVE  Keeps
BY DEF Keeps, Frames, Items, Frame, Depth

LEMMA KeepsMoved ==
  ASSUME FlushInv, NEW t \in Threads, ~Quiet(t), NEW f, Moves(t, f), f.items = Top(t).items
  PROVE  Keeps
<1>1. Items(Inner(t)) = Top(t).items
  BY FrameFacts DEF Items
<1> QED BY <1>1, FramesMoved DEF Keeps

\* Nothing moves, except that a message may be written, or that a window takes
\* the place of another one.
Stays == /\ Keeps /\ UNCHANGED overtaken
         /\ Put \/ UNCHANGED <<outputQueue, written>>
         /\ \/ Shown' = Shown /\ lost' = lost
            \/ Shown' = <<>> /\ lost' = lost \cup ToSet(Shown)

\* A flush takes an item.
Takes(p) == /\ Frames' = Frames
            /\ Items(p)' = Append(Items(p), NextItem)
            /\ \A q \in Frames : q # p => /\ Items(q)' = Items(q)
                                          /\ ToSet(Items(q)) \subseteq overtaken'
            /\ overtaken \subseteq overtaken'
            /\ outputQueue # <<>> /\ outputQueue' = Tail(outputQueue)
            /\ written' = written /\ Shown' = Shown /\ lost' = lost

\* A flush writes its items or drops them, and ends.
Leaves(p) == /\ Frames' = Frames \ {p}
             /\ \A q \in Frames' : Items(q)' = Items(q)
             /\ UNCHANGED <<outputQueue, written, overtaken>>
             /\ \/ Shown' = Shown /\ lost' = lost \cup ToSet(Items(p))
                \/ Shown' = Shown \o Items(p) /\ lost' = lost

LEMMA TakesHolds ==
  ASSUME Inv, NEW t \in Threads, TakeItem(t)
  PROVE  \E p \in Frames : Takes(p)
<1>0. FlushInv
  BY DEF Inv
<1>1. /\ ~Quiet(t) /\ outputQueue # <<>> /\ outputQueue' = Tail(outputQueue)
      /\ WithItem(t).items = Append(Top(t).items, NextItem) /\ Moves(t, WithItem(t))
  BY TakeFacts
<1>2. /\ UNCHANGED <<written, window, lost>> /\ overtaken' = overtaken \cup HeldBeside(t)
  BY DEF TakeItem
<1>3. Shown' = Shown
  BY <1>2 DEF Shown, window
<1>4. PICK p \in Frames : p = Inner(t) /\ Items(p) = Top(t).items
  BY <1>0, <1>1, FrameFacts DEF Items
<1>5. /\ Frames' = Frames /\ Items(p)' = Append(Items(p), NextItem)
      /\ \A q \in Frames : q # p => Items(q)' = Items(q)
  BY <1>0, <1>1, <1>4, FramesMoved
<1>6. ASSUME NEW q \in Frames, q # p PROVE ToSet(Items(q)) \subseteq HeldBeside(t)
  <2>1. q[1] \in Threads /\ q[2] \in 1..Depth(q[1]) /\ q = <<q[1], q[2]>>
        /\ Items(q) = flushes[q[1]][q[2]].items
    BY <1>0, FrameFacts DEF Items
  <2>2. CASE q[1] = t
    <3>1. q[2] # Depth(t)
      BY <1>4, <1>6, <2>1, <2>2 DEF Inner
    <3>2. q[2] \in 1..Depth(t) - 1
      BY <1>0, <2>1, <2>2, <3>1, TopFacts DEF FlushInv
    <3>3. ToSet(Items(q)) \subseteq Held(t, Depth(t) - 1)
      BY <2>1, <2>2, <3>2 DEF Held
    <3> QED BY <3>3 DEF HeldBeside, Depth
  <2>3. CASE q[1] # t
    <3>1. ToSet(Items(q)) \subseteq Held(q[1], Depth(q[1]))
      BY <2>1 DEF Held
    <3> QED BY <2>1, <2>3, <3>1 DEF HeldBeside, Depth
  <2> QED BY <2>2, <2>3
<1>7. Takes(p)
  BY <1>1, <1>2, <1>3, <1>5, <1>6 DEF Takes
<1> QED BY <1>7

LEMMA DataFlush ==
  ASSUME Inv, Alone, NEW t \in Threads, QueueFlush(t)
  PROVE  Stays \/ \E p \in Frames : Takes(p) \/ Leaves(p)
<1>0. FlushInv /\ TypeOK /\ WindowInv
  BY DEF Inv
<1>1. ~Quiet(t)
  BY DEF QueueFlush, At, Begin, TakeItem, Taken, WindowIsThere, WindowIsGone, WindowIsNotToBe,
         BeginCreate, CreateSucceeds, CreateGivesUp, CreateRaises, PumpPaintMessages, WriteItems
<1>2. PICK p \in Frames : p = Inner(t) /\ Items(p) = Top(t).items
  BY <1>0, <1>1, FrameFacts DEF Items
<1>3. ASSUME NEW stage \in {"take", "pump", "recreate", "create", "write"}, Goto(t, stage)
      PROVE  Keeps
  <2>1. stage \in Stages /\ stage # "enter"
    BY DEF Stages
  <2>2. /\ [Top(t) EXCEPT !.stage = stage].items = Top(t).items
        /\ Moves(t, [Top(t) EXCEPT !.stage = stage])
    BY <1>0, <1>1, <1>3, <2>1, GotoFacts
  <2> QED BY <1>0, <1>1, <2>2, KeepsMoved
<1>4. ASSUME Pop(t)
      PROVE  Frames' = Frames \ {p} /\ \A q \in Frames' : Items(q)' = Items(q)
  <2>1. Pops(t)
    BY <1>0, <1>1, <1>4, PopFacts DEF FlushInv
  <2> QED BY <1>0, <1>1, <1>2, <2>1, FramesPopped
<1>5. ASSUME Pop(t), UNCHANGED <<outputQueue, written, overtaken, view, text, killBuffer>>,
             \/ Top(t).items = <<>> /\ lost' = lost
             \/ Drop(t)
      PROVE  Leaves(p)
  <2>1. Shown' = Shown
    BY <1>5 DEF Shown
  <2>2. lost' = lost \cup ToSet(Items(p))
    BY <1>2, <1>5 DEF Drop, ToSet
  <2> QED BY <1>2, <1>4, <1>5, <2>1, <2>2 DEF Leaves
<1>6. ASSUME Keeps, UNCHANGED <<outputQueue, written, overtaken, view, text, killBuffer, lost>>
      PROVE  Stays
  BY <1>6 DEF Stays, Shown
<1>7. CASE Begin(t)
  <2>1. UNCHANGED <<outputQueue, written, overtaken, view, text, killBuffer, lost>>
    BY <1>7 DEF Begin, window, history
  <2>2. CASE Return(t, TRUE)
    <3>1. Top(t).items = <<>>
      BY <1>0, <1>1, <1>7, TopFacts DEF Begin, At, FlushInv
    <3>2. Pop(t)
      BY <2>2 DEF Return
    <3> QED BY <1>5, <2>1, <3>1, <3>2
  <2>3. CASE Goto(t, "take")
    BY <1>3, <1>6, <2>1, <2>3
  <2> QED BY <1>7, <2>2, <2>3 DEF Begin
<1>8. CASE TakeItem(t)
  BY <1>8, TakesHolds
<1>9. CASE Taken(t)
  <2>1. UNCHANGED <<outputQueue, written, overtaken, view, text, killBuffer, lost>>
    BY <1>9 DEF Taken, window, history
  <2>2. CASE Top(t).items = <<>>
    <3>1. Pop(t)
      BY <1>9, <2>2 DEF Taken, Return
    <3> QED BY <1>5, <2>1, <2>2, <3>1
  <2>3. CASE Top(t).items # <<>>
    <3>1. Become(t, WithRc(t))
      BY <1>9, <2>3 DEF Taken, WithRc
    <3>2. WithRc(t).items = Top(t).items /\ Moves(t, WithRc(t))
      BY <1>0, <1>1, <3>1, CheckFacts
    <3>3. Keeps
      BY <1>0, <1>1, <3>2, KeepsMoved
    <3> QED BY <1>6, <2>1, <3>3
  <2> QED BY <2>2, <2>3
<1>10. CASE WindowIsThere(t) \/ CreateGivesUp(t) \/ PumpPaintMessages(t)
  <2>1. /\ \E stage \in {"pump", "write"} : Goto(t, stage)
        /\ UNCHANGED <<outputQueue, written, overtaken, view, text, killBuffer, lost>>
    BY <1>10 DEF WindowIsThere, CreateGivesUp, PumpPaintMessages, window, history
  <2>2. Keeps
    BY <1>3, <2>1
  <2> QED BY <1>6, <2>1, <2>2
<1>11. CASE WindowIsGone(t)
  <2>1. /\ Goto(t, "recreate")
        /\ UNCHANGED <<outputQueue, written, overtaken, view, text, killBuffer, lost>>
    BY <1>11 DEF WindowIsGone, window
  <2> QED BY <1>3, <1>6, <2>1
<1>12. CASE WindowIsNotToBe(t) \/ CreateRaises(t)
  <2>1. /\ Drop(t) /\ Return(t, TRUE)
        /\ UNCHANGED <<outputQueue, written, overtaken, view, text, killBuffer>>
    BY <1>12 DEF WindowIsNotToBe, CreateRaises
  <2>2. Pop(t)
    BY <2>1 DEF Return
  <2> QED BY <1>5, <2>1, <2>2
<1>13. CASE BeginCreate(t)
  <2>1. /\ Goto(t, "create")
        /\ UNCHANGED <<outputQueue, written, overtaken, view, text, killBuffer, lost>>
    BY <1>13 DEF BeginCreate, history
  <2> QED BY <1>3, <1>6, <2>1
<1>14. CASE CreateSucceeds(t)
  <2>1. /\ view' = "open" /\ text' = killBuffer /\ lost' = lost \cup ToSet(text)
        /\ Goto(t, "pump") /\ UNCHANGED <<outputQueue, written, overtaken>>
    BY <1>14 DEF CreateSucceeds
  <2>2. \/ Shown' = Shown /\ lost' = lost
        \/ Shown' = <<>> /\ lost' = lost \cup ToSet(Shown)
    <3>1. CASE view = "none"
      <4>1. text = <<>>
        BY <1>0, <3>1 DEF WindowInv
      <4> QED BY <2>1, <3>1, <4>1 DEF Shown, ToSet
    <3>2. CASE view = "open"
      <4>1. killBuffer = <<>>
        BY <1>0, <3>2 DEF WindowInv
      <4> QED BY <2>1, <3>2, <4>1 DEF Shown
    <3> QED BY <1>0, <3>1, <3>2 DEF TypeOK
  <2> QED BY <1>3, <2>1, <2>2 DEF Stays
<1>15. CASE WriteItems(t)
  <2>1. CASE view = "open"
    <3>1. /\ text' = text \o Top(t).items /\ Return(t, Top(t).rc)
          /\ UNCHANGED <<outputQueue, written, view, lost, overtaken>>
      BY <1>15, <2>1 DEF WriteItems, Written
    <3>2. Pop(t)
      BY <3>1 DEF Return
    <3>3. Shown' = Shown \o Items(p)
      BY <1>2, <2>1, <3>1 DEF Shown
    <3> QED BY <1>2, <1>4, <3>1, <3>2, <3>3 DEF Leaves
  <2>2. CASE view # "open"
    <3>1. /\ Drop(t) /\ Fail(t)
          /\ UNCHANGED <<outputQueue, written, overtaken, view, text, killBuffer>>
      BY <1>15, <2>2 DEF WriteItems
    <3>2. Pop(t)
      BY <3>1 DEF Fail
    <3> QED BY <1>5, <3>1, <3>2
  <2> QED BY <2>1, <2>2
<1> QED BY <1>7, <1>8, <1>9, <1>10, <1>11, <1>12, <1>13, <1>14, <1>15 DEF QueueFlush

LEMMA DataStep ==
  ASSUME Inv, Alone, [Next]_vars
  PROVE  Stays \/ \E p \in Frames : Takes(p) \/ Leaves(p)
<1>0. FlushInv /\ TypeOK /\ Main \in Threads
  BY MainFacts DEF Inv
<1>1. ASSUME NEW t \in Threads, NEW by \in {"idle", "call"}, Enter(t, by) PROVE Keeps
  <2>1. Pushes(t, by)
    BY <1>0, <1>1, PushFacts DEF FlushInv
  <2> QED BY <1>0, <2>1, FramesPushed
<1>2. ASSUME Keeps, UNCHANGED <<overtaken, view, text, killBuffer, lost>>,
             Put \/ UNCHANGED <<outputQueue, written>>
      PROVE  Stays
  BY <1>2 DEF Stays, Shown
<1>3. ASSUME NEW t \in Threads, QueueFlush(t)
      PROVE  Stays \/ \E p \in Frames : Takes(p) \/ Leaves(p)
  BY <1>3, DataFlush
<1>4. CASE OnIdle
  <2>1. Keeps
    <3>1. CASE Enter(Main, "idle")
      BY <1>0, <1>1, <3>1
    <3>2. CASE UNCHANGED flushes
      BY <3>2, FramesSame
    <3> QED BY <1>4, <3>1, <3>2 DEF OnIdle
  <2>2. UNCHANGED <<outputQueue, written, overtaken, view, text, killBuffer, lost>>
    BY <1>4 DEF OnIdle, window
  <2> QED BY <1>2, <2>1, <2>2
<1>5. CASE PumpMail \/ UNCHANGED vars
  <2>1. UNCHANGED <<flushes, outputQueue, written, overtaken, view, text, killBuffer, lost>>
    BY <1>5 DEF PumpMail, window, history, vars
  <2> QED BY <1>2, <2>1, FramesSame
<1>6. CASE HandlerPrints \/ MainPrints
  <2>1. PrintOnMain /\ UNCHANGED <<overtaken, view, text, killBuffer, lost>>
    BY <1>6 DEF HandlerPrints, MainPrints, window
  <2>2. Keeps
    <3>1. CASE Enter(Main, "call")
      BY <1>0, <1>1, <3>1
    <3>2. CASE UNCHANGED flushes
      BY <3>2, FramesSame
    <3> QED BY <2>1, <3>1, <3>2 DEF PrintOnMain
  <2>3. Put \/ UNCHANGED <<outputQueue, written>>
    BY <2>1 DEF PrintOnMain
  <2> QED BY <1>2, <2>1, <2>2, <2>3
<1>7. CASE Interrupt
  <2>1. /\ ~Quiet(Main) /\ Pops(Main) /\ Drop(Main)
        /\ UNCHANGED <<outputQueue, written, overtaken, window>>
    BY <1>7, InterruptFacts
  <2>2. PICK p \in Frames : p = Inner(Main) /\ Items(p) = Top(Main).items
    BY <1>0, <2>1, FrameFacts DEF Items
  <2>3. Frames' = Frames \ {p} /\ \A q \in Frames' : Items(q)' = Items(q)
    BY <1>0, <2>1, <2>2, FramesPopped
  <2>4. Shown' = Shown /\ lost' = lost \cup ToSet(Items(p))
    BY <2>1, <2>2 DEF Shown, window, Drop
  <2>5. Leaves(p)
    BY <2>1, <2>3, <2>4 DEF Leaves
  <2> QED BY <2>5
<1>8. CASE UserCloses \/ Close
  <2>1. /\ UNCHANGED <<flushes, outputQueue, written, overtaken, lost>>
    BY <1>8 DEF UserCloses, Close
  <2>2. \/ view = "open" /\ view' = "none" /\ killBuffer' = text
        \/ UNCHANGED <<view, text, killBuffer>>
    BY <1>8 DEF UserCloses, Close, Destroyed, SaveKillBuffer
  <2>3. Shown' = Shown
    BY <2>2 DEF Shown
  <2> QED BY <2>1, <2>3, FramesSame DEF Stays
<1>9. ASSUME NEW w \in Workers, WorkerWrites(w) PROVE Stays
  <2>1. UNCHANGED <<flushes, overtaken, view, text, killBuffer, lost>>
    BY <1>9 DEF WorkerWrites, window, history
  <2>2. Put \/ UNCHANGED <<outputQueue, written>>
    BY <1>9 DEF WorkerWrites, HandleOutput
  <2> QED BY <1>2, <2>1, <2>2, FramesSame
<1>10. ASSUME NEW w \in Workers, WorkerFlushes(w) PROVE Stays
  <2>1. Enter(w, "call") /\ UNCHANGED <<outputQueue, written, overtaken, view, text, killBuffer, lost>>
    BY <1>10 DEF WorkerFlushes, window
  <2>2. Keeps
    BY <1>1, <2>1, MainFacts
  <2> QED BY <1>2, <2>1, <2>2
<1> QED BY <1>3, <1>4, <1>5, <1>6, <1>7, <1>8, <1>9, <1>10 DEF Next

(***************************************************************************)
(* The order.                                                              *)
(***************************************************************************)
LEMMA AppendFacts ==
  ASSUME NEW S, NEW s \in Seq(S), NEW x \in S
  PROVE  /\ Append(s, x) \in Seq(S) /\ Len(s) \in Nat /\ DOMAIN s = 1..Len(s)
         /\ Len(s) + 1 \in DOMAIN Append(s, x) /\ Append(s, x)[Len(s) + 1] = x
         /\ \A i \in DOMAIN Append(s, x) :
              \/ i \in DOMAIN s /\ Append(s, x)[i] = s[i]
              \/ i = Len(s) + 1 /\ Append(s, x)[i] = x
         /\ \A i \in DOMAIN s : i \in DOMAIN Append(s, x) /\ Append(s, x)[i] = s[i]
OBVIOUS

LEMMA TailFacts ==
  ASSUME NEW S, NEW s \in Seq(S), s # <<>>
  PROVE  /\ Tail(s) \in Seq(S) /\ Head(s) \in S /\ DOMAIN s = 1..Len(s) /\ Len(s) \in Nat
         /\ 1 \in DOMAIN s /\ Head(s) = s[1]
         /\ \A i \in DOMAIN Tail(s) :
              i \in Nat /\ i > 0 /\ i + 1 \in DOMAIN s /\ Tail(s)[i] = s[i + 1]
         /\ \A i \in DOMAIN s : i # 1 => i - 1 \in DOMAIN Tail(s) /\ Tail(s)[i - 1] = s[i]
<1>1. Len(s) \in Nat /\ Len(s) # 0 /\ DOMAIN s = 1..Len(s)
  OBVIOUS
<1>2. /\ Tail(s) \in Seq(S) /\ Len(Tail(s)) = Len(s) - 1 /\ DOMAIN Tail(s) = 1..Len(s) - 1
      /\ \A i \in 1..Len(s) - 1 : Tail(s)[i] = s[i + 1]
  BY <1>1
<1>3. Head(s) = s[1] /\ 1 \in DOMAIN s
  BY <1>1
<1>4. \A i \in 1..Len(s) - 1 : i \in Nat /\ i > 0 /\ i + 1 \in 1..Len(s)
  BY <1>1
<1>5. ASSUME NEW i \in 1..Len(s), i # 1
      PROVE  i - 1 \in 1..Len(s) - 1 /\ Tail(s)[i - 1] = s[i]
  <2>1. i - 1 \in 1..Len(s) - 1 /\ i - 1 + 1 = i
    BY <1>1, <1>5
  <2> QED BY <1>2, <2>1
<1> QED BY <1>1, <1>2, <1>3, <1>4, <1>5

LEMMA ConcatFacts ==
  ASSUME NEW S, NEW s \in Seq(S), NEW t \in Seq(S)
  PROVE  /\ s \o t \in Seq(S) /\ DOMAIN s = 1..Len(s) /\ Len(s) \in Nat
         /\ \A i \in DOMAIN (s \o t) :
              \/ i \in DOMAIN s /\ (s \o t)[i] = s[i]
              \/ i \in Nat /\ i > Len(s) /\ i - Len(s) \in DOMAIN t
                 /\ (s \o t)[i] = t[i - Len(s)]
         /\ \A i \in DOMAIN s : i \in DOMAIN (s \o t) /\ (s \o t)[i] = s[i]
         /\ \A j \in DOMAIN t : Len(s) + j \in DOMAIN (s \o t) /\ (s \o t)[Len(s) + j] = t[j]
<1>1. /\ Len(s) \in Nat /\ Len(t) \in Nat /\ DOMAIN s = 1..Len(s) /\ DOMAIN t = 1..Len(t)
      /\ s \o t \in Seq(S) /\ DOMAIN (s \o t) = 1..Len(s) + Len(t)
  OBVIOUS
<1>2. \A i \in 1..Len(s) + Len(t) :
        (s \o t)[i] = IF i =< Len(s) THEN s[i] ELSE t[i - Len(s)]
  OBVIOUS
<1>3. ASSUME NEW i \in 1..Len(s) + Len(t)
      PROVE  \/ i \in 1..Len(s) /\ (s \o t)[i] = s[i]
             \/ i \in Nat /\ i > Len(s) /\ i - Len(s) \in 1..Len(t)
                /\ (s \o t)[i] = t[i - Len(s)]
  BY <1>1, <1>2
<1>4. ASSUME NEW i \in 1..Len(s) PROVE i \in 1..Len(s) + Len(t) /\ (s \o t)[i] = s[i]
  BY <1>1, <1>2
<1>5. ASSUME NEW j \in 1..Len(t)
      PROVE  Len(s) + j \in 1..Len(s) + Len(t) /\ (s \o t)[Len(s) + j] = t[j]
  <2>1. Len(s) + j \in 1..Len(s) + Len(t) /\ ~(Len(s) + j =< Len(s)) /\ Len(s) + j - Len(s) = j
    BY <1>1
  <2> QED BY <1>2, <2>1
<1> DEFINE v == s \o t
           m == Len(s)
           n == Len(t)
<1>6. /\ \A i \in 1..m + n : \/ i \in 1..m /\ v[i] = s[i]
                             \/ i \in Nat /\ i > m /\ i - m \in 1..n /\ v[i] = t[i - m]
  BY <1>3
<1>7. /\ \A i \in 1..m : i \in 1..m + n /\ v[i] = s[i]
      /\ \A j \in 1..n : m + j \in 1..m + n /\ v[m + j] = t[j]
  BY <1>4, <1>5
<1>8. /\ v \in Seq(S) /\ m \in Nat
      /\ DOMAIN s = 1..m /\ DOMAIN t = 1..n /\ DOMAIN v = 1..m + n
      /\ \A i \in 1..m + n : \/ i \in 1..m /\ v[i] = s[i]
                             \/ i \in Nat /\ i > m /\ i - m \in 1..n /\ v[i] = t[i - m]
      /\ \A i \in 1..m : i \in 1..m + n /\ v[i] = s[i]
      /\ \A j \in 1..n : m + j \in 1..m + n /\ v[m + j] = t[j]
  BY <1>1, <1>6, <1>7
<1> HIDE DEF v, m, n
<1>9. /\ v \in Seq(S) /\ DOMAIN s = 1..m /\ m \in Nat
      /\ \A i \in DOMAIN v :
           \/ i \in DOMAIN s /\ v[i] = s[i]
           \/ i \in Nat /\ i > m /\ i - m \in DOMAIN t /\ v[i] = t[i - m]
      /\ \A i \in DOMAIN s : i \in DOMAIN v /\ v[i] = s[i]
      /\ \A j \in DOMAIN t : m + j \in DOMAIN v /\ v[m + j] = t[j]
  BY ONLY <1>8
<1> QED BY <1>9 DEF v, m

Rising(s) == \A i, j \in DOMAIN s : i < j => s[i] < s[j]
Upto(s, n) == \A i \in DOMAIN s : s[i] =< n
Below(s, t) == \A i \in DOMAIN s, j \in DOMAIN t : s[i] < t[j]

\* The messages of the second come after those of the first, or were overtaken.
After(s, t) == \A i \in DOMAIN s, j \in DOMAIN t : s[i] < t[j] \/ t[j] \in overtaken

\* The queue is in order and later than anything that has left it.  What a
\* flush holds is in order, and later than what is shown and what the others
\* hold, unless one of those has overtaken it.
Ordered ==
  /\ Rising(outputQueue) /\ Upto(outputQueue, written)
  /\ Below(Shown, outputQueue) /\ Upto(Shown, written) /\ InOrder
  /\ \A p \in Frames : /\ Rising(Items(p)) /\ Upto(Items(p), written)
                       /\ Below(Items(p), outputQueue) /\ After(Shown, Items(p))
  /\ \A p, q \in Frames : p # q => After(Items(p), Items(q))

LEMMA EmptyOrder ==
  /\ Rising(<<>>) /\ \A n : Upto(<<>>, n)
  /\ \A s : Below(s, <<>>) /\ Below(<<>>, s) /\ After(s, <<>>) /\ After(<<>>, s)
BY DEF Rising, Upto, Below, After

LEMMA NumberFacts ==
  ASSUME TypeOK, FlushInv
  PROVE  /\ written \in Nat
         /\ Shown \in Seq(Messages) /\ outputQueue \in Seq(Messages)
         /\ \A s \in Seq(Messages) : \A i \in DOMAIN s : s[i] \in Nat
         /\ \A p \in Frames : Items(p) \in Seq(Messages)
<1>1. \A m \in Messages : m \in Nat
  BY WindowAssumption DEF Messages
<1>2. \A s \in Seq(Messages) : \A i \in DOMAIN s : s[i] \in Messages
  OBVIOUS
<1>3. Shown \in Seq(Messages) /\ outputQueue \in Seq(Messages) /\ written \in Nat
  BY WindowAssumption DEF TypeOK, Shown
<1> QED BY <1>1, <1>2, <1>3, FrameFacts

\* A message that is written is later than anything.
LEMMA OrderPut ==
  ASSUME TypeOK, FlushInv, Put, NEW s \in Seq(Messages), Upto(s, written)
  PROVE  /\ Upto(s, written')
         /\ Below(s, outputQueue) => Below(s, outputQueue')
         /\ Rising(outputQueue) /\ Upto(outputQueue, written) =>
              Rising(outputQueue') /\ Upto(outputQueue', written')
<1>1. /\ outputQueue' = Append(outputQueue, written + 1) /\ written' = written + 1
      /\ written + 1 \in Messages /\ written \in Nat
      /\ outputQueue \in Seq(Messages)
      /\ \A r \in Seq(Messages) : \A i \in DOMAIN r : r[i] \in Nat
  BY PutTypes, NumberFacts DEF Put
<1>2. /\ Len(outputQueue) \in Nat /\ DOMAIN outputQueue = 1..Len(outputQueue)
      /\ \A i \in DOMAIN outputQueue' :
           \/ i \in DOMAIN outputQueue /\ outputQueue'[i] = outputQueue[i]
           \/ i = Len(outputQueue) + 1 /\ outputQueue'[i] = written + 1
  BY <1>1, AppendFacts
<1>3. Upto(s, written')
  BY <1>1 DEF Upto
<1>4. Below(s, outputQueue) => Below(s, outputQueue')
  BY <1>1, <1>2 DEF Below, Upto
<1>5. ASSUME Rising(outputQueue), Upto(outputQueue, written)
      PROVE  Rising(outputQueue') /\ Upto(outputQueue', written')
  <2>1. \A i \in DOMAIN outputQueue :
          outputQueue[i] \in Nat /\ outputQueue[i] =< written
    BY <1>1, <1>5 DEF Upto
  <2>2. Upto(outputQueue', written')
    BY <1>1, <1>2, <2>1 DEF Upto
  <2>3. ASSUME NEW i \in DOMAIN outputQueue', NEW j \in DOMAIN outputQueue', i < j
        PROVE  outputQueue'[i] < outputQueue'[j]
    <3>1. i \in DOMAIN outputQueue /\ outputQueue'[i] = outputQueue[i]
      BY <1>2, <2>3
    <3>2. CASE j \in DOMAIN outputQueue
      <4>1. j # Len(outputQueue) + 1
        BY <1>2, <3>2
      <4> QED BY <1>2, <1>5, <2>3, <3>1, <4>1 DEF Rising
    <3>3. CASE j = Len(outputQueue) + 1
      <4>1. outputQueue'[j] = written + 1
        BY <1>2, <3>3
      <4> QED BY <1>1, <2>1, <3>1, <4>1
    <3> QED BY <1>2, <3>2, <3>3
  <2> QED BY <2>2, <2>3 DEF Rising
<1> QED BY <1>3, <1>4, <1>5

LEMMA OrderStays ==
  ASSUME Inv, Ordered, Stays
  PROVE  Ordered'
<1>0. TypeOK /\ FlushInv
  BY DEF Inv
<1>1. /\ Shown \in Seq(Messages) /\ outputQueue \in Seq(Messages)
      /\ \A p \in Frames : Items(p) \in Seq(Messages)
  BY <1>0, NumberFacts
<1>2. \A s \in Seq(Messages) : Upto(s, written) =>
        /\ Upto(s, written')
        /\ Below(s, outputQueue) => Below(s, outputQueue')
  BY <1>0, OrderPut DEF Stays
<1>3. Rising(outputQueue') /\ Upto(outputQueue', written')
  <2>1. CASE Put
    BY <1>0, <1>1, <2>1, OrderPut DEF Ordered
  <2>2. CASE UNCHANGED <<outputQueue, written>>
    BY <2>2 DEF Ordered
  <2> QED BY <2>1, <2>2 DEF Stays
<1>4. ASSUME NEW s, NEW t PROVE After(s, t)' <=> \A i \in DOMAIN s', j \in DOMAIN t' :
                                         s'[i] < t'[j] \/ t'[j] \in overtaken
  BY DEF After, Stays
<1>5. Shown' = Shown \/ Shown' = <<>>
  BY DEF Stays
<1>6. ASSUME NEW p \in Frames'
      PROVE  Items(p)' = <<>> \/ (p \in Frames /\ Items(p)' = Items(p))
  <2>1. Items(p)' = IF p \in Frames THEN Items(p) ELSE <<>>
    BY DEF Stays, Keeps
  <2> QED BY ONLY <2>1
<1>7. Below(Shown', outputQueue') /\ Upto(Shown', written')
  <2>1. CASE Shown' = Shown
    BY <1>1, <1>2, <2>1 DEF Ordered
  <2>2. CASE Shown' = <<>>
    BY <2>2, EmptyOrder
  <2> QED BY <1>5, <2>1, <2>2
<1>8. InOrder'
  BY <1>5 DEF Ordered, InOrder, Stays
<1>9. ASSUME NEW p \in Frames'
      PROVE  /\ Rising(Items(p)') /\ Upto(Items(p)', written')
             /\ Below(Items(p)', outputQueue')
  <2>1. CASE Items(p)' = <<>>
    BY <2>1, EmptyOrder
  <2>2. CASE p \in Frames /\ Items(p)' = Items(p)
    BY <1>1, <1>2, <2>2 DEF Ordered
  <2> QED BY <1>6, <2>1, <2>2
<1>10. ASSUME NEW p \in Frames' PROVE After(Shown, Items(p))'
  <2>1. CASE Shown' = <<>> \/ Items(p)' = <<>>
    BY <2>1 DEF After
  <2>2. CASE Shown' = Shown /\ p \in Frames /\ Items(p)' = Items(p)
    BY <2>2 DEF Ordered, After, Stays
  <2> QED BY <1>5, <1>6, <2>1, <2>2
<1>11. ASSUME NEW p \in Frames', NEW q \in Frames', p # q PROVE After(Items(p), Items(q))'
  <2>1. CASE Items(p)' = <<>> \/ Items(q)' = <<>>
    BY <2>1 DEF After
  <2>2. CASE p \in Frames /\ q \in Frames /\ Items(p)' = Items(p) /\ Items(q)' = Items(q)
    BY <1>11, <2>2 DEF Ordered, After, Stays
  <2> QED BY <1>6, <2>1, <2>2
<1> QED BY <1>3, <1>7, <1>8, <1>9, <1>10, <1>11 DEF Ordered, Rising, Upto, Below

LEMMA OrderTakes ==
  ASSUME Inv, Ordered, NEW p \in Frames, Takes(p)
  PROVE  Ordered'
<1>0. TypeOK /\ FlushInv
  BY DEF Inv
<1> DEFINE x == NextItem
<1>1. /\ Shown \in Seq(Messages) /\ outputQueue \in Seq(Messages) /\ written \in Nat
      /\ \A q \in Frames : Items(q) \in Seq(Messages)
      /\ \A s \in Seq(Messages) : \A i \in DOMAIN s : s[i] \in Nat
  BY <1>0, NumberFacts
<1>2. /\ 1 \in DOMAIN outputQueue /\ x = outputQueue[1] /\ x \in Messages
      /\ \A i \in DOMAIN outputQueue' :
           i \in Nat /\ i > 0 /\ i + 1 \in DOMAIN outputQueue
           /\ outputQueue'[i] = outputQueue[i + 1]
  BY <1>1, TailFacts DEF Takes, NextItem
<1>3. /\ Len(Items(p)) \in Nat /\ DOMAIN Items(p) = 1..Len(Items(p))
      /\ \A i \in DOMAIN Items(p)' :
           \/ i \in DOMAIN Items(p) /\ Items(p)'[i] = Items(p)[i]
           \/ i = Len(Items(p)) + 1 /\ Items(p)'[i] = x
  BY <1>1, <1>2, AppendFacts DEF Takes
<1> HIDE DEF x
<1>4. Frames' = Frames /\ Shown' = Shown /\ written' = written /\ overtaken \subseteq overtaken'
  BY DEF Takes
<1>5. \A q \in Frames : q # p => Items(q)' = Items(q)
  BY DEF Takes
<1>6. Rising(outputQueue') /\ Upto(outputQueue', written)
  <2>1. Upto(outputQueue', written)
    BY <1>2 DEF Ordered, Upto
  <2>2. ASSUME NEW i \in DOMAIN outputQueue', NEW j \in DOMAIN outputQueue', i < j
        PROVE  outputQueue'[i] < outputQueue'[j]
    <3>1. i + 1 < j + 1 /\ i + 1 \in DOMAIN outputQueue /\ j + 1 \in DOMAIN outputQueue
      BY <1>2, <2>2
    <3> QED BY <1>2, <3>1 DEF Ordered, Rising
  <2> QED BY <2>1, <2>2 DEF Rising
<1>7. \A s : Below(s, outputQueue) => /\ Below(s, outputQueue')
                                      /\ \A i \in DOMAIN s : s[i] < x
  BY <1>2 DEF Below
<1>8. /\ x =< written
      /\ \A j \in DOMAIN outputQueue' : x < outputQueue'[j]
  <2>1. x =< written
    BY <1>2 DEF Ordered, Upto
  <2>2. ASSUME NEW j \in DOMAIN outputQueue' PROVE x < outputQueue'[j]
    <3>1. 1 < j + 1 /\ j + 1 \in DOMAIN outputQueue
      BY <1>2
    <3> QED BY <1>2, <3>1 DEF Ordered, Rising
  <2> QED BY <2>1, <2>2
<1>9. InOrder'
  BY <1>4 DEF Ordered, InOrder
<1>10. Rising(Items(p)') /\ Upto(Items(p)', written) /\ Below(Items(p)', outputQueue')
  <2>1. /\ Rising(Items(p)) /\ Upto(Items(p), written) /\ Below(Items(p), outputQueue')
        /\ \A i \in DOMAIN Items(p) : Items(p)[i] < x
    BY <1>7 DEF Ordered
  <2>2. Upto(Items(p)', written)
    BY <1>3, <1>8, <2>1 DEF Upto
  <2>3. Below(Items(p)', outputQueue')
    BY <1>3, <1>8, <2>1 DEF Below
  <2>4. ASSUME NEW i \in DOMAIN Items(p)', NEW j \in DOMAIN Items(p)', i < j
        PROVE  Items(p)'[i] < Items(p)'[j]
    <3>1. i \in DOMAIN Items(p) /\ Items(p)'[i] = Items(p)[i]
      BY <1>3, <2>4
    <3> QED BY <1>3, <2>1, <2>4, <3>1 DEF Rising
  <2> QED BY <2>2, <2>3, <2>4 DEF Rising
<1>11. ASSUME NEW q \in Frames
       PROVE  /\ Rising(Items(q)') /\ Upto(Items(q)', written) /\ Below(Items(q)', outputQueue')
  <2>1. CASE q = p
    BY <1>10, <2>1
  <2>2. CASE q # p
    BY <1>5, <1>7, <2>2 DEF Ordered
  <2> QED BY <2>1, <2>2
<1>12. ASSUME NEW s, After(s, Items(p)), Below(s, outputQueue),
              NEW i \in DOMAIN s, NEW j \in DOMAIN Items(p)'
       PROVE  s[i] < Items(p)'[j] \/ Items(p)'[j] \in overtaken'
  BY <1>3, <1>4, <1>7, <1>12 DEF After
<1>13. ASSUME NEW q \in Frames PROVE After(Shown, Items(q))'
  <2>1. CASE q = p
    <3>1. After(Shown, Items(p)) /\ Below(Shown, outputQueue)
      BY DEF Ordered
    <3> QED BY <1>4, <1>12, <2>1, <3>1 DEF After
  <2>2. CASE q # p
    <3>1. After(Shown, Items(q))
      BY DEF Ordered
    <3> QED BY <1>4, <1>5, <2>2, <3>1 DEF After
  <2> QED BY <2>1, <2>2
<1>14. ASSUME NEW q \in Frames, NEW r \in Frames, q # r PROVE After(Items(q), Items(r))'
  <2>1. CASE r = p
    <3>1. After(Items(q), Items(p)) /\ Below(Items(q), outputQueue) /\ Items(q)' = Items(q)
      BY <1>5, <1>14, <2>1 DEF Ordered
    <3> QED BY <1>12, <2>1, <3>1 DEF After
  <2>2. CASE r # p
    <3>1. ToSet(Items(r)) \subseteq overtaken' /\ Items(r)' = Items(r)
      BY <2>2 DEF Takes
    <3> QED BY <3>1 DEF After, ToSet
  <2> QED BY <2>1, <2>2
<1>15. Below(Shown', outputQueue') /\ Upto(Shown', written')
  BY <1>4, <1>7 DEF Ordered
<1> QED BY <1>4, <1>6, <1>9, <1>11, <1>13, <1>14, <1>15 DEF Ordered, Rising, Upto, Below

LEMMA OrderLeaves ==
  ASSUME Inv, Ordered, NEW p \in Frames, Leaves(p)
  PROVE  Ordered'
<1>0. TypeOK /\ FlushInv
  BY DEF Inv
<1>1. /\ Shown \in Seq(Messages) /\ Items(p) \in Seq(Messages)
      /\ \A s \in Seq(Messages) : \A i \in DOMAIN s : s[i] \in Nat
  BY <1>0, NumberFacts
<1>2. /\ \A q \in Frames' : q \in Frames /\ q # p /\ Items(q)' = Items(q)
      /\ UNCHANGED <<outputQueue, written, overtaken>>
  BY DEF Leaves
<1>3. ASSUME NEW q \in Frames'
      PROVE  Rising(Items(q)') /\ Upto(Items(q)', written) /\ Below(Items(q)', outputQueue)
  BY <1>2 DEF Ordered
<1>4. ASSUME NEW q \in Frames', NEW r \in Frames', q # r PROVE After(Items(q), Items(r))'
  <2>1. After(Items(q), Items(r))
    BY <1>2, <1>4 DEF Ordered
  <2> QED BY <1>2, <2>1 DEF After
<1>5. CASE Shown' = Shown
  <2>1. ASSUME NEW q \in Frames' PROVE After(Shown, Items(q))'
    <3>1. After(Shown, Items(q))
      BY <1>2 DEF Ordered
    <3> QED BY <1>2, <1>5, <3>1 DEF After
  <2>2. InOrder'
    BY <1>2, <1>5 DEF Ordered, InOrder
  <2> QED BY <1>2, <1>3, <1>4, <1>5, <2>1, <2>2 DEF Ordered, Rising, Upto, Below
<1>6. CASE Shown' = Shown \o Items(p)
  <2> DEFINE n == Len(Shown)
  <2>1. /\ n \in Nat /\ DOMAIN Shown = 1..n
        /\ \A i \in DOMAIN Shown' :
             \/ i \in DOMAIN Shown /\ Shown'[i] = Shown[i]
             \/ i \in Nat /\ i > n /\ i - n \in DOMAIN Items(p) /\ Shown'[i] = Items(p)[i - n]
    BY <1>1, <1>6, ConcatFacts
  <2> HIDE DEF n
  <2>2. /\ Upto(Items(p), written) /\ Upto(Shown, written) /\ Rising(Items(p)) /\ InOrder
        /\ Below(Items(p), outputQueue) /\ Below(Shown, outputQueue)
        /\ After(Shown, Items(p))
    BY DEF Ordered
  <2>3. Upto(Shown', written) /\ Below(Shown', outputQueue)
    BY <2>1, <2>2 DEF Upto, Below
  <2>4. ASSUME NEW q \in Frames' PROVE After(Shown, Items(q))'
    <3>1. After(Shown, Items(q)) /\ After(Items(p), Items(q))
      BY <1>2 DEF Ordered
    <3> QED BY <1>2, <2>1, <3>1 DEF After
  <2>5. ASSUME NEW i \in DOMAIN Shown', NEW j \in DOMAIN Shown', i < j
        PROVE  Shown'[i] < Shown'[j] \/ Shown'[j] \in overtaken
    <3>1. CASE i \in DOMAIN Shown /\ j \in DOMAIN Shown
      <4>1. Shown'[i] = Shown[i] /\ Shown'[j] = Shown[j]
        BY <2>1, <3>1
      <4> QED BY <2>2, <2>5, <3>1, <4>1 DEF InOrder
    <3>2. CASE i \in DOMAIN Shown /\ j \notin DOMAIN Shown
      <4>1. Shown'[i] = Shown[i] /\ j - n \in DOMAIN Items(p) /\ Shown'[j] = Items(p)[j - n]
        BY <2>1, <3>2
      <4> QED BY <2>2, <3>2, <4>1 DEF After
    <3>3. CASE i \notin DOMAIN Shown
      <4>1. /\ i - n \in DOMAIN Items(p) /\ Shown'[i] = Items(p)[i - n]
            /\ i \in Nat /\ i > n
        BY <2>1, <3>3
      <4>2. j \notin DOMAIN Shown
        BY <2>1, <2>5, <4>1
      <4>3. j \in Nat /\ j - n \in DOMAIN Items(p) /\ Shown'[j] = Items(p)[j - n]
        BY <2>1, <4>2
      <4>4. i - n < j - n
        BY <2>1, <2>5, <4>1, <4>3
      <4> QED BY <2>2, <4>1, <4>3, <4>4 DEF Rising
    <3> QED BY <3>1, <3>2, <3>3
  <2>6. InOrder'
    BY <1>2, <2>5 DEF InOrder
  <2> QED BY <1>2, <1>3, <1>4, <2>3, <2>4, <2>6 DEF Ordered, Rising, Upto, Below
<1> QED BY <1>5, <1>6 DEF Leaves

LEMMA OrderedInit == Init => Ordered
<1> SUFFICES ASSUME Init PROVE Ordered
  OBVIOUS
<1>1. Shown = <<>> /\ outputQueue = <<>>
  BY DEF Init, Shown
<1>2. Frames = {}
  <2>1. \A t \in Threads : Depth(t) = 0
    BY DEF Init, Depth
  <2> QED BY <2>1 DEF Frames
<1>3. InOrder
  BY <1>1 DEF InOrder
<1> QED BY <1>1, <1>2, <1>3, EmptyOrder DEF Ordered

LEMMA OrderedHolds == Spec => []Ordered
<1>1. Inv /\ Alone /\ Ordered /\ [Next]_vars => Ordered'
  BY DataStep, OrderStays, OrderTakes, OrderLeaves
<1> QED BY <1>1, OrderedInit, InvHolds, AloneHolds, PTL DEF Spec

\* Messages are shown in the order in which they were written, whoever wrote
\* them and whoever flushed them, for any number of threads, messages and
\* flushes inside one another, but for those that were held up in one flush
\* while another one went on to take later ones.
THEOREM SpecInOrder == Spec => []InOrder
<1>1. Ordered => InOrder
  BY DEF Ordered
<1> QED BY <1>1, OrderedHolds, PTL

(***************************************************************************)
(* Every message is in one place.                                          *)
(***************************************************************************)
LEMMA SetFacts ==
  \A s, x : x \in ToSet(s) <=> \E i \in DOMAIN s : s[i] = x
BY DEF ToSet

LEMMA EmptySet == ToSet(<<>>) = {} /\ IsInjective(<<>>)
BY DEF ToSet, IsInjective

LEMMA AppendSet ==
  ASSUME NEW S, NEW s \in Seq(S), NEW x \in S
  PROVE  /\ ToSet(Append(s, x)) = ToSet(s) \cup {x}
         /\ IsInjective(s) /\ x \notin ToSet(s) => IsInjective(Append(s, x))
<1>1. /\ Len(s) \in Nat /\ DOMAIN s = 1..Len(s)
      /\ DOMAIN Append(s, x) = 1..Len(s) + 1
      /\ \A i \in 1..Len(s) : Append(s, x)[i] = s[i]
      /\ Append(s, x)[Len(s) + 1] = x
  OBVIOUS
<1>2. 1..Len(s) + 1 = 1..Len(s) \cup {Len(s) + 1} /\ Len(s) + 1 \notin 1..Len(s)
  BY <1>1
<1> QED BY <1>1, <1>2 DEF ToSet, IsInjective

LEMMA ConcatSet ==
  ASSUME NEW S, NEW s \in Seq(S), NEW t \in Seq(S)
  PROVE  /\ ToSet(s \o t) = ToSet(s) \cup ToSet(t)
         /\ IsInjective(s) /\ IsInjective(t) /\ ToSet(s) \cap ToSet(t) = {} => IsInjective(s \o t)
<1> DEFINE m == Len(s)
           n == Len(t)
           v == s \o t
<1>1. m \in Nat /\ n \in Nat /\ DOMAIN s = 1..m /\ DOMAIN t = 1..n
  OBVIOUS
<1>2. /\ DOMAIN v = 1..m + n
      /\ \A i \in 1..m : v[i] = s[i]
      /\ \A i \in 1..m + n : i > m => v[i] = t[i - m]
      /\ \A j \in 1..n : v[m + j] = t[j]
  OBVIOUS
<1> HIDE DEF m, n, v
<1>3. ToSet(v) = ToSet(s) \cup ToSet(t)
  <2>1. \A i \in 1..m + n : v[i] \in ToSet(s) \cup ToSet(t)
    <3> SUFFICES ASSUME NEW i \in 1..m + n PROVE v[i] \in ToSet(s) \cup ToSet(t)
      OBVIOUS
    <3>1. CASE i =< m
      BY <1>1, <1>2, <3>1 DEF ToSet
    <3>2. CASE i > m
      <4>1. i - m \in 1..n
        BY <1>1, <3>2
      <4> QED BY <1>1, <1>2, <3>2, <4>1 DEF ToSet
    <3> QED BY <1>1, <3>1, <3>2
  <2>2. \A x : x \in ToSet(s) => x \in ToSet(v)
    <3>1. \A i \in 1..m : i \in 1..m + n
      BY <1>1
    <3> QED BY <1>1, <1>2, <3>1, SetFacts
  <2>3. \A x : x \in ToSet(t) => x \in ToSet(v)
    <3>1. \A j \in 1..n : m + j \in 1..m + n
      BY <1>1
    <3> QED BY <1>1, <1>2, <3>1, SetFacts
  <2>4. ASSUME NEW x \in ToSet(v) PROVE x \in ToSet(s) \cup ToSet(t)
    <3>1. PICK i \in DOMAIN v : v[i] = x
      BY SetFacts
    <3> QED BY <1>2, <2>1, <3>1
  <2> QED BY <2>2, <2>3, <2>4
<1>4. ASSUME IsInjective(s), IsInjective(t), ToSet(s) \cap ToSet(t) = {},
             NEW i \in 1..m + n, NEW j \in 1..m + n, v[i] = v[j]
      PROVE  i = j
  <2>0. \A k \in 1..m + n : k > m => k - m \in 1..n
    BY <1>1
  <2>1. CASE i =< m /\ j =< m
    BY <1>1, <1>2, <1>4, <2>1 DEF IsInjective
  <2>2. CASE i > m /\ j > m
    <3>1. /\ i - m \in DOMAIN t /\ j - m \in DOMAIN t
          /\ v[i] = t[i - m] /\ v[j] = t[j - m]
      BY <1>1, <1>2, <2>0, <2>2
    <3>2. i - m = j - m
      BY <1>4, <3>1 DEF IsInjective
    <3> QED BY <1>1, <3>2
  <2>3. ASSUME NEW a \in 1..m + n, NEW b \in 1..m + n, a =< m, b > m
        PROVE  v[a] # v[b]
    <3>1. v[a] \in ToSet(s)
      BY <1>1, <1>2, <2>3, SetFacts
    <3>2. v[b] \in ToSet(t)
      BY <1>1, <1>2, <2>0, <2>3, SetFacts
    <3> QED BY <1>4, <3>1, <3>2
  <2>4. ~(i =< m /\ j > m) /\ ~(i > m /\ j =< m)
    BY <1>4, <2>3
  <2> QED BY <1>1, <2>1, <2>2, <2>3, <2>4
<1> QED BY <1>2, <1>3, <1>4 DEF IsInjective, v

LEMMA TailSet ==
  ASSUME NEW S, NEW s \in Seq(S), s # <<>>, IsInjective(s)
  PROVE  /\ ToSet(s) = ToSet(Tail(s)) \cup {Head(s)} /\ Head(s) \notin ToSet(Tail(s))
         /\ IsInjective(Tail(s))
<1> DEFINE r == Tail(s)
           x == Head(s)
<1>1. /\ 1 \in DOMAIN s /\ x = s[1]
      /\ \A i \in DOMAIN r : i \in Nat /\ i > 0 /\ i + 1 \in DOMAIN s /\ r[i] = s[i + 1]
      /\ \A i \in DOMAIN s : i # 1 => i - 1 \in DOMAIN r /\ r[i - 1] = s[i]
  BY TailFacts
<1> HIDE DEF r, x
<1>2. \A i, j \in DOMAIN s : s[i] = s[j] => i = j
  BY DEF IsInjective
<1>3. ASSUME NEW i \in DOMAIN r PROVE r[i] # x
  <2>1. i + 1 # 1
    BY <1>1
  <2> QED BY <1>1, <1>2, <2>1
<1>4. ASSUME NEW i \in DOMAIN r, NEW j \in DOMAIN r, r[i] = r[j] PROVE i = j
  <2>1. i + 1 = j + 1
    BY <1>1, <1>2, <1>4
  <2> QED BY <1>1, <2>1
<1>5. ASSUME NEW y PROVE y \in ToSet(s) <=> y \in ToSet(r) \/ y = x
  <2>1. ASSUME NEW i \in DOMAIN s, s[i] = y PROVE y \in ToSet(r) \/ y = x
    BY <1>1, <2>1, SetFacts
  <2>2. ASSUME NEW i \in DOMAIN r, r[i] = y PROVE y \in ToSet(s)
    BY <1>1, <2>2, SetFacts
  <2>3. x \in ToSet(s)
    BY <1>1, SetFacts
  <2> QED BY <2>1, <2>2, <2>3, SetFacts
<1>6. ToSet(s) = ToSet(r) \cup {x} /\ x \notin ToSet(r)
  BY <1>3, <1>5, SetFacts
<1>7. IsInjective(r)
  BY <1>4 DEF IsInjective
<1> QED BY <1>6, <1>7 DEF r, x

Waiting == ToSet(outputQueue)
Visible == ToSet(Shown)
Carried(p) == ToSet(Items(p))

Parted ==
  /\ IsInjective(outputQueue) /\ IsInjective(Shown)
  /\ \A p \in Frames : IsInjective(Items(p))
  /\ Waiting \cap Visible = {} /\ Waiting \cap lost = {} /\ Visible \cap lost = {}
  /\ \A p \in Frames : Carried(p) \cap (Waiting \cup Visible \cup lost) = {}
  /\ \A p, q \in Frames : p # q => Carried(p) \cap Carried(q) = {}
  /\ \A m : m \in 1..written <=> \/ m \in Waiting \/ m \in Visible \/ m \in lost
                                 \/ \E p \in Frames : m \in Carried(p)

LEMMA PartedStays ==
  ASSUME Inv, Parted, Stays
  PROVE  Parted'
<1>0. TypeOK /\ FlushInv
  BY DEF Inv
<1>1. ASSUME NEW p \in Frames'
      PROVE  /\ Carried(p)' = IF p \in Frames THEN Carried(p) ELSE {}
             /\ IsInjective(Items(p)')
  <2>1. Items(p)' = IF p \in Frames THEN Items(p) ELSE <<>>
    BY DEF Stays, Keeps
  <2>2. CASE p \in Frames
    <3>1. Items(p)' = Items(p)
      BY <2>1, <2>2
    <3> QED BY <2>2, <3>1 DEF Carried, Parted
  <2>3. CASE p \notin Frames
    <3>1. Items(p)' = <<>>
      BY <2>1, <2>3
    <3> QED BY <2>3, <3>1, EmptySet DEF Carried
  <2> QED BY <2>2, <2>3
<1>2. \A m : (\E p \in Frames' : m \in Carried(p)') <=> \E p \in Frames : m \in Carried(p)
  BY <1>1 DEF Stays, Keeps
<1>3. /\ IsInjective(Shown') /\ Visible' \cup lost' = Visible \cup lost
      /\ Visible' \cap lost' = {}
  <2>1. CASE Shown' = Shown /\ lost' = lost
    <3>1. Visible' = Visible
      BY <2>1 DEF Visible
    <3> QED BY <2>1, <3>1 DEF Parted
  <2>2. CASE Shown' = <<>> /\ lost' = lost \cup ToSet(Shown)
    <3>1. Visible' = {} /\ lost' = lost \cup Visible
      BY <2>2, EmptySet DEF Visible
    <3> QED BY <2>2, <3>1, EmptySet
  <2> QED BY <2>1, <2>2 DEF Stays
<1>4. ASSUME NEW p \in Frames' PROVE Carried(p)' \cap (Visible' \cup lost') = {}
  <2>1. p \in Frames => Carried(p) \cap (Visible \cup lost) = {}
    BY DEF Parted
  <2> QED BY <1>1, <1>3, <2>1
<1>5. \A p, q \in Frames' : p # q => Carried(p)' \cap Carried(q)' = {}
  BY <1>1 DEF Parted
<1>6. /\ IsInjective(outputQueue') /\ Waiting' \cap (Visible' \cup lost') = {}
      /\ \A p \in Frames' : Carried(p)' \cap Waiting' = {}
      /\ \A m : m \in 1..written' <=>
           \/ m \in Waiting' \/ m \in Visible \/ m \in lost
           \/ \E p \in Frames : m \in Carried(p)
  <2>1. CASE UNCHANGED <<outputQueue, written>>
    <3>1. Waiting' = Waiting
      BY <2>1 DEF Waiting
    <3>2. Waiting \cap (Visible \cup lost) = {}
      BY DEF Parted
    <3>3. \A p \in Frames' : Carried(p)' \cap Waiting = {}
      BY <1>1 DEF Parted
    <3> QED BY <1>3, <2>1, <3>1, <3>2, <3>3 DEF Parted
  <2>2. CASE Put
    <3>1. /\ outputQueue' = Append(outputQueue, written + 1) /\ written' = written + 1
          /\ written + 1 \in Messages /\ outputQueue \in Seq(Messages) /\ written \in Nat
      BY <1>0, <2>2, PutTypes, NumberFacts DEF Put
    <3>2. /\ written + 1 \notin 1..written
          /\ \A m : m \in 1..written' <=> m \in 1..written \/ m = written + 1
      BY <3>1
    <3>3. /\ written + 1 \notin Waiting /\ written + 1 \notin Visible /\ written + 1 \notin lost
          /\ \A p \in Frames : written + 1 \notin Carried(p)
      BY <3>2 DEF Parted
    <3>4. Waiting' = Waiting \cup {written + 1} /\ IsInjective(outputQueue')
      BY <3>1, <3>3, AppendSet DEF Parted, Waiting
    <3>5. Waiting' \cap (Visible \cup lost) = {}
      BY <3>3, <3>4 DEF Parted
    <3>6. \A p \in Frames : Carried(p) \cap Waiting' = {}
      BY <3>3, <3>4 DEF Parted
    <3>7. \A p \in Frames' : Carried(p)' \cap Waiting' = {}
      BY <1>1, <3>6
    <3>8. \A m : m \in 1..written' <=>
           \/ m \in Waiting' \/ m \in Visible \/ m \in lost
           \/ \E p \in Frames : m \in Carried(p)
      BY <3>2, <3>4 DEF Parted
    <3> QED BY <1>3, <3>4, <3>5, <3>7, <3>8
  <2> QED BY <2>1, <2>2 DEF Stays
<1>7. \A m : m \in 1..written' <=> \/ m \in Waiting' \/ m \in Visible' \/ m \in lost'
                                   \/ \E p \in Frames' : m \in Carried(p)'
  BY <1>2, <1>3, <1>6
<1>8. /\ Waiting' \cap Visible' = {} /\ Waiting' \cap lost' = {}
      /\ \A p \in Frames' : Carried(p)' \cap (Waiting' \cup Visible' \cup lost') = {}
  BY <1>4, <1>6
<1> QED BY <1>1, <1>3, <1>5, <1>6, <1>7, <1>8 DEF Parted

LEMMA PartedTakes ==
  ASSUME Inv, Parted, NEW p \in Frames, Takes(p)
  PROVE  Parted'
<1>0. TypeOK /\ FlushInv
  BY DEF Inv
<1> DEFINE x == NextItem
<1>1. /\ Waiting = Waiting' \cup {x} /\ x \notin Waiting' /\ IsInjective(outputQueue')
      /\ x \in Messages
  BY <1>0, NumberFacts, TailSet, TailFacts DEF Takes, Waiting, Parted, NextItem
<1>2. /\ x \notin Visible /\ x \notin lost /\ \A q \in Frames : x \notin Carried(q)
  BY <1>1 DEF Parted
<1>3. /\ Frames' = Frames /\ Visible' = Visible /\ lost' = lost /\ written' = written
      /\ Shown' = Shown
  BY DEF Takes, Visible
<1>4. Carried(p)' = Carried(p) \cup {x} /\ IsInjective(Items(p)')
  <2>1. Items(p)' = Append(Items(p), x) /\ Items(p) \in Seq(Messages) /\ IsInjective(Items(p))
    BY <1>0, NumberFacts DEF Takes, Parted
  <2>2. x \notin ToSet(Items(p))
    BY <1>2 DEF Carried
  <2> QED BY <1>1, <2>1, <2>2, AppendSet DEF Carried
<1>5. \A q \in Frames : q # p => Items(q)' = Items(q) /\ Carried(q)' = Carried(q)
  BY DEF Takes, Carried
<1> HIDE DEF x
<1>6. ASSUME NEW q \in Frames
      PROVE  /\ IsInjective(Items(q)')
             /\ Carried(q)' \cap (Waiting' \cup Visible \cup lost) = {}
  <2>1. Carried(q) \cap (Waiting \cup Visible \cup lost) = {} /\ IsInjective(Items(q))
    BY DEF Parted
  <2>2. CASE q = p
    BY <1>1, <1>2, <1>4, <2>1, <2>2
  <2>3. CASE q # p
    BY <1>1, <1>5, <2>1, <2>3
  <2> QED BY <2>2, <2>3
<1>7. ASSUME NEW q \in Frames, NEW r \in Frames, q # r PROVE Carried(q)' \cap Carried(r)' = {}
  <2>1. Carried(q) \cap Carried(r) = {}
    BY <1>7 DEF Parted
  <2>2. \A f \in Frames : Carried(f)' = IF f = p THEN Carried(f) \cup {x} ELSE Carried(f)
    BY <1>4, <1>5
  <2> QED BY <1>2, <1>7, <2>1, <2>2
<1>8. \A m : (\E q \in Frames : m \in Carried(q)') <=> m = x \/ \E q \in Frames : m \in Carried(q)
  <2>1. ASSUME NEW m, NEW q \in Frames, m \in Carried(q)' PROVE m = x \/ m \in Carried(q)
    BY <1>4, <1>5, <2>1
  <2>2. ASSUME NEW m, NEW q \in Frames, m \in Carried(q) PROVE m \in Carried(q)'
    BY <1>4, <1>5, <2>2
  <2>3. x \in Carried(p)'
    BY <1>4
  <2> QED BY <2>1, <2>2, <2>3
<1>9. \A m : m \in 1..written <=> \/ m \in Waiting' \/ m \in Visible \/ m \in lost
                                  \/ \E q \in Frames : m \in Carried(q)'
  BY <1>1, <1>8 DEF Parted
<1>10. Waiting' \cap Visible = {} /\ Waiting' \cap lost = {} /\ Visible \cap lost = {}
       /\ IsInjective(Shown)
  BY <1>1 DEF Parted
<1> QED BY <1>1, <1>3, <1>6, <1>7, <1>9, <1>10 DEF Parted

LEMMA PartedLeaves ==
  ASSUME Inv, Parted, NEW p \in Frames, Leaves(p)
  PROVE  Parted'
<1>0. TypeOK /\ FlushInv
  BY DEF Inv
<1>1. /\ \A q : q \in Frames' <=> q \in Frames /\ q # p
      /\ \A q \in Frames' : Items(q)' = Items(q) /\ Carried(q)' = Carried(q)
      /\ Waiting' = Waiting /\ written' = written /\ outputQueue' = outputQueue
  BY DEF Leaves, Carried, Waiting
<1>2. /\ Visible' \cup lost' = Visible \cup lost \cup Carried(p)
      /\ Visible' \cap lost' = {} /\ IsInjective(Shown')
  <2>1. CASE Shown' = Shown /\ lost' = lost \cup ToSet(Items(p))
    <3>1. Visible' = Visible /\ lost' = lost \cup Carried(p)
      BY <2>1 DEF Visible, Carried
    <3> QED BY <2>1, <3>1 DEF Parted
  <2>2. CASE Shown' = Shown \o Items(p) /\ lost' = lost
    <3>1. /\ Shown \in Seq(Messages) /\ Items(p) \in Seq(Messages)
          /\ IsInjective(Items(p)) /\ IsInjective(Shown)
      BY <1>0, NumberFacts DEF Parted
    <3>2. Visible' = Visible \cup Carried(p)
      BY <2>2, <3>1, ConcatSet DEF Visible, Carried
    <3>3. ToSet(Shown) \cap ToSet(Items(p)) = {}
      BY DEF Parted, Visible, Carried
    <3>4. IsInjective(Shown')
      BY <2>2, <3>1, <3>3, ConcatSet
    <3> QED BY <2>2, <3>2, <3>4 DEF Parted
  <2> QED BY <2>1, <2>2 DEF Leaves
<1>3. /\ Waiting \cap Visible' = {} /\ Waiting \cap lost' = {}
      /\ \A q \in Frames' : Carried(q) \cap (Waiting \cup Visible' \cup lost') = {}
  <2>1. Waiting \cap (Visible \cup lost \cup Carried(p)) = {}
    BY DEF Parted
  <2>2. \A q \in Frames' : Carried(q) \cap (Visible \cup lost \cup Carried(p)) = {}
    BY <1>1 DEF Parted
  <2>3. \A q \in Frames' : Carried(q) \cap Waiting = {}
    BY <1>1 DEF Parted
  <2> QED BY <1>2, <2>1, <2>2, <2>3
<1>4. \A m : m \in 1..written <=> \/ m \in Waiting \/ m \in Visible' \/ m \in lost'
                                  \/ \E q \in Frames' : m \in Carried(q)
  BY <1>1, <1>2 DEF Parted
<1>5. \A q, r \in Frames' : q # r => Carried(q) \cap Carried(r) = {}
  BY <1>1 DEF Parted
<1>6. \A q \in Frames' : IsInjective(Items(q)')
  BY <1>1 DEF Parted
<1>7. IsInjective(outputQueue')
  BY <1>1 DEF Parted
<1> QED BY <1>1, <1>2, <1>3, <1>4, <1>5, <1>6, <1>7 DEF Parted

LEMMA PartedInit == Init => Parted
<1> SUFFICES ASSUME Init PROVE Parted
  OBVIOUS
<1>1. Shown = <<>> /\ outputQueue = <<>> /\ written = 0 /\ lost = {}
  BY DEF Init, Shown
<1>2. Frames = {}
  <2>1. \A t \in Threads : Depth(t) = 0
    BY DEF Init, Depth
  <2> QED BY <2>1 DEF Frames
<1>3. Waiting = {} /\ Visible = {}
  BY <1>1, EmptySet DEF Waiting, Visible
<1> QED BY <1>1, <1>2, <1>3, EmptySet DEF Parted

LEMMA PartedHolds == Spec => []Parted
<1>1. Inv /\ Alone /\ Parted /\ [Next]_vars => Parted'
  BY DataStep, PartedStays, PartedTakes, PartedLeaves
<1> QED BY <1>1, PartedInit, InvHolds, AloneHolds, PTL DEF Spec

(***************************************************************************)
(* A window that cannot work any more, and what it loses.                  *)
(***************************************************************************)
NoCreate == \A t \in Threads : \A i \in 1..Depth(t) : flushes[t][i].stage # "create"

LEMMA StuckFacts ==
  ASSUME FlushInv
  PROVE  Stuck <=> bCreating /\ NoCreate
<1>1. \A t \in Threads : DOMAIN flushes[t] = 1..Depth(t)
  BY TopFacts DEF FlushInv
<1> QED BY <1>1 DEF Stuck, NoCreate

LEMMA StuckNext ==
  ASSUME FlushInv'
  PROVE  Stuck' <=> bCreating' /\ NoCreate'
<1>1. \A t \in Threads : DOMAIN flushes'[t] = 1..Len(flushes'[t])
  BY DEF FlushInv
<1> QED BY <1>1 DEF Stuck, NoCreate, Depth

LEMMA NoCreateMoved ==
  ASSUME FlushInv, NoCreate, NEW t \in Threads, ~Quiet(t), NEW f, Moves(t, f), f.stage # "create"
  PROVE  NoCreate'
<1> SUFFICES ASSUME NEW s \in Threads, NEW i \in 1..Depth(s)
             PROVE  flushes'[s][i].stage # "create"
  BY DEF NoCreate, Moves
<1>1. flushes'[s][i] = IF s = t /\ i = Depth(t) THEN f ELSE flushes[s][i]
  BY DEF Moves
<1>2. flushes[s][i].stage # "create"
  BY DEF NoCreate
<1> QED BY <1>1, <1>2

LEMMA NoCreatePopped ==
  ASSUME FlushInv, NoCreate, NEW t \in Threads, ~Quiet(t), Pops(t)
  PROVE  NoCreate'
<1> SUFFICES ASSUME NEW s \in Threads, NEW i \in 1..Depth(s)'
             PROVE  flushes'[s][i].stage # "create"
  BY DEF NoCreate
<1>1. Depth(s) \in Nat /\ Depth(s)' = IF s = t THEN Depth(s) - 1 ELSE Depth(s)
  BY TopFacts DEF Pops, FlushInv
<1>2. i \in 1..Depth(s) /\ flushes'[s][i] = flushes[s][i]
  BY <1>1 DEF Pops
<1> QED BY <1>2 DEF NoCreate

LEMMA NoCreatePushed ==
  ASSUME FlushInv, NoCreate, NEW t \in Threads, NEW by \in {"idle", "call"}, Enter(t, by)
  PROVE  NoCreate'
<1> SUFFICES ASSUME NEW s \in Threads, NEW i \in 1..Depth(s)'
             PROVE  flushes'[s][i].stage # "create"
  BY DEF NoCreate
<1>1. Pushes(t, by)
  BY PushFacts DEF FlushInv
<1>2. Depth(s) \in Nat /\ Depth(s)' = IF s = t THEN Depth(s) + 1 ELSE Depth(s)
  BY <1>1, TopFacts DEF Pushes, FlushInv
<1>3. CASE i \in 1..Depth(s)
  BY <1>1, <1>3 DEF Pushes, NoCreate
<1>4. CASE s = t /\ i = Depth(t) + 1
  BY <1>1, <1>4 DEF Pushes, Starts
<1> QED BY <1>2, <1>3, <1>4

LEMMA NoCreateSame ==
  ASSUME NoCreate, UNCHANGED flushes
  PROVE  NoCreate'
BY DEF NoCreate, Depth

\* What a step of a flush does to the handler and the window that is stuck.
LEMMA StuckFlush ==
  ASSUME Inv, AloneNow, NEW t \in Threads, QueueFlush(t)
  PROVE  /\ handlers' => handlers
         /\ errorCantRecreate => errorCantRecreate'
         /\ Stuck => Stuck'
<1>0. FlushInv /\ FlushInv'
  BY InvStep DEF Inv, Next
<1>1. ~Quiet(t)
  BY DEF QueueFlush, At, Begin, TakeItem, Taken, WindowIsThere, WindowIsGone, WindowIsNotToBe,
         BeginCreate, CreateSucceeds, CreateGivesUp, CreateRaises, PumpPaintMessages, WriteItems
<1>2. Depth(t) \in 1..Depth(t) /\ Top(t) = flushes[t][Depth(t)]
  BY <1>0, <1>1, TopFacts DEF FlushInv
<1>3. Stuck => bCreating /\ NoCreate /\ Top(t).stage # "create"
  BY <1>0, <1>2, StuckFacts DEF NoCreate
<1>4. bCreating' = bCreating /\ NoCreate' /\ bCreating => Stuck'
  BY <1>0, StuckNext
<1>5. ASSUME Pop(t), NoCreate PROVE NoCreate'
  <2>1. Pops(t)
    BY <1>0, <1>1, <1>5, PopFacts DEF FlushInv
  <2> QED BY <1>0, <1>1, <1>5, <2>1, NoCreatePopped
<1>6. ASSUME NEW stage \in {"take", "recreate", "pump", "write"}, Goto(t, stage), NoCreate
      PROVE  NoCreate'
  <2>1. stage \in Stages /\ stage # "enter" /\ stage # "create"
    BY DEF Stages
  <2>2. /\ [Top(t) EXCEPT !.stage = stage].stage = stage
        /\ Moves(t, [Top(t) EXCEPT !.stage = stage])
    BY <1>0, <1>1, <1>6, <2>1, GotoFacts
  <2> QED BY <1>0, <1>1, <1>6, <2>1, <2>2, NoCreateMoved
<1>7. ASSUME NEW rc, Return(t, rc) PROVE Pop(t) /\ UNCHANGED handlers
  BY <1>7 DEF Return
<1>8. CASE Begin(t)
  <2>1. UNCHANGED <<errorCantRecreate, bCreating>>
    BY <1>8 DEF Begin, window
  <2>2. CASE Return(t, TRUE)
    BY <1>3, <1>4, <1>5, <1>7, <2>1, <2>2
  <2>3. CASE Goto(t, "take") /\ UNCHANGED loop
    BY <1>3, <1>4, <1>6, <2>1, <2>3 DEF loop
  <2> QED BY <1>8, <2>2, <2>3 DEF Begin
<1>9. CASE TakeItem(t)
  <2>1. Moves(t, WithItem(t)) /\ WithItem(t).stage = "take"
    BY <1>9, TakeFacts
  <2>2. NoCreate => NoCreate'
    BY <1>0, <1>1, <2>1, NoCreateMoved
  <2> QED BY <1>3, <1>4, <1>9, <2>2 DEF TakeItem, window, loop
<1>10. CASE Taken(t)
  <2>1. UNCHANGED <<errorCantRecreate, bCreating>>
    BY <1>10 DEF Taken, window
  <2>2. CASE Return(t, TRUE)
    BY <1>3, <1>4, <1>5, <1>7, <2>1, <2>2
  <2>3. CASE Become(t, WithRc(t)) /\ UNCHANGED loop
    <3>1. Moves(t, WithRc(t)) /\ WithRc(t).stage = "check"
      BY <1>0, <1>1, <2>3, CheckFacts
    <3>2. NoCreate => NoCreate'
      BY <1>0, <1>1, <3>1, NoCreateMoved
    <3> QED BY <1>3, <1>4, <2>1, <2>3, <3>2 DEF loop
  <2> QED BY <1>10, <2>2, <2>3 DEF Taken, WithRc
<1>11. CASE WindowIsThere(t) \/ WindowIsGone(t) \/ CreateGivesUp(t) \/ PumpPaintMessages(t)
  <2>1. /\ UNCHANGED <<errorCantRecreate, bCreating, handlers>>
        /\ \E stage \in {"recreate", "pump", "write"} : Goto(t, stage)
    BY <1>11 DEF WindowIsThere, WindowIsGone, CreateGivesUp, PumpPaintMessages, window, loop
  <2>2. NoCreate => NoCreate'
    BY <1>6, <2>1
  <2> QED BY <1>3, <1>4, <2>1, <2>2
<1>12. CASE WindowIsNotToBe(t) \/ CreateRaises(t)
  <2>1. errorCantRecreate' = TRUE /\ Return(t, TRUE) /\ UNCHANGED bCreating
    BY <1>12 DEF WindowIsNotToBe, CreateRaises
  <2> QED BY <1>3, <1>4, <1>5, <1>7, <2>1
<1>13. CASE BeginCreate(t)
  <2>1. Top(t).stage = "recreate" /\ UNCHANGED <<errorCantRecreate, handlers>>
    BY <1>13 DEF BeginCreate, At, loop
  <2>2. ~bCreating
    BY <1>2, <2>1 DEF AloneNow
  <2> QED BY <1>3, <2>1, <2>2
<1>14. CASE CreateSucceeds(t)
  <2>1. Top(t).stage = "create" /\ UNCHANGED <<errorCantRecreate, handlers>>
    BY <1>14 DEF CreateSucceeds, At, loop
  <2> QED BY <1>3, <2>1
<1>15. CASE WriteItems(t)
  <2>1. Pop(t) /\ (handlers' => handlers)
    BY <1>15 DEF WriteItems, Return, Fail
  <2>2. UNCHANGED <<errorCantRecreate, bCreating>>
    BY <1>15 DEF WriteItems
  <2> QED BY <1>3, <1>4, <1>5, <2>1, <2>2
<1> QED BY <1>8, <1>9, <1>10, <1>11, <1>12, <1>13, <1>14, <1>15 DEF QueueFlush

LEMMA BrokenStep ==
  ASSUME Inv, AloneNow, [Next]_vars, Broken
  PROVE  Broken'
<1>0. FlushInv /\ FlushInv' /\ Main \in Threads
  BY InvStep, MainFacts DEF Inv
<1>1. ASSUME handlers' => handlers, errorCantRecreate => errorCantRecreate', Stuck => Stuck'
      PROVE  Broken'
  BY <1>1 DEF Broken
<1>2. ASSUME NoCreate => NoCreate', UNCHANGED bCreating
      PROVE  Stuck => Stuck'
  BY <1>0, <1>2, StuckFacts, StuckNext
<1>3. ASSUME NEW t \in Threads, QueueFlush(t) PROVE Broken'
  BY <1>1, <1>3, StuckFlush
<1>4. ASSUME NEW t \in Threads, NEW by \in {"idle", "call"}, Enter(t, by)
      PROVE  NoCreate => NoCreate'
  BY <1>0, <1>4, NoCreatePushed
<1>5. CASE OnIdle \/ HandlerPrints \/ MainPrints
  <2>1. UNCHANGED <<handlers, errorCantRecreate, bCreating>>
    BY <1>5 DEF OnIdle, HandlerPrints, MainPrints, window
  <2>2. Enter(Main, "idle") \/ Enter(Main, "call") \/ UNCHANGED flushes
    BY <1>5 DEF OnIdle, HandlerPrints, MainPrints, PrintOnMain
  <2>3. NoCreate => NoCreate'
    BY <1>0, <1>4, <2>2, NoCreateSame
  <2> QED BY <1>1, <1>2, <2>1, <2>3
<1>6. CASE PumpMail \/ UserCloses \/ Close \/ UNCHANGED vars
  <2>1. UNCHANGED <<flushes, bCreating, errorCantRecreate>> /\ (handlers' => handlers)
    <3>1. CASE PumpMail \/ UNCHANGED vars
      BY <3>1 DEF PumpMail, vars, window, loop
    <3>2. CASE UserCloses \/ Close
      <4>1. /\ UNCHANGED <<flushes, bCreating, errorCantRecreate>>
            /\ handlers' = FALSE \/ handlers' = handlers
        BY <3>2 DEF UserCloses, Close
      <4> QED BY <4>1
    <3> QED BY <1>6, <3>1, <3>2
  <2>2. NoCreate => NoCreate'
    BY <2>1, NoCreateSame
  <2> QED BY <1>1, <1>2, <2>1, <2>2
<1>7. CASE Interrupt
  <2>1. handlers' = FALSE
    BY <1>7, InterruptFacts
  <2> QED BY <2>1 DEF Broken
<1>8. ASSUME NEW w \in Workers, WorkerWrites(w) PROVE Broken'
  <2>1. UNCHANGED <<flushes, handlers, errorCantRecreate, bCreating>>
    BY <1>8 DEF WorkerWrites, window
  <2>2. NoCreate => NoCreate'
    BY <2>1, NoCreateSame
  <2> QED BY <1>1, <1>2, <2>1, <2>2
<1>9. ASSUME NEW w \in Workers, WorkerFlushes(w) PROVE Broken'
  <2>1. Enter(w, "call") /\ UNCHANGED <<handlers, errorCantRecreate, bCreating>>
    BY <1>9 DEF WorkerFlushes, window, loop
  <2>2. NoCreate => NoCreate'
    BY <1>4, <2>1, MainFacts
  <2> QED BY <1>1, <1>2, <2>1, <2>2
<1> QED BY <1>3, <1>5, <1>6, <1>7, <1>8, <1>9 DEF Next

\* A window that cannot work any more never works again, but for a thread that
\* makes it while another one flushes.
BrokenStays == [][Broken => Broken' \/ raced']_vars

\* The idle handler that raised, the window that could not be made and the flag
\* that stays set: nothing in QueueFlush or the message loop undoes any of them.
THEOREM SpecBrokenStays == Spec => BrokenStays
<1>1. Inv /\ Alone /\ [Next]_vars => [Broken => Broken' \/ raced']_vars
  BY BrokenStep, RacedStays DEF Alone
<1> QED BY <1>1, InvHolds, AloneHolds, PTL DEF Spec, BrokenStays

LostInv == lost # {} => Broken \/ raced

\* A step that loses something leaves a window that cannot work any more.
LEMMA LosesFlush ==
  ASSUME Inv, AloneNow, NEW t \in Threads, QueueFlush(t)
  PROVE  lost' = lost \/ Broken'
<1>0. FlushInv /\ TypeOK /\ WindowInv /\ FlushInv'
  BY InvStep DEF Inv, Next
<1>1. CASE \/ Begin(t) \/ TakeItem(t) \/ Taken(t) \/ WindowIsThere(t) \/ WindowIsGone(t)
           \/ BeginCreate(t) \/ CreateGivesUp(t) \/ PumpPaintMessages(t)
  BY <1>1 DEF Begin, TakeItem, Taken, WindowIsThere, WindowIsGone, BeginCreate, CreateGivesUp,
     PumpPaintMessages, history
<1>2. CASE WindowIsNotToBe(t) \/ CreateRaises(t)
  BY <1>2 DEF WindowIsNotToBe, CreateRaises, Broken
<1>3. CASE CreateSucceeds(t)
  <2>1. ~Quiet(t) /\ Top(t).stage = "create" /\ lost' = lost \cup ToSet(text)
    BY <1>3 DEF CreateSucceeds, At
  <2>2. view = "none"
    BY <1>0, <2>1, TopFacts DEF AloneNow, FlushInv
  <2> QED BY <1>0, <2>1, <2>2, EmptySet DEF WindowInv
<1>4. CASE WriteItems(t)
  <2>1. ~Quiet(t) /\ Top(t).stage = "write" /\ UNCHANGED bCreating
    BY <1>4 DEF WriteItems, At
  <2>2. CASE view = "open"
    BY <1>4, <2>2 DEF WriteItems
  <2>3. CASE view # "open"
    <3>1. bCreating
      BY <1>0, <2>1, <2>3, TopFacts DEF AloneNow, FlushInv
    <3>2. NoCreate
      BY <1>0, <2>1, AloneStuck DEF NoCreate
    <3>3. Stuck
      BY <1>0, <3>1, <3>2, StuckFacts
    <3>4. Stuck'
      BY <3>3, StuckFlush
    <3> QED BY <3>4 DEF Broken
  <2> QED BY <2>2, <2>3
<1> QED BY <1>1, <1>2, <1>3, <1>4 DEF QueueFlush

LEMMA LostStep ==
  ASSUME Inv, Alone, LostInv, [Next]_vars
  PROVE  LostInv'
<1>1. CASE raced
  BY <1>1, RacedStays DEF LostInv
<1>2. CASE ~raced
  <2>1. AloneNow /\ (Broken => Broken')
    BY <1>2, BrokenStep DEF Alone
  <2>2. lost # {} => Broken
    BY <1>2 DEF LostInv
  <2>3. ASSUME NEW t \in Threads, QueueFlush(t) PROVE lost' = lost \/ Broken'
    BY <2>1, <2>3, LosesFlush
  <2>4. CASE Interrupt
    <3>1. handlers' = FALSE
      BY <2>4, InterruptFacts
    <3> QED BY <3>1 DEF LostInv, Broken
  <2>5. CASE \/ OnIdle \/ PumpMail \/ HandlerPrints \/ MainPrints \/ UserCloses \/ Close
             \/ (\E w \in Workers : WorkerWrites(w) \/ WorkerFlushes(w))
             \/ UNCHANGED vars
    <3>1. lost' = lost
      BY <2>5 DEF OnIdle, PumpMail, HandlerPrints, MainPrints, UserCloses, Close, WorkerWrites,
         WorkerFlushes, vars, history
    <3> QED BY <2>1, <2>2, <3>1 DEF LostInv
  <2> QED BY <2>1, <2>2, <2>3, <2>4, <2>5 DEF Next, LostInv
<1> QED BY <1>1, <1>2

LEMMA FlightFacts ==
  ASSUME FlushInv, NEW m
  PROVE  m \in InFlight <=> \E p \in Frames : m \in Carried(p)
<1>1. ASSUME NEW p \in Frames, m \in Carried(p) PROVE m \in InFlight
  <2>1. p[1] \in Threads /\ p[2] \in 1..Depth(p[1]) /\ Items(p) = flushes[p[1]][p[2]].items
    BY FrameFacts DEF Items
  <2>2. m \in Held(p[1], Depth(p[1]))
    BY <1>1, <2>1 DEF Carried, Held
  <2> QED BY <2>1, <2>2 DEF InFlight, Depth
<1>2. ASSUME m \in InFlight PROVE \E p \in Frames : m \in Carried(p)
  <2>1. PICK t \in Threads : m \in Held(t, Depth(t))
    BY <1>2 DEF InFlight, Depth
  <2>2. PICK i \in 1..Depth(t) : m \in ToSet(flushes[t][i].items)
    BY <2>1 DEF Held
  <2>3. <<t, i>> \in Frames /\ Items(<<t, i>>) = flushes[t][i].items
    BY FrameFacts DEF Items
  <2> QED BY <2>2, <2>3 DEF Carried
<1> QED BY <1>1, <1>2

LEMMA PartedAccounts ==
  ASSUME Inv, Parted, LostInv
  PROVE  Accounted
<1>1. \A m : m \in InFlight <=> \E p \in Frames : m \in Carried(p)
  BY FlightFacts DEF Inv
<1>2. ASSUME NEW m \in 1..written
      PROVE  Cardinality({p \in {"queue", "flight", "shown", "lost"} :
                            \/ p = "queue" /\ m \in ToSet(outputQueue)
                            \/ p = "flight" /\ m \in InFlight
                            \/ p = "shown" /\ m \in ToSet(Shown)
                            \/ p = "lost" /\ m \in lost}) = 1
  <2> DEFINE places == {p \in {"queue", "flight", "shown", "lost"} :
                            \/ p = "queue" /\ m \in ToSet(outputQueue)
                            \/ p = "flight" /\ m \in InFlight
                            \/ p = "shown" /\ m \in ToSet(Shown)
                            \/ p = "lost" /\ m \in lost}
  <2>1. /\ m \in Waiting \/ m \in InFlight \/ m \in Visible \/ m \in lost
        /\ ~(m \in Waiting /\ m \in Visible) /\ ~(m \in Waiting /\ m \in lost)
        /\ ~(m \in Visible /\ m \in lost)
        /\ ~(m \in InFlight /\ (m \in Waiting \/ m \in Visible \/ m \in lost))
    BY <1>1, <1>2 DEF Parted
  <2>2. PICK p \in {"queue", "flight", "shown", "lost"} : places = {p}
    <3>1. CASE m \in Waiting
      <4>1. places = {"queue"}
        BY <2>1, <3>1 DEF Waiting, Visible
      <4> QED BY <4>1
    <3>2. CASE m \in InFlight
      <4>1. places = {"flight"}
        BY <2>1, <3>2 DEF Waiting, Visible
      <4> QED BY <4>1
    <3>3. CASE m \in Visible
      <4>1. places = {"shown"}
        BY <2>1, <3>3 DEF Waiting, Visible
      <4> QED BY <4>1
    <3>4. CASE m \in lost
      <4>1. places = {"lost"}
        BY <2>1, <3>4 DEF Waiting, Visible
      <4> QED BY <4>1
    <3> QED BY <2>1, <3>1, <3>2, <3>3, <3>4
  <2> QED BY <2>2, FS_Singleton
<1>3. IsInjective(Shown) /\ (lost # {} => Broken \/ raced)
  BY DEF LostInv, Parted
<1> QED BY <1>2, <1>3 DEF Accounted

\* No message disappears or is shown twice: each is in one place, and only a
\* window that cannot work any more, or that one thread made or closed while
\* another one flushed, loses any, for any number of threads and messages and
\* any depth of flushes inside one another.
THEOREM SpecAccounted == Spec => []Accounted
<1>1. Init => LostInv
  BY DEF Init, LostInv
<1>2. Inv /\ Alone /\ LostInv /\ [Next]_vars => LostInv'
  BY LostStep
<1>3. Inv /\ Parted /\ LostInv => Accounted
  BY PartedAccounts
<1> QED BY <1>1, <1>2, <1>3, InvHolds, AloneHolds, PartedHolds, PTL DEF Spec

(***************************************************************************)
(* No text is forgotten.                                                   *)
(***************************************************************************)

\* Text that waits is announced by a message to the main thread that is there,
\* or is about to be posted, or could not be posted.
Announced == outputQueue = <<>> \/ mail \/ waking # {} \/ missed

\* The main thread will look at the queue by itself: in the idle time of its
\* loop, in the flush that it is in, or when it is called again after that.
Coming == IF Quiet(Main) THEN idle
          ELSE \/ Top(Main).stage \in {"enter", "take"}
               \/ Top(Main).by = "idle" /\ ~Top(Main).rc

Watched == ~chatty => /\ Depth(Main) =< 1
                      /\ ~Broken /\ ~raced => Coming \/ Announced

\* What a flush leaves alone.
LEMMA FlushLeaves ==
  ASSUME NEW t \in Threads, QueueFlush(t)
  PROVE  /\ ~Quiet(t) /\ UNCHANGED <<waking, mail, missed, chatty>>
         /\ (\E f : Become(t, f)) \/ Pop(t)
         /\ Top(t).by # "idle" => idle' = idle
         /\ outputQueue' = outputQueue \/ TakeItem(t)
<1>1. ~Quiet(t)
  BY DEF QueueFlush, At, Begin, TakeItem, Taken, WindowIsThere, WindowIsGone, WindowIsNotToBe,
         BeginCreate, CreateSucceeds, CreateGivesUp, CreateRaises, PumpPaintMessages, WriteItems
<1>2. ASSUME NEW rc, Return(t, rc)
      PROVE  Pop(t) /\ (Top(t).by # "idle" => idle' = idle) /\ UNCHANGED <<mail, missed>>
  BY <1>2 DEF Return
<1>3. ASSUME Fail(t)
      PROVE  Pop(t) /\ (Top(t).by # "idle" => idle' = idle) /\ UNCHANGED <<mail, missed>>
  BY <1>3 DEF Fail
<1>4. ASSUME NEW stage, Goto(t, stage) PROVE \E f : Become(t, f)
  BY <1>4 DEF Goto
<1>5. UNCHANGED loop => idle' = idle /\ UNCHANGED <<mail, missed>>
  BY DEF loop
<1>6. CASE Begin(t)
  <2>1. UNCHANGED <<outputQueue, waking, chatty>>
    BY <1>6 DEF Begin
  <2>2. Return(t, TRUE) \/ (Goto(t, "take") /\ UNCHANGED loop)
    BY <1>6 DEF Begin
  <2> QED BY <1>1, <1>2, <1>4, <1>5, <2>1, <2>2
<1>7. CASE TakeItem(t)
  <2>1. UNCHANGED <<waking, chatty, loop>> /\ \E f : Become(t, f)
    BY <1>7 DEF TakeItem
  <2> QED BY <1>1, <1>5, <1>7, <2>1
<1>8. CASE Taken(t)
  <2>1. UNCHANGED <<outputQueue, waking, chatty>>
    BY <1>8 DEF Taken
  <2>2. Return(t, TRUE) \/ (Become(t, WithRc(t)) /\ UNCHANGED loop)
    BY <1>8 DEF Taken, WithRc
  <2> QED BY <1>1, <1>2, <1>5, <2>1, <2>2
<1>9. CASE \/ WindowIsThere(t) \/ WindowIsGone(t) \/ BeginCreate(t) \/ CreateSucceeds(t)
           \/ CreateGivesUp(t) \/ PumpPaintMessages(t)
  <2>1. UNCHANGED <<outputQueue, waking, chatty, loop>> /\ \E stage : Goto(t, stage)
    BY <1>9 DEF WindowIsThere, WindowIsGone, BeginCreate, CreateSucceeds, CreateGivesUp,
       PumpPaintMessages
  <2> QED BY <1>1, <1>4, <1>5, <2>1
<1>10. CASE WindowIsNotToBe(t) \/ CreateRaises(t)
  <2>1. UNCHANGED <<outputQueue, waking, chatty>> /\ Return(t, TRUE)
    BY <1>10 DEF WindowIsNotToBe, CreateRaises
  <2> QED BY <1>1, <1>2, <2>1
<1>11. CASE WriteItems(t)
  <2>1. UNCHANGED <<outputQueue, waking, chatty>> /\ (Return(t, Top(t).rc) \/ Fail(t))
    BY <1>11 DEF WriteItems
  <2> QED BY <1>1, <1>2, <1>3, <2>1
<1> QED BY <1>6, <1>7, <1>8, <1>9, <1>10, <1>11 DEF QueueFlush

\* The main thread looks at the same flush as before.
LEMMA ComingSame ==
  ASSUME flushes'[Main] = flushes[Main], idle' = idle
  PROVE  Coming' <=> Coming
BY DEF Coming, Quiet, Top

LEMMA ComingEntered ==
  ASSUME FlushInv, NEW by \in {"idle", "call"}, Enter(Main, by)
  PROVE  Coming' /\ (Quiet(Main) => Depth(Main)' =< 1)
<1>1. Main \in Threads /\ Pushes(Main, by) /\ Depth(Main) \in Nat
  BY MainFacts, PushFacts, TopFacts DEF FlushInv
<1>2. /\ Len(flushes'[Main]) = Depth(Main) + 1 /\ flushes'[Main][Depth(Main) + 1] = Starts(by)
      /\ flushes'[Main] \in Seq(Flush)
  BY <1>1 DEF Pushes, Depth
<1>3. flushes'[Main] # <<>> /\ Top(Main)' = Starts(by)
  BY <1>1, <1>2 DEF Top
<1>4. Coming'
  BY <1>3 DEF Coming, Quiet, Starts
<1>5. Quiet(Main) => Depth(Main)' =< 1
  BY <1>1, <1>2 DEF Quiet, Depth
<1> QED BY <1>4, <1>5

\* A flush of the main thread.
LEMMA WatchedMain ==
  ASSUME Inv, AloneNow, QueueFlush(Main), Depth(Main) =< 1, ~Broken, ~Broken',
         Coming \/ Announced
  PROVE  Coming' \/ Announced'
<1>0. FlushInv /\ TypeOK /\ Main \in Threads /\ ~Quiet(Main)
  BY MainFacts, FlushLeaves DEF Inv
<1>1. /\ Depth(Main) = 1 /\ Top(Main) = flushes[Main][Depth(Main)]
      /\ Depth(Main) \in 1..Depth(Main)
  BY <1>0, TopFacts DEF FlushInv
<1>2. UNCHANGED <<waking, mail, missed>>
  BY <1>0, FlushLeaves
<1>3. /\ ~Stuck /\ ~Stuck' /\ ~errorCantRecreate'
  BY DEF Broken
<1>4. ASSUME Top(Main).stage \notin {"enter", "create"} PROVE ~bCreating
  <2>1. NoCreate
    BY <1>0, <1>4, AloneStuck DEF NoCreate
  <2> QED BY <1>0, <1>3, <2>1, StuckFacts
<1>5. ASSUME Top(Main).stage = "enter" PROVE ~bCreating
  <2>1. \A s \in Threads : \A i \in 1..Depth(s) : flushes[s][i].stage # "create"
    <3> SUFFICES ASSUME NEW s \in Threads, NEW i \in 1..Depth(s), flushes[s][i].stage = "create"
                 PROVE  FALSE
      OBVIOUS
    <3>1. s = Main
      BY <1>0, <1>1 DEF AloneNow
    <3> QED BY <1>1, <1>5, <3>1
  <2> QED BY <1>0, <1>3, <2>1, StuckFacts DEF NoCreate
<1>6. ASSUME NEW f, Moves(Main, f) PROVE ~Quiet(Main)' /\ Top(Main)' = f
  <2>1. Len(flushes'[Main]) = 1 /\ flushes'[Main][1] = f /\ flushes'[Main] \in Seq(Flush)
    BY <1>0, <1>1, <1>6 DEF Moves, Depth
  <2> QED BY <2>1 DEF Quiet, Top
<1>7. ASSUME Pop(Main) PROVE Quiet(Main)'
  <2>1. Pops(Main)
    BY <1>0, <1>7, PopFacts DEF FlushInv
  <2>2. Depth(Main)' = 0 /\ flushes'[Main] \in Seq(Flush)
    BY <1>0, <1>1, <2>1 DEF Pops
  <2> QED BY <2>2 DEF Quiet, Depth
<1>8. CASE Begin(Main)
  <2>1. Goto(Main, "take")
    BY <1>5, <1>8 DEF Begin, At
  <2>2. /\ [Top(Main) EXCEPT !.stage = "take"].stage = "take"
        /\ Moves(Main, [Top(Main) EXCEPT !.stage = "take"])
    BY <1>0, <2>1, GotoFacts DEF Stages
  <2>3. ~Quiet(Main)' /\ Top(Main)' = [Top(Main) EXCEPT !.stage = "take"]
    BY <1>6, <2>2
  <2> QED BY <2>2, <2>3 DEF Coming
<1>9. CASE TakeItem(Main)
  <2>1. Moves(Main, WithItem(Main)) /\ WithItem(Main).stage = "take"
    BY <1>0, <1>9, TakeFacts
  <2>2. ~Quiet(Main)' /\ Top(Main)' = WithItem(Main)
    BY <1>6, <2>1
  <2> QED BY <2>1, <2>2 DEF Coming
<1>10. CASE Taken(Main)
  <2>1. UNCHANGED outputQueue /\ (Full(Main) \/ outputQueue = <<>>)
    BY <1>10 DEF Taken
  <2>2. CASE outputQueue = <<>>
    BY <2>1, <2>2 DEF Announced
  <2>3. CASE Full(Main)
    <3>1. Top(Main).by = "idle" /\ Top(Main).items # <<>>
      BY <2>3, WindowAssumption DEF Full
    <3>2. Become(Main, WithRc(Main))
      BY <1>10, <3>1 DEF Taken, WithRc
    <3>3. Moves(Main, WithRc(Main)) /\ WithRc(Main).by = Top(Main).by
      BY <1>0, <3>2, CheckFacts
    <3>4. WithRc(Main).rc = FALSE
      <4>1. Top(Main) \in Flush
        BY <1>0, TopFacts DEF FlushInv
      <4> QED BY <2>3, <4>1 DEF WithRc, Flush
    <3>5. ~Quiet(Main)' /\ Top(Main)' = WithRc(Main)
      BY <1>6, <3>3
    <3> QED BY <3>1, <3>3, <3>4, <3>5 DEF Coming
  <2> QED BY <2>1, <2>2, <2>3
<1>11. CASE \/ WindowIsThere(Main) \/ WindowIsGone(Main) \/ BeginCreate(Main)
            \/ CreateSucceeds(Main) \/ CreateGivesUp(Main) \/ PumpPaintMessages(Main)
  <2>1. /\ UNCHANGED outputQueue /\ Top(Main).stage \notin {"enter", "take"}
        /\ \E stage \in {"recreate", "create", "pump", "write"} : Goto(Main, stage)
    BY <1>11 DEF WindowIsThere, WindowIsGone, BeginCreate, CreateSucceeds, CreateGivesUp,
       PumpPaintMessages, At
  <2>2. PICK stage \in {"recreate", "create", "pump", "write"} : Goto(Main, stage)
    BY <2>1
  <2> DEFINE f == [Top(Main) EXCEPT !.stage = stage]
  <2>3. stage \in Stages /\ stage # "enter"
    BY DEF Stages
  <2>4. f.by = Top(Main).by /\ f.rc = Top(Main).rc /\ Moves(Main, f)
    BY <1>0, <2>2, <2>3, GotoFacts
  <2>5. ~Quiet(Main)' /\ Top(Main)' = f
    BY <1>6, <2>4
  <2> HIDE DEF f
  <2>6. CASE Announced
    BY <1>2, <2>1, <2>6 DEF Announced
  <2>7. CASE Coming
    <3>1. Top(Main).by = "idle" /\ ~Top(Main).rc
      BY <1>0, <2>1, <2>7 DEF Coming
    <3> QED BY <2>4, <2>5, <3>1 DEF Coming
  <2> QED BY <2>6, <2>7
<1>12. CASE WindowIsNotToBe(Main) \/ CreateRaises(Main)
  BY <1>3, <1>12 DEF WindowIsNotToBe, CreateRaises
<1>13. CASE WriteItems(Main)
  <2>1. Top(Main).stage = "write" /\ UNCHANGED outputQueue
    BY <1>13 DEF WriteItems, At
  <2>2. view = "open"
    <3>1. ~bCreating
      BY <1>4, <2>1
    <3> QED BY <1>0, <1>1, <2>1, <3>1 DEF AloneNow
  <2>3. Return(Main, Top(Main).rc)
    BY <1>13, <2>2 DEF WriteItems
  <2>4. Quiet(Main)'
    BY <1>7, <2>3 DEF Return
  <2>5. CASE Announced
    BY <1>2, <2>1, <2>5 DEF Announced
  <2>6. CASE Coming
    <3>1. Top(Main).by = "idle" /\ ~Top(Main).rc
      BY <1>0, <2>1, <2>6 DEF Coming
    <3>2. idle' = ~Top(Main).rc
      BY <2>3, <3>1 DEF Return, MoreWhen
    <3> QED BY <2>4, <3>1, <3>2 DEF Coming
  <2> QED BY <2>5, <2>6
<1> QED BY <1>8, <1>9, <1>10, <1>11, <1>12, <1>13 DEF QueueFlush

\* A flush of another thread.
LEMMA WatchedOther ==
  ASSUME Inv, NEW t \in Threads, t # Main, QueueFlush(t), Coming \/ Announced
  PROVE  Coming' \/ Announced'
<1>0. FlushInv /\ ~Quiet(t)
  BY FlushLeaves DEF Inv
<1>1. Top(t).by # "idle"
  BY <1>0, TopFacts DEF FlushInv
<1>2. flushes'[Main] = flushes[Main]
  BY <1>0, FlushLeaves, MainFacts DEF Become, Pop, FlushInv
<1>3. UNCHANGED <<waking, mail, missed, idle>>
  BY <1>1, FlushLeaves
<1>4. outputQueue' = outputQueue \/ outputQueue # <<>>
  BY FlushLeaves DEF TakeItem
<1> QED BY <1>2, <1>3, <1>4, ComingSame DEF Announced

LEMMA DepthFlush ==
  ASSUME FlushInv, NEW t \in Threads, QueueFlush(t)
  PROVE  Depth(Main)' \in {Depth(Main), Depth(Main) - 1}
<1>1. ~Quiet(t) /\ ((\E f : Become(t, f)) \/ Pop(t)) /\ Main \in Threads
  BY FlushLeaves, MainFacts
<1>2. CASE Pop(t)
  <2>1. Pops(t)
    BY <1>1, <1>2, PopFacts DEF FlushInv
  <2> QED BY <1>1, <2>1 DEF Pops
<1>3. ASSUME NEW f, Become(t, f) PROVE Depth(Main)' = Depth(Main)
  <2>1. Depth(t) \in 1..Depth(t) /\ flushes[t] \in Seq(Flush) /\ DOMAIN flushes[t] = 1..Depth(t)
    BY <1>1, TopFacts DEF FlushInv
  <2>2. /\ flushes'[t] = [flushes[t] EXCEPT ![Depth(t)] = f]
        /\ \A s \in Threads : s # t => flushes'[s] = flushes[s]
    BY <1>3 DEF Become, Depth, FlushInv
  <2>3. Len(flushes'[t]) = Depth(t)
    BY <2>1, <2>2
  <2> QED BY <1>1, <2>2, <2>3 DEF Depth
<1> QED BY <1>1, <1>2, <1>3

LEMMA WatchedStep ==
  ASSUME Inv, Alone, Watched, [Next]_vars
  PROVE  Watched'
<1>0. FlushInv /\ TypeOK /\ Main \in Threads /\ Depth(Main) \in Nat
  BY MainFacts, TopFacts DEF Inv, FlushInv
<1>1. UNCHANGED chatty
  <2>1. ASSUME NEW t \in Threads, QueueFlush(t) PROVE UNCHANGED chatty
    BY <2>1, FlushLeaves
  <2> QED BY <2>1 DEF Next, OnIdle, PumpMail, HandlerPrints, Interrupt, MainPrints, UserCloses,
             Close, WorkerWrites, WorkerFlushes, vars
<1> SUFFICES ASSUME ~chatty
             PROVE  /\ Depth(Main)' =< 1
                    /\ ~Broken' /\ ~raced' => Coming' \/ Announced'
  BY <1>1 DEF Watched
<1>2. /\ Depth(Main) =< 1
      /\ ~Broken /\ ~raced => Coming \/ Announced
  BY DEF Watched
<1>3. ASSUME ~Broken', ~raced'
      PROVE  /\ ~Broken /\ ~raced /\ AloneNow /\ (Coming \/ Announced)
             /\ handlers /\ handlers'
  <2>1. ~raced /\ AloneNow
    BY <1>3, RacedStays DEF Alone
  <2>2. ~Broken
    BY <1>3, <2>1, BrokenStep
  <2> QED BY <1>2, <1>3, <2>1, <2>2 DEF Broken
<1>4. UNCHANGED flushes => Depth(Main)' =< 1
  BY <1>2 DEF Depth
<1>5. ASSUME NEW t \in Threads, QueueFlush(t)
      PROVE  /\ Depth(Main)' =< 1
             /\ ~Broken' /\ ~raced' => Coming' \/ Announced'
  <2>1. Depth(Main)' =< 1
    BY <1>0, <1>2, <1>5, DepthFlush
  <2>2. CASE t = Main
    BY <1>2, <1>3, <1>5, <2>1, <2>2, WatchedMain
  <2>3. CASE t # Main
    BY <1>3, <1>5, <2>1, <2>3, WatchedOther
  <2> QED BY <2>2, <2>3
<1>6. CASE OnIdle
  <2>1. Quiet(Main) /\ (handlers => Enter(Main, "idle")) /\ (~handlers => UNCHANGED flushes)
    BY <1>6 DEF OnIdle
  <2>2. Enter(Main, "idle") => Coming' /\ Depth(Main)' =< 1
    BY <1>0, <2>1, ComingEntered
  <2> QED BY <1>3, <1>4, <2>1, <2>2
<1>7. CASE PumpMail \/ UserCloses
  <2>1. Quiet(Main) /\ UNCHANGED flushes /\ idle' = TRUE
    BY <1>7 DEF PumpMail, UserCloses
  <2>2. Coming'
    BY <2>1 DEF Coming, Quiet
  <2> QED BY <1>4, <2>1, <2>2
<1>8. CASE HandlerPrints
  BY <1>8 DEF HandlerPrints
<1>9. CASE MainPrints
  <2>1. Quiet(Main) /\ (Enter(Main, "call") \/ (Post /\ UNCHANGED flushes))
    BY <1>9 DEF MainPrints, PrintOnMain
  <2>2. CASE Enter(Main, "call")
    BY <1>0, <2>1, <2>2, ComingEntered
  <2>3. CASE Post /\ UNCHANGED flushes
    <3>1. mail' \/ missed'
      BY <2>3 DEF Post
    <3> QED BY <1>4, <2>3, <3>1 DEF Announced
  <2> QED BY <2>1, <2>2, <2>3
<1>10. CASE Interrupt
  <2>1. handlers' = FALSE /\ Pops(Main)
    BY <1>10, InterruptFacts
  <2>2. Depth(Main)' = Depth(Main) - 1
    BY <1>0, <2>1 DEF Pops
  <2> QED BY <1>0, <1>2, <1>3, <2>1, <2>2
<1>11. CASE Close
  BY <1>3, <1>4, <1>11 DEF Close
<1>12. ASSUME NEW w \in Workers, WorkerWrites(w)
       PROVE  /\ Depth(Main)' =< 1
              /\ ~Broken' /\ ~raced' => Coming' \/ Announced'
  <2>1. UNCHANGED flushes /\ HandleOutput(w)
    BY <1>12 DEF WorkerWrites
  <2>2. w \in waking' \/ mail' \/ missed'
    BY <2>1 DEF HandleOutput, Post
  <2> QED BY <1>4, <2>1, <2>2 DEF Announced
<1>13. ASSUME NEW w \in Workers, WorkerFlushes(w)
       PROVE  /\ Depth(Main)' =< 1
              /\ ~Broken' /\ ~raced' => Coming' \/ Announced'
  <2>1. Enter(w, "call") /\ UNCHANGED <<outputQueue, waking, mail, missed, idle>>
    BY <1>13 DEF WorkerFlushes, loop
  <2>2. flushes'[Main] = flushes[Main]
    BY <1>0, <2>1, MainFacts DEF Enter, FlushInv
  <2>3. (Coming' <=> Coming) /\ (Announced' <=> Announced) /\ Depth(Main)' = Depth(Main)
    BY <2>1, <2>2, ComingSame DEF Announced, Depth
  <2> QED BY <1>2, <1>3, <2>3
<1>14. CASE UNCHANGED vars
  <2>1. UNCHANGED <<flushes, idle, outputQueue, waking, mail, missed>>
    BY <1>14 DEF vars, loop
  <2>2. (Coming' <=> Coming) /\ (Announced' <=> Announced)
    BY <2>1, ComingSame DEF Announced
  <2> QED BY <1>3, <1>4, <2>1, <2>2
<1> QED BY <1>5, <1>6, <1>7, <1>8, <1>9, <1>10, <1>11, <1>12, <1>13, <1>14 DEF Next

LEMMA WatchedInit == Init => Watched
<1> SUFFICES ASSUME Init PROVE Watched
  OBVIOUS
<1>1. flushes[Main] = <<>>
  BY MainFacts DEF Init
<1> QED BY <1>1 DEF Init, Watched, Depth, Coming, Quiet

\* Text in the queue is on somebody's list while the window can work: the main
\* thread will look by itself, or a message to it is there or about to be
\* posted.  The exceptions are a message that could not be posted, a window that
\* one thread made or closed while another one flushed, and handlers that print
\* while the window is painted.
TextIsWatched == outputQueue # <<>> /\ ~chatty =>
                   Broken \/ raced \/ missed \/ mail \/ waking # {} \/ Coming

\* HandleOutput, QueueIdleHandler and the message loop lose no wake-up but the
\* one that PostMessage refuses, for any number of threads and messages.
THEOREM SpecTextIsWatched == Spec => []TextIsWatched
<1>1. Inv /\ Alone /\ Watched /\ [Next]_vars => Watched'
  BY WatchedStep
<1>2. Watched => TextIsWatched
  BY DEF Watched, TextIsWatched, Announced
<1> QED BY <1>1, <1>2, WatchedInit, InvHolds, AloneHolds, PTL DEF Spec
=============================================================================
