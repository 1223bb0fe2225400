-------------------------- MODULE TraceBufferProofs --------------------------
(***************************************************************************)
(* Proofs about TraceBuffer, for any number of threads and any buffer.     *)
(* The second part shows that it implements the bounded log of TraceLog.   *)
(***************************************************************************)
EXTENDS TraceBuffer, SequenceTheorems, TLAPS

PcOK == /\ pc \in [Threads -> WriterPc \cup ReaderPc]
        /\ \A w \in Writers : pc[w] \in WriterPc
        /\ \A r \in Readers : pc[r] \in ReaderPc
        /\ owner \in Threads \cup {None}

\* The owner of the mutex is inside, whether or not waits time out.
OwnerInv == PcOK /\ OwnerWillRelease

LEMMA OwnerInit == Init => OwnerInv
BY BufferAssumption DEF Init, OwnerInv, PcOK, OwnerWillRelease, WriterPc,
   ReaderPc, Threads

LEMMA OwnerStep == OwnerInv /\ [Next]_vars => OwnerInv'
<1> SUFFICES ASSUME OwnerInv, [Next]_vars PROVE OwnerInv'
  OBVIOUS
<1> USE BufferAssumption DEF OwnerInv, PcOK, OwnerWillRelease, Inside, Threads,
        WriterPc, ReaderPc, Goto
<1>1. ASSUME NEW w \in Writers, WriteCall(w) PROVE OwnerInv'
  BY <1>1 DEF WriteCall
<1>2. ASSUME NEW w \in Writers, WriterStep(w) PROVE OwnerInv'
  <2>1. CASE LockForWrite(w) BY <2>1 DEF LockForWrite, GetMyMutex
  <2>2. CASE RoomEnough(w) BY <2>2 DEF RoomEnough
  <2>3. CASE RoomShort(w) BY <2>3 DEF RoomShort, ReleaseMyMutex
  <2>4. CASE Nudge(w) BY <2>4 DEF Nudge
  <2>5. CASE DrainSignalled(w) BY <2>5 DEF DrainSignalled
  <2>6. CASE DrainExpired(w) BY <2>6 DEF DrainExpired
  <2>7. CASE Relock(w) BY <2>7 DEF Relock, GetMyMutex
  <2>8. CASE KeepText(w) BY <2>8 DEF KeepText
  <2>9. CASE DiscardText(w) BY <2>9 DEF DiscardText
  <2>10. CASE CopyIn(w) BY <2>10 DEF CopyIn
  <2>11. CASE Grow(w) BY <2>11 DEF Grow
  <2>12. CASE UnlockWrite(w) BY <2>12 DEF UnlockWrite, ReleaseMyMutex
  <2>13. CASE SignalData(w) BY <2>13 DEF SignalData
  <2> QED BY <1>2, <2>1, <2>2, <2>3, <2>4, <2>5, <2>6, <2>7, <2>8, <2>9,
             <2>10, <2>11, <2>12, <2>13 DEF WriterStep
<1>3. ASSUME NEW r \in Readers, ReadCall(r) PROVE OwnerInv'
  BY <1>3 DEF ReadCall
<1>4. ASSUME NEW r \in Readers, ReaderStep(r) PROVE OwnerInv'
  <2>1. CASE DataSignalled(r) BY <2>1 DEF DataSignalled
  <2>2. CASE WaitExpired(r) BY <2>2 DEF WaitExpired
  <2>3. CASE LockForRead(r) BY <2>3 DEF LockForRead, GetMyMutex
  <2>4. CASE CopyOut(r) BY <2>4 DEF CopyOut
  <2>5. CASE MallocFails(r) BY <2>5 DEF MallocFails
  <2>6. CASE ResetLength(r) BY <2>6 DEF ResetLength
  <2>7. CASE UnlockRead(r) BY <2>7 DEF UnlockRead, ReleaseMyMutex
  <2>8. CASE SignalEmpty(r) BY <2>8 DEF SignalEmpty
  <2> QED BY <1>4, <2>1, <2>2, <2>3, <2>4, <2>5, <2>6, <2>7, <2>8 DEF ReaderStep
<1>5. ASSUME NEW t \in Threads, Crash(t) PROVE OwnerInv'
  BY <1>5 DEF Crash, ReleaseMyMutex
<1>6. CASE UNCHANGED vars
  BY <1>6 DEF vars
<1> QED BY <1>1, <1>2, <1>3, <1>4, <1>5, <1>6 DEF Next

(***************************************************************************)
(* Without time-outs of the mutex the section is never shared.             *)
(***************************************************************************)
MutexInv == PcOK /\ MutualExclusion

LEMMA MutexInit == Init => MutexInv
BY BufferAssumption DEF Init, MutexInv, PcOK, MutualExclusion, Inside, WriterPc,
   ReaderPc, Threads

LEMMA MutexStep ==
  ASSUME ~MutexMayTimeOut, MutexInv, [Next]_vars PROVE MutexInv'
<1> USE BufferAssumption DEF MutexInv, PcOK, MutualExclusion, Inside, Threads,
        WriterPc, ReaderPc, Goto
<1>1. ASSUME NEW w \in Writers, WriteCall(w) PROVE MutexInv'
  BY <1>1 DEF WriteCall
<1>2. ASSUME NEW w \in Writers, WriterStep(w) PROVE MutexInv'
  <2>1. CASE LockForWrite(w) BY <2>1 DEF LockForWrite, GetMyMutex
  <2>2. CASE RoomEnough(w) BY <2>2 DEF RoomEnough
  <2>3. CASE RoomShort(w) BY <2>3 DEF RoomShort, ReleaseMyMutex
  <2>4. CASE Nudge(w) BY <2>4 DEF Nudge
  <2>5. CASE DrainSignalled(w) BY <2>5 DEF DrainSignalled
  <2>6. CASE DrainExpired(w) BY <2>6 DEF DrainExpired
  <2>7. CASE Relock(w) BY <2>7 DEF Relock, GetMyMutex
  <2>8. CASE KeepText(w) BY <2>8 DEF KeepText
  <2>9. CASE DiscardText(w) BY <2>9 DEF DiscardText
  <2>10. CASE CopyIn(w) BY <2>10 DEF CopyIn
  <2>11. CASE Grow(w) BY <2>11 DEF Grow
  <2>12. CASE UnlockWrite(w) BY <2>12 DEF UnlockWrite, ReleaseMyMutex
  <2>13. CASE SignalData(w) BY <2>13 DEF SignalData
  <2> QED BY <1>2, <2>1, <2>2, <2>3, <2>4, <2>5, <2>6, <2>7, <2>8, <2>9,
             <2>10, <2>11, <2>12, <2>13 DEF WriterStep
<1>3. ASSUME NEW r \in Readers, ReadCall(r) PROVE MutexInv'
  BY <1>3 DEF ReadCall
<1>4. ASSUME NEW r \in Readers, ReaderStep(r) PROVE MutexInv'
  <2>1. CASE DataSignalled(r) BY <2>1 DEF DataSignalled
  <2>2. CASE WaitExpired(r) BY <2>2 DEF WaitExpired
  <2>3. CASE LockForRead(r) BY <2>3 DEF LockForRead, GetMyMutex
  <2>4. CASE CopyOut(r) BY <2>4 DEF CopyOut
  <2>5. CASE MallocFails(r) BY <2>5 DEF MallocFails
  <2>6. CASE ResetLength(r) BY <2>6 DEF ResetLength
  <2>7. CASE UnlockRead(r) BY <2>7 DEF UnlockRead, ReleaseMyMutex
  <2>8. CASE SignalEmpty(r) BY <2>8 DEF SignalEmpty
  <2> QED BY <1>4, <2>1, <2>2, <2>3, <2>4, <2>5, <2>6, <2>7, <2>8 DEF ReaderStep
<1>5. ASSUME NEW t \in Threads, Crash(t) PROVE MutexInv'
  BY <1>5 DEF Crash, ReleaseMyMutex
<1>6. CASE UNCHANGED vars
  BY <1>6 DEF vars
<1> QED BY <1>1, <1>2, <1>3, <1>4, <1>5, <1>6 DEF Next

(***************************************************************************)
(* The shape of the section between two accesses.                          *)
(***************************************************************************)

\* A call writes what is left of its text; the numbers of its units exist.
Quota == \A w \in Writers : /\ sent[w] + rem[w] =< MaxUnits
                            /\ pc[w] # "idle" => rem[w] > 0

\* The cells below the length are text.
TextBelowLength == \A i \in 1..len : mem[i] \in Unit

\* memcpy put the chunk right above the length, which has not moved since.
Copied == \A w \in Writers : pc[w] = "grow" =>
            /\ base[w] = len
            /\ len + Chunk(w) =< Capacity
            /\ \A i \in 1..Chunk(w) : mem[len + i] = <<w, sent[w] + i>>

\* The block a reader holds is the text it is about to remove.
Fetched == \A r \in Readers :
             pc[r] = "reset" => result[r] = [i \in 1..len |-> mem[i]]

BufferInv == /\ TypeOK /\ MutexInv /\ InBounds
             /\ Quota /\ TextBelowLength /\ Copied /\ Fetched

LEMMA CapacityNat == Capacity \in Nat \ {0} /\ MaxChunk \in Nat \ {0}
BY BufferAssumption DEF Capacity

LEMMA ChunkBounds ==
  ASSUME TypeOK, NEW w \in Writers
  PROVE  /\ Chunk(w) \in 0..rem[w] /\ Chunk(w) \in 0..Capacity
         /\ Chunk(w) =< MaxChunk
         /\ rem[w] > 0 => Chunk(w) > 0
BY BufferAssumption, CapacityNat DEF TypeOK, Chunk

\* The units of the current chunk are among those the writer may write.
LEMMA UnitExists ==
  ASSUME TypeOK, Quota, NEW w \in Writers, NEW i \in Int,
         i - len \in 1..Chunk(w)
  PROVE  <<w, sent[w] + (i - len)>> \in Unit
<1>1. sent[w] + (i - len) \in 1..MaxUnits
  BY ChunkBounds, BufferAssumption DEF TypeOK, Quota
<1> QED BY <1>1 DEF Unit

LEMMA BufferInit == Init => BufferInv
<1> SUFFICES ASSUME Init PROVE BufferInv
  OBVIOUS
<1>1. MutexInv
  BY MutexInit
<1>2. TypeOK
  <2>1. << >> \in Seq(Unit)
    OBVIOUS
  <2>2. mem \in [1..Capacity -> Unit \cup {Blank}]
    BY DEF Init
  <2>3. result \in [Readers -> Seq(Unit)] /\ taken \in Seq(Unit)
    BY <2>1 DEF Init
  <2>4. /\ rem \in [Writers -> 0..MaxUnits]
        /\ sent \in [Writers -> 0..MaxUnits]
        /\ base \in [Writers -> Nat]
    BY BufferAssumption DEF Init
  <2>5. PcOK
    BY <1>1 DEF MutexInv
  <2> QED
    BY <2>2, <2>3, <2>4, <2>5 DEF Init, TypeOK, PcOK
<1> QED
  BY <1>1, <1>2, CapacityNat, BufferAssumption DEF Init, BufferInv, InBounds,
     Quota, TextBelowLength, Copied, Fetched, Threads, WriterPc, ReaderPc

Rest == InBounds /\ Quota /\ TextBelowLength /\ Copied /\ Fetched

\* A step that moves one thread and touches neither the section nor anybody's
\* locals keeps everything that is not about where that thread is now.
LEMMA QuietStep ==
  ASSUME BufferInv, MutexInv',
         NEW t \in Threads, NEW to,
         pc' = [pc EXCEPT ![t] = to],
         to \notin {"copy", "grow", "reset"},
         t \in Writers => pc[t] # "idle",
         dataEvent' \in BOOLEAN, emptyEvent' \in BOOLEAN,
         UNCHANGED <<len, mem, locals, taken>>
  PROVE  BufferInv'
<1>1. TypeOK'
  BY DEF BufferInv, MutexInv, PcOK, TypeOK, locals
<1>2. Rest'
  BY DEF BufferInv, TypeOK, Rest, InBounds, Quota, TextBelowLength, Copied,
     Fetched, locals, Chunk, Threads
<1> QED
  BY <1>1, <1>2 DEF BufferInv, Rest

LEMMA BufferStep ==
  ASSUME ~MutexMayTimeOut, BufferInv, [Next]_vars PROVE BufferInv'
<1>0. MutexInv' /\ MutexInv
  BY MutexStep DEF BufferInv
<1> USE BufferAssumption, CapacityNat
<1>1. ASSUME NEW w \in Writers, WriteCall(w) PROVE BufferInv'
  <2>1. TypeOK'
    BY <1>0, <1>1 DEF BufferInv, MutexInv, PcOK, TypeOK, WriteCall
  <2>2. PICK n \in 1..MaxUnits : /\ sent[w] + n =< Budget[w]
                                 /\ rem' = [rem EXCEPT ![w] = n]
    BY <1>1 DEF WriteCall
  <2> Budget[w] \in 0..MaxUnits
    BY <1>1
  <2>3. Quota'
    BY <1>1, <2>2 DEF BufferInv, TypeOK, Quota, Threads, WriteCall, Goto
  <2>4. InBounds' /\ TextBelowLength' /\ Copied' /\ Fetched'
    BY <1>1 DEF BufferInv, TypeOK, InBounds, TextBelowLength, Copied,
       Fetched, Chunk, Threads, WriteCall, Goto
  <2> QED BY <1>0, <2>1, <2>3, <2>4 DEF BufferInv
<1>2. ASSUME NEW w \in Writers, WriterStep(w) PROVE BufferInv'
  <2> w \in Threads BY DEF Threads
  <2> dataEvent \in BOOLEAN /\ emptyEvent \in BOOLEAN
    BY DEF BufferInv, TypeOK
  <2>1. CASE LockForWrite(w)
    BY <1>0, <2>1, QuietStep DEF LockForWrite, Goto
  <2>2. CASE RoomEnough(w)
    BY <1>0, <2>2, QuietStep DEF RoomEnough, Goto
  <2>3. CASE RoomShort(w)
    BY <1>0, <2>3, QuietStep DEF RoomShort, Goto
  <2>4. CASE Nudge(w)
    BY <1>0, <2>4, QuietStep DEF Nudge, Goto
  <2>5. CASE DrainSignalled(w)
    BY <1>0, <2>5, QuietStep DEF DrainSignalled, Goto
  <2>6. CASE DrainExpired(w)
    BY <1>0, <2>6, QuietStep DEF DrainExpired, Goto
  <2>7. CASE Relock(w)
    BY <1>0, <2>7, QuietStep DEF Relock, Goto
  <2>8. CASE KeepText(w)
    <3>1. TypeOK'
      BY <1>0, <2>8 DEF BufferInv, MutexInv, PcOK, TypeOK, KeepText, locals
    <3>2. Quota'
      BY <2>8 DEF BufferInv, Quota, Threads, KeepText, Goto, locals
    <3>3. len + Chunk(w) =< Capacity
      BY <2>8, ChunkBounds DEF BufferInv, TypeOK, InBounds, KeepText, SizeLeft
    <3>4. InBounds'
      BY <2>8, <3>3 DEF BufferInv, InBounds, Chunk, Threads, TypeOK, KeepText, Goto, locals
    <3>5. TextBelowLength' /\ Copied' /\ Fetched'
      BY <2>8 DEF BufferInv, TypeOK, TextBelowLength, Copied, Fetched, Chunk,
         Threads, KeepText, Goto, locals
    <3> QED BY <1>0, <3>1, <3>2, <3>4, <3>5 DEF BufferInv
  <2>9. CASE DiscardText(w)
    <3>1. TypeOK'
      BY <1>0, <2>9 DEF BufferInv, MutexInv, PcOK, TypeOK, DiscardText, locals
    <3>2. Rest'
      BY <1>0, <2>9, ChunkBounds DEF BufferInv, TypeOK, Rest, InBounds, Quota,
         TextBelowLength, Copied, Fetched, Chunk, Threads, DiscardText, Goto,
         locals, MutexInv, MutualExclusion, Inside
    <3> QED BY <1>0, <3>1, <3>2 DEF BufferInv, Rest
  <2>10. CASE CopyIn(w)
    <3>1. \A i \in 1..Capacity : mem'[i] =
            IF i \in len + 1 .. len + Chunk(w)
            THEN <<w, sent[w] + (i - len)>> ELSE mem[i]
      BY <2>10 DEF CopyIn
    <3>2. \A i \in len + 1 .. len + Chunk(w) :
            <<w, sent[w] + (i - len)>> \in Unit
      <4> SUFFICES ASSUME NEW i \in len + 1 .. len + Chunk(w)
                   PROVE  <<w, sent[w] + (i - len)>> \in Unit
        OBVIOUS
      <4>1. i \in Int /\ i - len \in 1..Chunk(w)
        BY ChunkBounds DEF BufferInv, TypeOK
      <4> QED BY <4>1, UnitExists DEF BufferInv
    <3>3. mem' \in [1..Capacity -> Unit \cup {Blank}]
      BY <2>10, <3>2 DEF BufferInv, TypeOK, CopyIn
    <3>4. TypeOK'
      BY <1>0, <2>10, <3>3 DEF BufferInv, MutexInv, PcOK, TypeOK, CopyIn
    <3>5. InBounds' /\ Quota'
      BY <2>10 DEF BufferInv, TypeOK, InBounds, Quota, Chunk, Threads, CopyIn,
         Goto
    <3>6. TextBelowLength'
      BY <2>10, <3>1 DEF BufferInv, TypeOK, InBounds, TextBelowLength, CopyIn
    <3>7. Copied'
      <4> SUFFICES ASSUME NEW v \in Writers, pc'[v] = "grow"
                   PROVE  /\ base'[v] = len' /\ len' + Chunk(v)' =< Capacity
                          /\ \A i \in 1..Chunk(v)' :
                               mem'[len' + i] = <<v, sent'[v] + i>>
        BY DEF Copied
      <4>1. v = w
        BY <1>0, <2>10 DEF MutexInv, PcOK, MutualExclusion, Inside, Threads,
           CopyIn, Goto
      <4>2. len + Chunk(w) =< Capacity
        BY <2>10 DEF BufferInv, InBounds, CopyIn, Goto
      <4> QED
        BY <2>10, <3>1, <4>1, <4>2, ChunkBounds
        DEF BufferInv, TypeOK, CopyIn, Chunk
    <3>8. Fetched'
      BY <1>0, <2>10 DEF BufferInv, TypeOK, Fetched, CopyIn, Goto, MutexInv,
         MutualExclusion, Inside, Threads
    <3> QED BY <1>0, <3>4, <3>5, <3>6, <3>7, <3>8 DEF BufferInv
  <2>11. CASE Grow(w)
    <3>1. /\ base[w] = len /\ len + Chunk(w) =< Capacity
          /\ \A i \in 1..Chunk(w) : mem[len + i] = <<w, sent[w] + i>>
      BY <2>11 DEF BufferInv, Copied, Grow, Goto
    <3>2. len' = len + Chunk(w)
      BY <2>11, <3>1 DEF Grow
    <3>3. TypeOK'
      BY <1>0, <2>11, <3>2, ChunkBounds
      DEF BufferInv, MutexInv, PcOK, TypeOK, Grow, locals
    <3>4. \A v \in Writers : pc'[v] \notin {"copy", "grow"}
      BY <1>0, <2>11 DEF MutexInv, PcOK, MutualExclusion, Inside, Threads, Grow,
         Goto
    <3>5. InBounds' /\ Copied'
      BY <3>1, <3>2, <3>4 DEF InBounds, Copied
    <3>6. Quota'
      BY <2>11 DEF BufferInv, TypeOK, Quota, Threads, Grow, Goto, locals
    <3>7. TextBelowLength'
      <4> SUFFICES ASSUME NEW i \in 1..len' PROVE mem[i] \in Unit
        BY <2>11 DEF TextBelowLength, Grow
      <4>1. CASE i =< len
        BY <4>1 DEF BufferInv, TypeOK, TextBelowLength
      <4>2. CASE i > len
        <5>1. i - len \in 1..Chunk(w)
          BY <3>2, <4>2, ChunkBounds DEF BufferInv, TypeOK
        <5>2. mem[i] = <<w, sent[w] + (i - len)>>
          BY <3>1, <5>1 DEF BufferInv, TypeOK
        <5> QED
          BY <5>1, <5>2, UnitExists, i \in Int DEF BufferInv
      <4> QED BY <4>1, <4>2, <3>3 DEF BufferInv, TypeOK
    <3>8. Fetched'
      BY <1>0, <2>11 DEF BufferInv, TypeOK, Fetched, Grow, Goto, MutexInv,
         MutualExclusion, Inside, Threads
    <3> QED BY <1>0, <3>3, <3>5, <3>6, <3>7, <3>8 DEF BufferInv
  <2>12. CASE UnlockWrite(w)
    BY <1>0, <2>12, QuietStep DEF UnlockWrite, Goto
  <2>13. CASE SignalData(w)
    <3>1. Chunk(w) \in 0..rem[w] /\ sent[w] + rem[w] =< MaxUnits
      BY ChunkBounds DEF BufferInv, Quota
    <3>2. rem'[w] = rem[w] - Chunk(w) /\ sent'[w] = sent[w] + Chunk(w)
      BY <2>13 DEF BufferInv, TypeOK, SignalData
    <3>3. TypeOK'
      BY <1>0, <2>13, <3>1 DEF BufferInv, MutexInv, PcOK, TypeOK, SignalData
    <3>4. Quota'
      BY <2>13, <3>1, <3>2 DEF BufferInv, TypeOK, Quota, Threads, SignalData,
         Goto
    <3>5. InBounds' /\ TextBelowLength' /\ Copied' /\ Fetched'
      BY <2>13 DEF BufferInv, TypeOK, InBounds, TextBelowLength, Copied,
         Fetched, Chunk, Threads, SignalData, Goto
    <3> QED BY <1>0, <3>3, <3>4, <3>5 DEF BufferInv
  <2> QED BY <1>2, <2>1, <2>2, <2>3, <2>4, <2>5, <2>6, <2>7, <2>8, <2>9,
             <2>10, <2>11, <2>12, <2>13 DEF WriterStep
<1>3. ASSUME NEW r \in Readers, ReadCall(r) PROVE BufferInv'
  <2>1. PICK to \in {"lock", "await", "awaitTimed"} : Goto(r, "idle", to)
    BY <1>3 DEF ReadCall
  <2>2. r \in Threads /\ r \notin Writers
    BY DEF Threads
  <2> QED
    BY <1>0, <1>3, <2>1, <2>2, QuietStep DEF ReadCall, Goto, BufferInv, TypeOK
<1>4. ASSUME NEW r \in Readers, ReaderStep(r) PROVE BufferInv'
  <2> r \in Threads /\ r \notin Writers
    BY DEF Threads
  <2> dataEvent \in BOOLEAN /\ emptyEvent \in BOOLEAN
    BY DEF BufferInv, TypeOK
  <2>1. CASE DataSignalled(r)
    BY <1>0, <2>1, QuietStep DEF DataSignalled
  <2>2. CASE WaitExpired(r)
    BY <1>0, <2>2, QuietStep DEF WaitExpired, Goto
  <2>3. CASE LockForRead(r)
    BY <1>0, <2>3, QuietStep DEF LockForRead, Goto
  <2>4. CASE CopyOut(r)
    <3>1. [i \in 1..len |-> mem[i]] \in Seq(Unit)
      BY DEF BufferInv, TypeOK, TextBelowLength
    <3>2. TypeOK'
      BY <1>0, <2>4, <3>1 DEF BufferInv, MutexInv, PcOK, TypeOK, CopyOut
    <3>3. InBounds' /\ Quota' /\ TextBelowLength' /\ Copied'
      BY <2>4 DEF BufferInv, TypeOK, InBounds, Quota, TextBelowLength, Copied,
         Chunk, Threads, CopyOut, Goto
    <3>4. Fetched'
      BY <1>0, <2>4 DEF BufferInv, TypeOK, Fetched, Threads, CopyOut, Goto,
         MutexInv, MutualExclusion, Inside
    <3> QED BY <1>0, <3>2, <3>3, <3>4 DEF BufferInv
  <2>5. CASE MallocFails(r)
    BY <1>0, <2>5, QuietStep DEF MallocFails, Goto
  <2>6. CASE ResetLength(r)
    <3>1. TypeOK'
      <4>1. taken \in Seq(Unit) /\ result[r] \in Seq(Unit)
        BY DEF BufferInv, TypeOK
      <4>2. taken \o result[r] \in Seq(Unit)
        BY <4>1
      <4> QED
        BY <1>0, <2>6, <4>2
        DEF BufferInv, MutexInv, PcOK, TypeOK, ResetLength, locals
    <3>2. InBounds' /\ Quota' /\ TextBelowLength' /\ Copied' /\ Fetched'
      BY <1>0, <2>6 DEF BufferInv, TypeOK, InBounds, Quota, TextBelowLength,
         Copied, Fetched, Chunk, Threads, ResetLength, Goto, locals, MutexInv,
         MutualExclusion, Inside
    <3> QED BY <1>0, <3>1, <3>2 DEF BufferInv
  <2>7. CASE UnlockRead(r)
    <3>1. result' \in [Readers -> Seq(Unit)]
      <4>1. << >> \in Seq(Unit)
        OBVIOUS
      <4> QED BY <2>7, <4>1 DEF BufferInv, TypeOK, UnlockRead
    <3>2. TypeOK'
      BY <1>0, <2>7, <3>1 DEF BufferInv, MutexInv, PcOK, TypeOK, UnlockRead
    <3>3. InBounds' /\ Quota' /\ TextBelowLength' /\ Copied' /\ Fetched'
      BY <2>7 DEF BufferInv, TypeOK, InBounds, Quota, TextBelowLength,
         Copied, Fetched, Chunk, Threads, UnlockRead, Goto
    <3> QED BY <1>0, <3>2, <3>3 DEF BufferInv
  <2>8. CASE SignalEmpty(r)
    <3>1. result' \in [Readers -> Seq(Unit)]
      <4>1. << >> \in Seq(Unit)
        OBVIOUS
      <4> QED BY <2>8, <4>1 DEF BufferInv, TypeOK, SignalEmpty
    <3>2. TypeOK'
      BY <1>0, <2>8, <3>1 DEF BufferInv, MutexInv, PcOK, TypeOK, SignalEmpty
    <3>3. InBounds' /\ Quota' /\ TextBelowLength' /\ Copied' /\ Fetched'
      BY <2>8 DEF BufferInv, TypeOK, InBounds, Quota, TextBelowLength,
         Copied, Fetched, Chunk, Threads, SignalEmpty, Goto
    <3> QED BY <1>0, <3>2, <3>3 DEF BufferInv
  <2> QED BY <1>4, <2>1, <2>2, <2>3, <2>4, <2>5, <2>6, <2>7, <2>8
          DEF ReaderStep
<1>5. ASSUME NEW t \in Threads, Crash(t) PROVE BufferInv'
  <2>1. << >> \in Seq(Unit)
    OBVIOUS
  <2>2. TypeOK'
    BY <1>0, <1>5, <2>1 DEF BufferInv, MutexInv, PcOK, TypeOK, Quota, Crash
  <2>3. Quota'
    BY <1>5 DEF BufferInv, TypeOK, Quota, Threads, Crash
  <2>4. InBounds' /\ TextBelowLength'
    BY <1>5 DEF BufferInv, TypeOK, InBounds, TextBelowLength, Chunk, Threads,
       Crash
  <2>5. Copied' /\ Fetched'
    BY <1>5 DEF BufferInv, TypeOK, Copied, Fetched, Chunk, Threads, Crash
  <2> QED BY <1>0, <2>2, <2>3, <2>4, <2>5 DEF BufferInv
<1>6. CASE UNCHANGED vars
  BY <1>0, <1>6 DEF vars, locals, BufferInv, TypeOK, InBounds, Quota,
     TextBelowLength, Copied, Fetched, Chunk
<1> QED BY <1>1, <1>2, <1>3, <1>4, <1>5, <1>6 DEF Next

(***************************************************************************)
(* No lost wakeup.                                                         *)
(***************************************************************************)
LEMMA WakeStep ==
  ASSUME ~MallocMayFail, ~MayCrash, PcOK, TextAnnounced, [Next]_vars
  PROVE  TextAnnounced'
<1> USE BufferAssumption DEF PcOK, TextAnnounced, Threads, WriterPc, ReaderPc,
        Goto, locals
<1>1. ASSUME NEW w \in Writers, WriteCall(w) PROVE TextAnnounced'
  BY <1>1 DEF WriteCall
<1>2. ASSUME NEW w \in Writers, WriterStep(w) PROVE TextAnnounced'
  <2>1. CASE LockForWrite(w) BY <2>1 DEF LockForWrite
  <2>2. CASE RoomEnough(w) BY <2>2 DEF RoomEnough
  <2>3. CASE RoomShort(w) BY <2>3 DEF RoomShort
  <2>4. CASE Nudge(w) BY <2>4 DEF Nudge
  <2>5. CASE DrainSignalled(w) BY <2>5 DEF DrainSignalled
  <2>6. CASE DrainExpired(w) BY <2>6 DEF DrainExpired
  <2>7. CASE Relock(w) BY <2>7 DEF Relock
  <2>8. CASE KeepText(w) BY <2>8 DEF KeepText
  <2>9. CASE DiscardText(w) BY <2>9 DEF DiscardText
  <2>10. CASE CopyIn(w) BY <2>10 DEF CopyIn
  <2>11. CASE Grow(w) BY <2>11 DEF Grow
  <2>12. CASE UnlockWrite(w) BY <2>12 DEF UnlockWrite
  <2>13. CASE SignalData(w) BY <2>13 DEF SignalData
  <2> QED BY <1>2, <2>1, <2>2, <2>3, <2>4, <2>5, <2>6, <2>7, <2>8, <2>9,
             <2>10, <2>11, <2>12, <2>13 DEF WriterStep
<1>3. ASSUME NEW r \in Readers, ReadCall(r) PROVE TextAnnounced'
  BY <1>3 DEF ReadCall
<1>4. ASSUME NEW r \in Readers, ReaderStep(r) PROVE TextAnnounced'
  <2>1. CASE DataSignalled(r) BY <2>1 DEF DataSignalled
  <2>2. CASE WaitExpired(r) BY <2>2 DEF WaitExpired
  <2>3. CASE LockForRead(r) BY <2>3 DEF LockForRead
  <2>4. CASE CopyOut(r) BY <2>4 DEF CopyOut
  <2>5. CASE MallocFails(r) BY <2>5 DEF MallocFails
  <2>6. CASE ResetLength(r) BY <2>6 DEF ResetLength
  <2>7. CASE UnlockRead(r) BY <2>7 DEF UnlockRead
  <2>8. CASE SignalEmpty(r) BY <2>8 DEF SignalEmpty
  <2> QED BY <1>4, <2>1, <2>2, <2>3, <2>4, <2>5, <2>6, <2>7, <2>8 DEF ReaderStep
<1>5. ASSUME NEW t \in Threads, Crash(t) PROVE TextAnnounced'
  BY <1>5 DEF Crash
<1>6. CASE UNCHANGED vars
  BY <1>6 DEF vars
<1> QED BY <1>1, <1>2, <1>3, <1>4, <1>5, <1>6 DEF Next

(***************************************************************************)
(* The theorems.                                                           *)
(***************************************************************************)

\* However long a holder of the mutex is suspended and whatever processes
\* end, the mutex belongs to nobody or to a thread that will release it.
THEOREM MutexNeverStranded == Spec => []OwnerWillRelease
<1>1. OwnerInv => OwnerWillRelease
  BY DEF OwnerInv
<1> QED BY OwnerInit, OwnerStep, <1>1, PTL DEF Spec

\* While no mutex wait lasts 10 seconds, crashes and failing allocations
\* included, GetMyMutex and ReleaseMyMutex exclude each other's threads.
THEOREM SectionExclusive ==
  ASSUME ~MutexMayTimeOut PROVE Spec => []MutualExclusion
<1>1. MutexInv => MutualExclusion
  BY DEF MutexInv
<1>2. MutexInv /\ [Next]_vars => MutexInv'
  BY MutexStep
<1> QED BY MutexInit, <1>1, <1>2, PTL DEF Spec

LEMMA BufferAlways == ASSUME ~MutexMayTimeOut PROVE Spec => []BufferInv
<1>1. BufferInv /\ [Next]_vars => BufferInv'
  BY BufferStep
<1> QED BY BufferInit, <1>1, PTL DEF Spec

\* WriteData and ReadData keep every variable in its type: in particular a
\* read only ever returns text somebody wrote, never a blank cell.
THEOREM TypesKept == ASSUME ~MutexMayTimeOut PROVE Spec => []TypeOK
<1>1. BufferInv => TypeOK
  BY DEF BufferInv
<1> QED BY BufferAlways, <1>1, PTL

\* memcpy never leaves the section and sizeLeft never wraps, whatever the
\* sizes of the buffer, of its header and of the texts.
THEOREM BoundsKept == ASSUME ~MutexMayTimeOut PROVE Spec => []InBounds
<1>1. BufferInv => InBounds
  BY DEF BufferInv
<1> QED BY BufferAlways, <1>1, PTL

\* Without crashes and failing allocations, text is announced until it is
\* read, even when waits for the mutex time out.
THEOREM NoLostWakeup ==
  ASSUME ~MallocMayFail, ~MayCrash PROVE Spec => []TextAnnounced
<1>1. Init => OwnerInv /\ TextAnnounced
  BY OwnerInit DEF Init, TextAnnounced
<1>2. OwnerInv /\ TextAnnounced /\ [Next]_vars => (OwnerInv /\ TextAnnounced)'
  BY OwnerStep, WakeStep DEF OwnerInv
<1> QED BY <1>1, <1>2, PTL DEF Spec

(***************************************************************************)
(* The protocol implements the bounded log.                                *)
(***************************************************************************)
Content == [i \in 1..len |-> mem[i]]
Given == [w \in Writers |-> Written(w)]

\* A step the log does not see
Stutter == UNCHANGED <<Content, taken, Given>>

LEMMA StutterIsLogStep == Stutter => UNCHANGED Log!logVars
BY DEF Stutter, Log!logVars, Content, Given

LEMMA LogInitMapped == Init => Log!LogInit
<1> SUFFICES ASSUME Init PROVE Log!LogInit
  OBVIOUS
<1>1. Content = << >>
  BY DEF Init, Content
<1>2. Given = [w \in Writers |-> 0]
  BY DEF Init, Given, Written, Threads
<1> QED BY <1>1, <1>2 DEF Log!LogInit, Init, Content, Given

\* A move of one thread that neither enters nor leaves the part of WriteData
\* between the new length and data_this += len_this.
LEMMA MoveStutters ==
  ASSUME TypeOK, NEW t \in Threads, NEW to,
         pc' = [pc EXCEPT ![t] = to],
         t \in Writers => (pc[t] \in {"unlock", "signal"} <=>
                             to \in {"unlock", "signal"}),
         t \in Writers => pc[t] # "idle",
         UNCHANGED <<len, mem, rem, sent, taken>>
  PROVE  Stutter
<1>1. \A w \in Writers : Written(w)' = Written(w)
  BY DEF TypeOK, Written, Chunk, Threads
<1> QED BY <1>1 DEF Stutter, Content, Given

LEMMA AppendMapped ==
  ASSUME BufferInv, NEW w \in Writers, Grow(w)
  PROVE  Log!AppendChunk(w, Chunk(w)) /\ Chunk(w) \in 1..MaxChunk
<1> USE CapacityNat
<1> DEFINE k == Chunk(w)
<1>0. k \in 1..MaxChunk /\ len \in Nat /\ sent[w] \in Nat /\ rem[w] \in Nat
  <2>1. TypeOK /\ rem[w] > 0
    BY DEF BufferInv, Quota, Grow, Goto
  <2>2. Chunk(w) > 0 /\ Chunk(w) =< MaxChunk /\ Chunk(w) \in 0..rem[w]
    BY <2>1, ChunkBounds
  <2>3. len \in Nat /\ sent[w] \in Nat /\ rem[w] \in Nat
    BY <2>1, BufferAssumption DEF TypeOK
  <2> QED BY <2>2, <2>3
<1>1. /\ base[w] = len /\ len + k =< Capacity
      /\ \A i \in 1..k : mem[len + i] = <<w, sent[w] + i>>
  BY DEF BufferInv, Copied, Grow, Goto
<1>2. len' = len + k /\ mem' = mem /\ taken' = taken
  BY <1>1 DEF Grow
<1>3. Written(w) = sent[w]
  BY <1>0 DEF Written, Grow, Goto
<1>4. sent[w] + k =< MaxUnits
  BY ChunkBounds, BufferAssumption DEF BufferInv, Quota, TypeOK
<1>5. Content' = Content \o [i \in 1..k |-> <<w, sent[w] + i>>]
  <2> DEFINE u == [i \in 1..k |-> <<w, sent[w] + i>>]
  <2>1. Content' = [i \in 1..len + k |-> mem[i]]
    BY <1>2 DEF Content
  <2>2. Content \in Seq(Unit) /\ Len(Content) = len
    BY <1>0 DEF Content, BufferInv, TextBelowLength
  <2>3. u \in Seq(Unit) /\ Len(u) = k
    <3>1. \A i \in 1..k : <<w, sent[w] + i>> \in Unit
      BY <1>0, <1>4, BufferAssumption DEF Unit
    <3> QED BY <1>0, <3>1
  <2>4. \A i \in 1..len + k :
           mem[i] = IF i =< len THEN Content[i] ELSE u[i - len]
    <3> SUFFICES ASSUME NEW i \in 1..len + k
                 PROVE  mem[i] = IF i =< len THEN Content[i] ELSE u[i - len]
      OBVIOUS
    <3>1. CASE i =< len
      BY <1>0, <3>1 DEF Content
    <3>2. CASE i > len
      <4>1. i - len \in 1..k
        BY <1>0, <3>2
      <4>2. mem[len + (i - len)] = <<w, sent[w] + (i - len)>>
        BY <1>1, <4>1
      <4> QED BY <1>0, <3>2, <4>1, <4>2
    <3> QED BY <1>0, <3>1, <3>2
  <2>5. /\ Content \o u \in Seq(Unit)
        /\ Len(Content \o u) = len + k
        /\ \A i \in 1..len + k : (Content \o u)[i] = mem[i]
    <3> HIDE DEF u
    <3>1. /\ Content \o u \in Seq(Unit)
          /\ Len(Content \o u) = len + k
          /\ \A i \in 1..len + k : (Content \o u)[i] =
               IF i =< len THEN Content[i] ELSE u[i - len]
      BY <2>2, <2>3, ConcatProperties
    <3> QED BY <2>4, <3>1
  <2>6. /\ Content' \in Seq(Unit)
        /\ Len(Content') = len + k
        /\ \A i \in 1..len + k : Content'[i] = mem[i]
    <3>1. \A i \in 1..len + k : mem[i] \in Unit
      <4> HIDE DEF u
      <4> QED BY <2>5, ElementOfSeq
    <3> QED BY <1>0, <2>1, <3>1
  <2> HIDE DEF u
  <2>7. Content' = Content \o u
    BY <2>5, <2>6, SeqEqual
  <2> QED BY <2>7 DEF u
<1>6. Given' = [Given EXCEPT ![w] = @ + k]
  <2>1. Written(w)' = sent[w] + k
    BY <1>0 DEF Written, Grow, Goto, Chunk, locals, BufferInv, TypeOK, Threads
  <2>2. \A v \in Writers \ {w} : Written(v)' = Written(v)
    BY DEF Written, Grow, Goto, Chunk, locals, BufferInv, TypeOK, Threads
  <2> QED BY <1>3, <2>1, <2>2 DEF Given
<1>7. Len(Content) = len
  BY <1>0 DEF Content
<1> QED
  BY <1>0, <1>1, <1>2, <1>3, <1>4, <1>5, <1>6, <1>7
  DEF Log!AppendChunk, Log!UnitsOf, Content, Given

\* memcpy writes above the length only.
LEMMA CopyInStutters ==
  ASSUME BufferInv, NEW w \in Writers, CopyIn(w) PROVE Stutter
<1>1. len \in Nat /\ len =< Capacity
  BY DEF BufferInv, TypeOK, InBounds
<1>2. \A i \in 1..len : mem'[i] = mem[i]
  BY <1>1, CapacityNat DEF CopyIn
<1>3. Content' = Content
  BY <1>1, <1>2 DEF Content, CopyIn
<1>4. \A v \in Writers : Written(v)' = Written(v)
  BY DEF Written, CopyIn, Goto, Chunk, BufferInv, TypeOK, Threads
<1> QED BY <1>3, <1>4 DEF Stutter, Given, CopyIn

LEMMA DiscardMapped ==
  ASSUME BufferInv, NEW w \in Writers, DiscardText(w)
  PROVE  Log!Discard(Chunk(w)) /\ Chunk(w) \in 1..MaxChunk
<1> USE CapacityNat
<1>1. len \in Nat /\ len =< Capacity /\ Chunk(w) \in 1..MaxChunk
  <2>1. TypeOK /\ rem[w] > 0
    BY DEF BufferInv, Quota, DiscardText, Goto
  <2>2. Chunk(w) > 0 /\ Chunk(w) =< MaxChunk /\ Chunk(w) \in 0..rem[w]
    BY <2>1, ChunkBounds
  <2>3. len \in Nat /\ len =< Capacity /\ rem[w] \in Nat
    BY <2>1, BufferAssumption DEF BufferInv, InBounds, TypeOK
  <2> QED BY <2>2, <2>3
<1>2. len + Chunk(w) > Capacity
  BY <1>1 DEF DiscardText, SizeLeft
<1>3. Len(Content) = len
  BY <1>1 DEF Content, BufferInv, TextBelowLength
<1>4. Content' = << >>
  BY DEF Content, DiscardText
<1>5. \A v \in Writers : Written(v)' = Written(v)
  BY DEF Written, DiscardText, Goto, Chunk, BufferInv, TypeOK, Threads, locals
<1> QED
  BY <1>1, <1>2, <1>3, <1>4, <1>5
  DEF Log!Discard, Content, Given, DiscardText

LEMMA TakeMapped ==
  ASSUME BufferInv, NEW r \in Readers, ResetLength(r) PROVE Log!Take
<1>1. result[r] = Content
  BY DEF BufferInv, Fetched, ResetLength, Goto, Content
<1>2. Content' = << >>
  BY DEF Content, ResetLength
<1>3. \A v \in Writers : Written(v)' = Written(v)
  BY BufferAssumption
  DEF Written, ResetLength, Goto, Chunk, BufferInv, TypeOK, Threads, locals
<1> QED BY <1>1, <1>2, <1>3 DEF Log!Take, Content, Given, ResetLength

\* data_this += len_this makes up for what Written counted ahead.
LEMMA SignalStutters ==
  ASSUME BufferInv, NEW w \in Writers, SignalData(w) PROVE Stutter
<1>1. Written(w)' = Written(w)
  <2>1. sent[w] \in Nat /\ Chunk(w) \in Nat
    BY ChunkBounds, BufferAssumption, CapacityNat DEF BufferInv, TypeOK
  <2>2. Written(w) = sent[w] + Chunk(w)
    BY DEF Written, SignalData, Goto
  <2>3. sent'[w] = sent[w] + Chunk(w) /\ pc'[w] \notin {"unlock", "signal"}
    BY DEF SignalData, Goto, BufferInv, TypeOK, Threads
  <2> QED BY <2>1, <2>2, <2>3 DEF Written
<1>2. \A v \in Writers \ {w} : Written(v)' = Written(v)
  BY DEF Written, SignalData, Goto, Chunk, BufferInv, TypeOK, Threads
<1> QED BY <1>1, <1>2 DEF Stutter, Content, Given, SignalData

\* The end of a process gives up what its writer had not stored yet.
LEMMA CrashMapped ==
  ASSUME BufferInv, NEW t \in Threads, Crash(t)
  PROVE  Stutter \/ \E w \in Writers : Log!Abandon(w)
<1>1. Content' = Content /\ taken' = taken
  BY DEF Content, Crash
<1>2. \A v \in Writers \ {t} : Written(v)' = Written(v)
  BY DEF Written, Crash, Chunk, BufferInv, TypeOK, Threads
<1>3. CASE t \notin Writers
  BY <1>1, <1>2, <1>3 DEF Stutter, Given
<1>4. CASE t \in Writers
  <2>1. /\ sent[t] \in Nat /\ rem[t] \in Nat /\ Chunk(t) \in 0..rem[t]
        /\ sent[t] + rem[t] =< MaxUnits
    BY <1>4, ChunkBounds, BufferAssumption, CapacityNat
    DEF BufferInv, Quota, TypeOK
  <2>2. Written(t)' = sent[t] + rem[t]
    BY <1>4, <2>1 DEF Written, Crash, BufferInv, TypeOK
  <2>3. Written(t) \in Nat /\ Written(t) =< sent[t] + rem[t]
    BY <2>1 DEF Written
  <2>4. CASE Written(t) = sent[t] + rem[t]
    BY <1>1, <1>2, <2>2, <2>4 DEF Stutter, Given
  <2>5. CASE Written(t) < sent[t] + rem[t]
    <3> DEFINE n == sent[t] + rem[t] - Written(t)
    <3>1. n \in 1..MaxUnits /\ Written(t) + n = sent[t] + rem[t]
      BY <2>1, <2>3, <2>5, BufferAssumption
    <3>2. Given[t] + n =< MaxUnits
      BY <1>4, <2>1, <3>1 DEF Given
    <3>3. Given' = [Given EXCEPT ![t] = @ + n]
      BY <1>2, <1>4, <2>2, <3>1 DEF Given
    <3>4. Log!Abandon(t)
      BY <1>1, <3>1, <3>2, <3>3 DEF Log!Abandon, Content, Given
    <3> QED BY <1>4, <3>4
  <2> QED BY <2>1, <2>3, <2>4, <2>5
<1> QED BY <1>3, <1>4

LEMMA LogStepMapped ==
  ASSUME BufferInv, [Next]_vars PROVE [Log!LogNext]_(Log!logVars)
<1> SUFFICES Stutter \/ Log!LogNext
  BY StutterIsLogStep
<1>0. TypeOK
  BY DEF BufferInv
<1>1. ASSUME NEW w \in Writers, WriteCall(w) PROVE Stutter
  BY <1>0, <1>1 DEF WriteCall, Goto, Stutter, Content, Given, Written, Chunk,
     TypeOK, Threads
<1>2. ASSUME NEW w \in Writers, WriterStep(w) PROVE Stutter \/ Log!LogNext
  <2> w \in Threads
    BY DEF Threads
  <2>1. CASE LockForWrite(w)
    BY <1>0, <2>1, MoveStutters DEF LockForWrite, Goto, locals
  <2>2. CASE RoomEnough(w)
    BY <1>0, <2>2, MoveStutters DEF RoomEnough, Goto, locals
  <2>3. CASE RoomShort(w)
    BY <1>0, <2>3, MoveStutters DEF RoomShort, Goto, locals
  <2>4. CASE Nudge(w)
    BY <1>0, <2>4, MoveStutters DEF Nudge, Goto, locals
  <2>5. CASE DrainSignalled(w)
    BY <1>0, <2>5, MoveStutters DEF DrainSignalled, Goto, locals
  <2>6. CASE DrainExpired(w)
    BY <1>0, <2>6, MoveStutters DEF DrainExpired, Goto, locals
  <2>7. CASE Relock(w)
    BY <1>0, <2>7, MoveStutters DEF Relock, Goto, locals
  <2>8. CASE KeepText(w)
    BY <1>0, <2>8, MoveStutters DEF KeepText, Goto, locals
  <2>9. CASE DiscardText(w)
    <3> DEFINE k == Chunk(w)
    <3>1. Log!Discard(k) /\ k \in 1..MaxChunk
      BY <2>9, DiscardMapped
    <3> HIDE DEF k
    <3>2. \E n \in 1..MaxChunk : Log!Discard(n)
      BY <3>1 DEF Log!Discard
    <3> QED BY <3>2 DEF Log!LogNext
  <2>10. CASE CopyIn(w)
    BY <2>10, CopyInStutters
  <2>11. CASE Grow(w)
    <3> DEFINE k == Chunk(w)
    <3>1. Log!AppendChunk(w, k) /\ k \in 1..MaxChunk
      BY <2>11, AppendMapped
    <3> HIDE DEF k
    <3>2. \E v \in Writers, n \in 1..MaxChunk : Log!AppendChunk(v, n)
      BY <3>1 DEF Log!AppendChunk
    <3> QED BY <3>2 DEF Log!LogNext
  <2>12. CASE UnlockWrite(w)
    BY <1>0, <2>12, MoveStutters DEF UnlockWrite, Goto, locals
  <2>13. CASE SignalData(w)
    BY <2>13, SignalStutters
  <2> QED BY <1>2, <2>1, <2>2, <2>3, <2>4, <2>5, <2>6, <2>7, <2>8, <2>9,
             <2>10, <2>11, <2>12, <2>13 DEF WriterStep
<1>3. ASSUME NEW r \in Readers, ReadCall(r) \/ ReaderStep(r)
      PROVE  Stutter \/ Log!LogNext
  <2> r \in Threads /\ r \notin Writers
    BY BufferAssumption DEF Threads
  <2>1. CASE ReadCall(r)
    BY <1>0, <2>1, MoveStutters DEF ReadCall, Goto, locals
  <2>2. CASE DataSignalled(r)
    BY <1>0, <2>2, MoveStutters DEF DataSignalled, locals
  <2>3. CASE WaitExpired(r)
    BY <1>0, <2>3, MoveStutters DEF WaitExpired, Goto, locals
  <2>4. CASE LockForRead(r)
    BY <1>0, <2>4, MoveStutters DEF LockForRead, Goto, locals
  <2>5. CASE CopyOut(r)
    BY <1>0, <2>5, MoveStutters DEF CopyOut, Goto
  <2>6. CASE MallocFails(r)
    BY <1>0, <2>6, MoveStutters DEF MallocFails, Goto, locals
  <2>7. CASE ResetLength(r)
    BY <2>7, TakeMapped DEF Log!LogNext
  <2>8. CASE UnlockRead(r)
    BY <1>0, <2>8, MoveStutters DEF UnlockRead, Goto
  <2>9. CASE SignalEmpty(r)
    BY <1>0, <2>9, MoveStutters DEF SignalEmpty, Goto
  <2> QED BY <1>3, <2>1, <2>2, <2>3, <2>4, <2>5, <2>6, <2>7, <2>8, <2>9
          DEF ReaderStep
<1>4. ASSUME NEW t \in Threads, Crash(t) PROVE Stutter \/ Log!LogNext
  BY <1>4, CrashMapped DEF Log!LogNext
<1>5. CASE UNCHANGED vars
  BY <1>5 DEF vars, locals, Stutter, Content, Given, Written, Chunk
<1> QED BY <1>1, <1>2, <1>3, <1>4, <1>5 DEF Next

\* While no wait for the mutex lasts 10 seconds, the protocol of WriteData
\* and ReadData, crashes and failing allocations included, implements the
\* bounded log the opening comment of win32trace.cpp describes.
THEOREM BufferImplementsLog ==
  ASSUME ~MutexMayTimeOut PROVE Spec => LogImplemented
<1>1. BufferInv /\ [Next]_vars => [Log!LogNext]_(Log!logVars)
  BY LogStepMapped
<1> QED
  BY LogInitMapped, BufferAlways, <1>1, PTL
  DEF Spec, LogImplemented, Log!LogSpec

(***************************************************************************)
(* The bounded log, for any capacity and any writers: c is in the log, s   *)
(* was taken from it, and n says how far the writers are.                  *)
(***************************************************************************)
Ordered(s) == \A i, j \in DOMAIN s :
                 i < j /\ s[i][1] = s[j][1] => s[i][2] < s[j][2]

\* The numbers of the units seen have been used up.
Below(s, n) == \A i \in DOMAIN s : s[i][2] =< n[s[i][1]]

LogOK(c, s, n) == /\ c \in Seq(Unit) /\ s \in Seq(Unit) /\ n \in [Writers -> 0..MaxUnits]
                  /\ Len(c) =< Capacity
                  /\ Ordered(s \o c) /\ Below(s \o c, n)

\* The constants of the buffer are as the log needs them.
LEMMA LogConstants == Log!LogAssumption
BY BufferAssumption, CapacityNat DEF Log!LogAssumption

LEMMA PrefixOrdered ==
  ASSUME NEW S, NEW s \in Seq(S), NEW t \in Seq(S), NEW n,
         Ordered(s \o t), Below(s \o t, n)
  PROVE  Ordered(s) /\ Below(s, n)
<1>1. /\ Len(s) \in Nat /\ DOMAIN s = 1..Len(s)
      /\ Len(t) \in Nat
  OBVIOUS
<1>2. /\ s \o t \in Seq(S) /\ Len(s \o t) = Len(s) + Len(t)
      /\ \A i \in 1..Len(s) + Len(t) :
            (s \o t)[i] = IF i =< Len(s) THEN s[i] ELSE t[i - Len(s)]
  BY ConcatProperties
<1>3. \A i \in DOMAIN s : i \in DOMAIN (s \o t) /\ (s \o t)[i] = s[i]
  BY <1>1, <1>2
<1> QED BY <1>3 DEF Ordered, Below

LEMMA AppendOrdered ==
  ASSUME NEW next \in [Writers -> 0..MaxUnits], NEW s \in Seq(Unit), NEW w \in Writers,
         NEW k \in Nat, next[w] + k =< MaxUnits, Ordered(s), Below(s, next)
  PROVE  /\ Log!UnitsOf(w, next[w], k) \in Seq(Unit)
         /\ Ordered(s \o Log!UnitsOf(w, next[w], k))
         /\ Below(s \o Log!UnitsOf(w, next[w], k), [next EXCEPT ![w] = @ + k])
<1> DEFINE u == Log!UnitsOf(w, next[w], k)
           n == [next EXCEPT ![w] = @ + k]
<1>1. /\ next \in [Writers -> Nat] /\ k \in Nat /\ MaxUnits \in Nat
  BY BufferAssumption
<1>2. /\ Len(u) = k /\ u \in Seq(Unit)
      /\ \A i \in 1..k : u[i] = <<w, next[w] + i>>
  <2>1. \A i \in 1..k : <<w, next[w] + i>> \in Unit
    BY <1>1 DEF Unit
  <2> QED BY <1>1, <2>1 DEF Log!UnitsOf
<1> HIDE DEF u
<1>3. PICK m \in Nat : /\ Len(s) = m /\ DOMAIN s = 1..m
                      /\ \A i \in 1..m : s[i] \in Unit
  BY ElementOfSeq
<1> DEFINE v == s \o u
<1>4. /\ DOMAIN v = 1..m + k
      /\ \A i \in 1..m : v[i] = s[i]
      /\ \A i \in m + 1 .. m + k : v[i] = <<w, next[w] + (i - m)>>
  <2>1. /\ s \o u \in Seq(Unit) /\ Len(s \o u) = m + k
        /\ \A i \in 1..m + k :
              (s \o u)[i] = IF i =< m THEN s[i] ELSE u[i - m]
    BY <1>2, <1>3, ConcatProperties
  <2>2. \A i \in m + 1 .. m + k : i - m \in 1..k
    BY <1>1, <1>3
  <2>3. \A i \in 1..m : v[i] = s[i]
    BY <1>1, <1>3, <2>1
  <2>4. \A i \in m + 1 .. m + k : v[i] = u[i - m]
    BY <1>1, <1>3, <2>1
  <2>5. \A i \in m + 1 .. m + k : v[i] = <<w, next[w] + (i - m)>>
    BY <1>2, <2>2, <2>4
  <2>6. DOMAIN v = 1..m + k
    BY <1>1, <1>3, <2>1
  <2> QED BY <2>3, <2>5, <2>6
<1> HIDE DEF v
<1>5. \A i \in 1..m : s[i][2] \in Nat /\ s[i][1] \in Writers
                           /\ s[i][2] =< next[s[i][1]]
  <2>1. \A i \in 1..m : s[i][1] \in Writers /\ s[i][2] \in 1..MaxUnits
    BY <1>3 DEF Unit
  <2>2. \A i \in 1..m : s[i][2] \in Nat
    BY <1>1, <2>1
  <2>3. \A i \in 1..m : s[i][2] =< next[s[i][1]]
    BY <1>3 DEF Below
  <2> QED BY <2>1, <2>2, <2>3
<1>6. Ordered(v)
  <2> SUFFICES ASSUME NEW i \in 1..m + k, NEW j \in 1..m + k, i < j,
                      v[i][1] = v[j][1]
               PROVE  v[i][2] < v[j][2]
    BY <1>4 DEF Ordered
  <2>1. CASE j =< m
    <3>1. i \in 1..m /\ j \in 1..m /\ v[i] = s[i] /\ v[j] = s[j] /\ DOMAIN s = 1..m
      BY <1>1, <1>3, <1>4, <2>1
    <3> QED BY <3>1 DEF Ordered
  <2>2. CASE i =< m /\ j > m
    <3>1. v[j] = <<w, next[w] + (j - m)>> /\ v[i] = s[i]
      BY <1>1, <1>3, <1>4, <2>2
    <3>2. s[i][2] =< next[w] /\ s[i][2] \in Nat
      BY <1>5, <2>2, <3>1
    <3> QED BY <1>1, <1>3, <2>2, <3>1, <3>2
  <2>3. CASE i > m
    <3>0. i \in m + 1 .. m + k /\ j \in m + 1 .. m + k
      BY <1>1, <1>3, <2>3
    <3>1. /\ v[j] = <<w, next[w] + (j - m)>>
          /\ v[i] = <<w, next[w] + (i - m)>>
      BY <1>4, <3>0
    <3> QED BY <1>1, <1>3, <2>3, <3>1
  <2> QED BY <1>1, <1>3, <2>1, <2>2, <2>3
<1>7. Below(v, n)
  <2> SUFFICES ASSUME NEW i \in 1..m + k
               PROVE  v[i][2] =< n[v[i][1]]
    BY <1>4 DEF Below
  <2>1. CASE i =< m
    BY <1>1, <1>3, <1>4, <1>5, <2>1
  <2>2. CASE i > m
    <3>1. v[i] = <<w, next[w] + (i - m)>> /\ i - m =< k
      BY <1>1, <1>3, <1>4, <2>2
    <3> QED BY <1>1, <1>3, <2>2, <3>1
  <2> QED BY <1>1, <1>3, <2>1, <2>2
<1> QED BY <1>2, <1>6, <1>7 DEF u, v

LEMMA UnitsAssociative ==
  ASSUME NEW a \in Seq(Unit), NEW b \in Seq(Unit), NEW d \in Seq(Unit)
  PROVE  a \o (b \o d) = (a \o b) \o d
BY ConcatAssociative

\* A chunk is appended whole.
LEMMA AppendKeeps ==
  ASSUME NEW c, NEW s, NEW n, LogOK(c, s, n), NEW w \in Writers, NEW k \in Nat,
         n[w] + k =< MaxUnits, Len(c) + k =< Capacity
  PROVE  LogOK(c \o Log!UnitsOf(w, n[w], k), s, [n EXCEPT ![w] = @ + k])
<1> DEFINE u == Log!UnitsOf(w, n[w], k)
           m == [n EXCEPT ![w] = @ + k]
<1>1. /\ c \in Seq(Unit) /\ s \in Seq(Unit) /\ n \in [Writers -> 0..MaxUnits]
      /\ Ordered(s \o c) /\ Below(s \o c, n) /\ MaxUnits \in Nat
  BY BufferAssumption DEF LogOK
<1>2. s \o c \in Seq(Unit)
  BY <1>1
<1>3. u \in Seq(Unit) /\ Ordered((s \o c) \o u) /\ Below((s \o c) \o u, m)
  BY <1>1, <1>2, AppendOrdered
<1>4. Len(u) = k
  BY DEF Log!UnitsOf
<1>5. m \in [Writers -> 0..MaxUnits]
  BY <1>1
<1> HIDE DEF u, m
<1>6. s \o (c \o u) = (s \o c) \o u
  <2>1. s \in Seq(Unit) /\ c \in Seq(Unit) /\ u \in Seq(Unit)
    BY <1>1, <1>3
  <2> QED BY <2>1, UnitsAssociative
<1>7. c \o u \in Seq(Unit) /\ Len(c \o u) = Len(c) + k
  BY <1>1, <1>3, <1>4, ConcatProperties
<1> QED BY <1>1, <1>3, <1>5, <1>6, <1>7 DEF LogOK, u, m

\* The log is thrown away, or a reader takes it.
LEMMA EmptyKeeps ==
  ASSUME NEW c, NEW s, NEW n, LogOK(c, s, n)
  PROVE  LogOK(<< >>, s, n) /\ LogOK(<< >>, s \o c, n)
<1>1. /\ c \in Seq(Unit) /\ s \in Seq(Unit) /\ Ordered(s \o c) /\ Below(s \o c, n)
      /\ s \o c \in Seq(Unit)
  BY DEF LogOK
<1>2. Ordered(s) /\ Below(s, n)
  BY <1>1, PrefixOrdered
<1>3. s \o << >> = s /\ (s \o c) \o << >> = s \o c
  BY <1>1, ConcatEmptySeq
<1>4. << >> \in Seq(Unit) /\ Len(<< >>) = 0 /\ 0 =< Capacity
  BY LogConstants DEF Log!LogAssumption
<1> QED BY <1>1, <1>2, <1>3, <1>4 DEF LogOK

\* The rest of a writer's text is given up.
LEMMA AbandonKeeps ==
  ASSUME NEW c, NEW s, NEW n, LogOK(c, s, n), NEW w \in Writers, NEW k \in Nat,
         n[w] + k =< MaxUnits
  PROVE  LogOK(c, s, [n EXCEPT ![w] = @ + k])
<1> DEFINE m == [n EXCEPT ![w] = @ + k]
           v == s \o c
<1>1. n \in [Writers -> 0..MaxUnits] /\ MaxUnits \in Nat /\ v \in Seq(Unit) /\ Below(v, n)
  BY BufferAssumption DEF LogOK
<1>2. m \in [Writers -> 0..MaxUnits] /\ \A x \in Writers : n[x] =< m[x]
  BY <1>1
<1> HIDE DEF m, v
<1>3. \A i \in DOMAIN v : v[i][1] \in Writers /\ v[i][2] \in Nat
  BY <1>1, ElementOfSeq DEF Unit
<1>4. Below(v, m)
  BY <1>1, <1>2, <1>3 DEF Below
<1> QED BY <1>2, <1>4 DEF LogOK, m, v

\* A log that throws away everything when it is full still shows each reader
\* the text of a writer in order, and nothing twice.
THEOREM LogAlwaysInOrder == Log!LogSpec => [](Log!LogTypeOK /\ Log!LogFits /\ Log!LogInOrder)
<1> DEFINE LogInv == LogOK(Content, taken, Given)
<1>1. Log!LogInit => LogInv
  <2> SUFFICES ASSUME Content = << >>, taken = << >>, Given = [w \in Writers |-> 0] PROVE LogInv
    BY DEF Log!LogInit, Content, Given
  <2>1. << >> \in Seq(Unit) /\ Len(<< >>) = 0 /\ << >> \o << >> = << >>
    OBVIOUS
  <2>2. [w \in Writers |-> 0] \in [Writers -> 0..MaxUnits] /\ 0 =< Capacity
    BY LogConstants DEF Log!LogAssumption
  <2>3. Ordered(<< >>) /\ Below(<< >>, [w \in Writers |-> 0])
    BY DEF Ordered, Below
  <2> QED BY <2>1, <2>2, <2>3 DEF LogOK
<1>2. LogInv /\ [Log!LogNext]_(Log!logVars) => LogInv'
  <2> SUFFICES ASSUME LogInv, [Log!LogNext]_(Log!logVars) PROVE LogInv'
    OBVIOUS
  <2> HIDE DEF LogInv
  <2>0. LogOK(Content, taken, Given)
    BY DEF LogInv
  <2>1. ASSUME NEW w \in Writers, NEW k \in 1..MaxChunk, Log!AppendChunk(w, k) PROVE LogInv'
    <3>1. /\ Given[w] + k =< MaxUnits /\ Len(Content) + k =< Capacity /\ taken' = taken
          /\ Content' = Content \o Log!UnitsOf(w, Given[w], k)
          /\ Given' = [Given EXCEPT ![w] = @ + k]
      BY <2>1 DEF Log!AppendChunk, Content, Given
    <3>2. k \in Nat
      BY BufferAssumption
    <3> QED BY <2>0, <3>1, <3>2, AppendKeeps DEF LogInv
  <2>2. ASSUME NEW k \in 1..MaxChunk, Log!Discard(k) PROVE LogInv'
    <3>1. Content' = << >> /\ taken' = taken /\ Given' = Given
      BY <2>2 DEF Log!Discard, Content, Given
    <3> QED BY <2>0, <3>1, EmptyKeeps DEF LogInv
  <2>3. CASE Log!Take
    <3>1. Content' = << >> /\ taken' = taken \o Content /\ Given' = Given
      BY <2>3 DEF Log!Take, Content, Given
    <3> QED BY <2>0, <3>1, EmptyKeeps DEF LogInv
  <2>4. ASSUME NEW w \in Writers, Log!Abandon(w) PROVE LogInv'
    <3>1. PICK n \in 1..MaxUnits : /\ Given[w] + n =< MaxUnits
                                   /\ Given' = [Given EXCEPT ![w] = @ + n]
      BY <2>4 DEF Log!Abandon, Given
    <3>2. Content' = Content /\ taken' = taken
      BY <2>4 DEF Log!Abandon, Content
    <3>3. n \in Nat
      BY BufferAssumption
    <3> QED BY <2>0, <3>1, <3>2, <3>3, AbandonKeeps DEF LogInv
  <2>5. CASE UNCHANGED Log!logVars
    <3>1. Content' = Content /\ taken' = taken /\ Given' = Given
      BY <2>5 DEF Log!logVars, Content, Given
    <3> QED BY <2>0, <3>1 DEF LogInv
  <2> QED BY <2>1, <2>2, <2>3, <2>4, <2>5 DEF Log!LogNext
<1>3. LogInv => Log!LogTypeOK /\ Log!LogFits /\ Log!LogInOrder
  BY DEF LogOK, Ordered, Log!LogTypeOK, Log!LogFits, Log!LogInOrder, Log!Unit, Unit, Content, Given
<1> HIDE DEF LogInv
<1> QED BY <1>1, <1>2, <1>3, PTL DEF Log!LogSpec

\* The units all readers together have been given, followed by those still in
\* the section, are in the order each writer wrote them and never repeat.
THEOREM NothingSeenTwice ==
  ASSUME ~MutexMayTimeOut PROVE Spec => []SeenInOrder
<1>1. Log!LogInOrder => SeenInOrder
  BY DEF SeenInOrder
<1> QED BY BufferImplementsLog, LogAlwaysInOrder, <1>1, PTL DEF LogImplemented
=============================================================================
