---------------------------- MODULE TraceBuffer -----------------------------
(***************************************************************************)
(* The shared buffer of win32/src/win32trace.cpp: threads of any number of *)
(* processes call WriteData and ReadData on one memory mapped section      *)
(* (a length word and the text after it) under a named mutex, with two     *)
(* auto-reset events, hEvent "there is text" and hEventEmpty "it was       *)
(* read".  One action is one system call or one access to the section; the *)
(* GIL is released through all of them, so any two threads interleave.     *)
(* Text is measured in units, a unit being any fixed number of bytes.      *)
(***************************************************************************)
EXTENDS Integers, Sequences

CONSTANTS Writers,          \* threads that call write
          Readers,          \* threads that call read or blockingread
          BufferSize,       \* BUFFER_SIZE, the length word included
          HeaderSize,       \* sizeof(unsigned long)
          WordSpan,         \* 2^32: unsigned long arithmetic wraps here
          MaxUnits,         \* bound: units any writer ever writes
          Budget,           \* bound: Budget[w], the units of writer w
          None,             \* nobody owns the mutex
          Blank,            \* a cell of a fresh section
          MutexMayTimeOut,  \* a mutex wait may last its whole 10 seconds
          MallocMayFail,    \* malloc in ReadData may return NULL
          MayCrash          \* a process may end between any two steps

Threads == Writers \cup Readers
Capacity == BufferSize - HeaderSize
MaxChunk == BufferSize \div 2

ASSUME BufferAssumption ==
  /\ Writers \cap Readers = {}
  /\ None \notin Threads
  /\ BufferSize \in Nat /\ HeaderSize \in Nat \ {0}
  /\ MaxChunk \in 1..Capacity
  /\ WordSpan \in Nat /\ WordSpan >= 2 * BufferSize
  /\ MaxUnits \in Nat /\ Budget \in [Writers -> 0..MaxUnits]
  /\ Blank \notin Writers \X (1..MaxUnits)
  /\ MutexMayTimeOut \in BOOLEAN
  /\ MallocMayFail \in BOOLEAN
  /\ MayCrash \in BOOLEAN

VARIABLES pc,          \* where each thread is; "idle": outside the module
          owner,       \* owner of hMutex, or None
          dataEvent,   \* hEvent is set
          emptyEvent,  \* hEventEmpty is set
          len,         \* the length word of the section
          mem,         \* the cells after it
          rem,         \* rem[w]: len in WriteData, units still to write
          sent,        \* sent[w]: data_this in WriteData, units written
          base,        \* base[w]: the *pLen that memcpy was given
          result,      \* result[r]: the block ReadData allocated
          taken        \* history: the text of all reads, in order

locals == <<rem, sent, base, result>>
vars == <<pc, owner, dataEvent, emptyEvent, len, mem, locals, taken>>

Unit == Writers \X (1..MaxUnits)
WriterPc == {"idle", "lock", "room", "nudge", "drain", "relock", "fit",
             "copy", "grow", "unlock", "signal"}
ReaderPc == {"idle", "await", "awaitTimed", "lock", "fetch", "reset",
             "unlock", "signal"}

Init == /\ pc = [t \in Threads |-> "idle"]
        /\ owner = None
        /\ dataEvent = FALSE
        /\ emptyEvent = FALSE
        /\ len = 0
        /\ mem = [i \in 1..Capacity |-> Blank]
        /\ rem = [w \in Writers |-> 0]
        /\ sent = [w \in Writers |-> 0]
        /\ base = [w \in Writers |-> 0]
        /\ result = [r \in Readers |-> << >>]
        /\ taken = << >>

Goto(t, from, to) == pc[t] = from /\ pc' = [pc EXCEPT ![t] = to]

\* GetMyMutex: only WAIT_FAILED is a failure.  A wait of 10 seconds that ends
\* with the mutex still held returns TRUE like one that took it.
GetMyMutex(t) == \/ owner = None /\ owner' = t
                 \/ MutexMayTimeOut /\ owner # None /\ UNCHANGED owner

\* ReleaseMyMutex: a thread that does not own the mutex leaves it alone.
ReleaseMyMutex(t) == owner' = IF owner = t THEN None ELSE owner

\* len_this, the part of the text this turn of the loop writes.
Chunk(w) == IF rem[w] < MaxChunk THEN rem[w] ELSE MaxChunk

\* sizeLeft, an unsigned long: a length beyond the buffer wraps it around.
SizeLeft == IF len =< Capacity THEN Capacity - len
                               ELSE WordSpan - (len - Capacity)

(***************************************************************************)
(* WriteData                                                               *)
(***************************************************************************)
WriteCall(w) ==
  /\ Goto(w, "idle", "lock")
  /\ \E n \in 1..MaxUnits : /\ sent[w] + n =< Budget[w]
                            /\ rem' = [rem EXCEPT ![w] = n]
  /\ UNCHANGED <<owner, dataEvent, emptyEvent, len, mem, sent, base, result,
                 taken>>

LockForWrite(w) ==
  /\ Goto(w, "lock", "room")
  /\ GetMyMutex(w)
  /\ UNCHANGED <<dataEvent, emptyEvent, len, mem, locals, taken>>

RoomEnough(w) ==
  /\ Goto(w, "room", "fit")
  /\ SizeLeft >= Chunk(w) * 2
  /\ UNCHANGED <<owner, dataEvent, emptyEvent, len, mem, locals, taken>>

\* Mutant of RoomShort: waits for the reader with the mutex in hand.
RoomShortHolding(w) ==
  /\ Goto(w, "room", "nudge")
  /\ SizeLeft < Chunk(w) * 2
  /\ UNCHANGED <<owner, dataEvent, emptyEvent, len, mem, locals, taken>>

RoomShort(w) ==
  /\ Goto(w, "room", "nudge")
  /\ SizeLeft < Chunk(w) * 2
  /\ ReleaseMyMutex(w)
  /\ UNCHANGED <<dataEvent, emptyEvent, len, mem, locals, taken>>

Nudge(w) ==
  /\ Goto(w, "nudge", "drain")
  /\ dataEvent' = TRUE
  /\ UNCHANGED <<owner, emptyEvent, len, mem, locals, taken>>

DrainSignalled(w) ==
  /\ Goto(w, "drain", "relock")
  /\ emptyEvent
  /\ emptyEvent' = FALSE
  /\ UNCHANGED <<owner, dataEvent, len, mem, locals, taken>>

DrainExpired(w) ==
  /\ Goto(w, "drain", "relock")
  /\ ~emptyEvent
  /\ UNCHANGED <<owner, dataEvent, emptyEvent, len, mem, locals, taken>>

\* Mutant of Relock: goes on without the mutex it gave up.
RelockForgotten(w) ==
  /\ Goto(w, "relock", "fit")
  /\ UNCHANGED <<owner, dataEvent, emptyEvent, len, mem, locals, taken>>

Relock(w) ==
  /\ Goto(w, "relock", "fit")
  /\ GetMyMutex(w)
  /\ UNCHANGED <<dataEvent, emptyEvent, len, mem, locals, taken>>

KeepText(w) ==
  /\ Goto(w, "fit", "copy")
  /\ SizeLeft >= Chunk(w)
  /\ UNCHANGED <<owner, dataEvent, emptyEvent, len, mem, locals, taken>>

DiscardText(w) ==
  /\ Goto(w, "fit", "copy")
  /\ SizeLeft < Chunk(w)
  /\ len' = 0
  /\ UNCHANGED <<owner, dataEvent, emptyEvent, mem, locals, taken>>

CopyIn(w) ==
  /\ Goto(w, "copy", "grow")
  /\ mem' = [i \in 1..Capacity |->
               IF i \in len + 1 .. len + Chunk(w)
               THEN <<w, sent[w] + (i - len)>> ELSE mem[i]]
  /\ base' = [base EXCEPT ![w] = len]
  /\ UNCHANGED <<owner, dataEvent, emptyEvent, len, rem, sent, result, taken>>

\* Mutant of Grow: adds the size of a full chunk for a short one.
GrowFull(w) ==
  /\ Goto(w, "grow", "unlock")
  /\ len' = len + MaxChunk
  /\ UNCHANGED <<owner, dataEvent, emptyEvent, mem, locals, taken>>

\* *pLen += len_this is a load and a store; the value loaded for memcpy may
\* still be in its register or be loaded again.
Grow(w) ==
  /\ Goto(w, "grow", "unlock")
  /\ \E old \in {base[w], len} : len' = old + Chunk(w)
  /\ UNCHANGED <<owner, dataEvent, emptyEvent, mem, locals, taken>>

UnlockWrite(w) ==
  /\ Goto(w, "unlock", "signal")
  /\ ReleaseMyMutex(w)
  /\ UNCHANGED <<dataEvent, emptyEvent, len, mem, locals, taken>>

\* Mutant of SignalData: does not set hEvent.
SignalDataSilent(w) ==
  /\ Goto(w, "signal", IF rem[w] = Chunk(w) THEN "idle" ELSE "lock")
  /\ sent' = [sent EXCEPT ![w] = @ + Chunk(w)]
  /\ rem' = [rem EXCEPT ![w] = @ - Chunk(w)]
  /\ UNCHANGED <<owner, dataEvent, emptyEvent, len, mem, base, result, taken>>

SignalData(w) ==
  /\ Goto(w, "signal", IF rem[w] = Chunk(w) THEN "idle" ELSE "lock")
  /\ dataEvent' = TRUE
  /\ sent' = [sent EXCEPT ![w] = @ + Chunk(w)]
  /\ rem' = [rem EXCEPT ![w] = @ - Chunk(w)]
  /\ UNCHANGED <<owner, emptyEvent, len, mem, base, result, taken>>

(***************************************************************************)
(* ReadData                                                                *)
(***************************************************************************)

\* read(), and blockingread() without and with a number of milliseconds
ReadCall(r) ==
  /\ \E to \in {"lock", "await", "awaitTimed"} : Goto(r, "idle", to)
  /\ UNCHANGED <<owner, dataEvent, emptyEvent, len, mem, locals, taken>>

DataSignalled(r) ==
  /\ pc[r] \in {"await", "awaitTimed"}
  /\ pc' = [pc EXCEPT ![r] = "lock"]
  /\ dataEvent
  /\ dataEvent' = FALSE
  /\ UNCHANGED <<owner, emptyEvent, len, mem, locals, taken>>

\* Only WAIT_FAILED is a failure: a wait that timed out reads all the same.
WaitExpired(r) ==
  /\ Goto(r, "awaitTimed", "lock")
  /\ ~dataEvent
  /\ UNCHANGED <<owner, dataEvent, emptyEvent, len, mem, locals, taken>>

LockForRead(r) ==
  /\ Goto(r, "lock", "fetch")
  /\ GetMyMutex(r)
  /\ UNCHANGED <<dataEvent, emptyEvent, len, mem, locals, taken>>

\* Mutant of CopyOut: the length is reset before the block counts as read.
CopyOutResetting(r) ==
  /\ Goto(r, "fetch", "reset")
  /\ result' = [result EXCEPT ![r] = [i \in 1..len |-> mem[i]]]
  /\ len' = 0
  /\ UNCHANGED <<owner, dataEvent, emptyEvent, mem, rem, sent, base, taken>>

CopyOut(r) ==
  /\ Goto(r, "fetch", "reset")
  /\ result' = [result EXCEPT ![r] = [i \in 1..len |-> mem[i]]]
  /\ UNCHANGED <<owner, dataEvent, emptyEvent, len, mem, rem, sent, base,
                 taken>>

\* malloc returned NULL: the text stays, a MemoryError is raised at the end.
MallocFails(r) ==
  /\ MallocMayFail
  /\ Goto(r, "fetch", "unlock")
  /\ UNCHANGED <<owner, dataEvent, emptyEvent, len, mem, locals, taken>>

\* Mutant of ResetLength: the text stays in the section.
ResetForgotten(r) ==
  /\ Goto(r, "reset", "unlock")
  /\ taken' = taken \o result[r]
  /\ UNCHANGED <<owner, dataEvent, emptyEvent, len, mem, locals>>

ResetLength(r) ==
  /\ Goto(r, "reset", "unlock")
  /\ len' = 0
  /\ taken' = taken \o result[r]
  /\ UNCHANGED <<owner, dataEvent, emptyEvent, mem, locals>>

\* Mutant of UnlockRead: the mutex is not released.
UnlockReadForgotten(r) ==
  /\ Goto(r, "unlock", "signal")
  /\ UNCHANGED <<owner, dataEvent, emptyEvent, len, mem, locals, taken>>

\* When the release fails the block is freed and the read fails.
UnlockRead(r) ==
  /\ Goto(r, "unlock", "signal")
  /\ ReleaseMyMutex(r)
  /\ result' = IF owner = r THEN result ELSE [result EXCEPT ![r] = << >>]
  /\ UNCHANGED <<dataEvent, emptyEvent, len, mem, rem, sent, base, taken>>

\* The event is set and the text, if any, is returned to the caller.
SignalEmpty(r) ==
  /\ Goto(r, "signal", "idle")
  /\ emptyEvent' = TRUE
  /\ result' = [result EXCEPT ![r] = << >>]
  /\ UNCHANGED <<owner, dataEvent, len, mem, rem, sent, base, taken>>

(***************************************************************************)
(* The end of a process.  The system releases its mutex as abandoned, and  *)
(* the next wait takes it (WAIT_ABANDONED is not WAIT_FAILED).  A thread   *)
(* of a new process takes the place of the old one, with text of its own.  *)
(***************************************************************************)
Crash(t) ==
  /\ MayCrash
  /\ pc[t] # "idle"
  /\ pc' = [pc EXCEPT ![t] = "idle"]
  /\ ReleaseMyMutex(t)
  /\ sent' = [w \in Writers |-> IF w = t THEN sent[w] + rem[w] ELSE sent[w]]
  /\ rem' = [w \in Writers |-> IF w = t THEN 0 ELSE rem[w]]
  /\ result' = [r \in Readers |-> IF r = t THEN << >> ELSE result[r]]
  /\ UNCHANGED <<dataEvent, emptyEvent, len, mem, base, taken>>

WriterStep(w) == \/ LockForWrite(w) \/ RoomEnough(w) \/ RoomShort(w)
                 \/ Nudge(w) \/ DrainSignalled(w) \/ DrainExpired(w)
                 \/ Relock(w) \/ KeepText(w) \/ DiscardText(w) \/ CopyIn(w)
                 \/ Grow(w) \/ UnlockWrite(w) \/ SignalData(w)

ReaderStep(r) == \/ DataSignalled(r) \/ WaitExpired(r) \/ LockForRead(r)
                 \/ CopyOut(r) \/ MallocFails(r) \/ ResetLength(r)
                 \/ UnlockRead(r) \/ SignalEmpty(r)

Next == \/ \E w \in Writers : WriteCall(w) \/ WriterStep(w)
        \/ \E r \in Readers : ReadCall(r) \/ ReaderStep(r)
        \/ \E t \in Threads : Crash(t)

Spec == Init /\ [][Next]_vars

\* Every thread inside the module is scheduled, and the system grants a mutex
\* in the order of the waits, so that none waits for it forever.
FairSpec == /\ Spec
            /\ \A w \in Writers : /\ WF_vars(WriterStep(w))
                                  /\ SF_vars(LockForWrite(w))
                                  /\ SF_vars(Relock(w))
            /\ \A r \in Readers : /\ WF_vars(ReaderStep(r))
                                  /\ SF_vars(LockForRead(r))

\* A collector (win32traceutil.RunAsCollector) reads again and again.
RunAsCollector(r) == WF_vars(ReadCall(r))

(***************************************************************************)
(* Properties                                                              *)
(***************************************************************************)

TypeOK ==
  /\ pc \in [Threads -> WriterPc \cup ReaderPc]
  /\ \A w \in Writers : pc[w] \in WriterPc
  /\ \A r \in Readers : pc[r] \in ReaderPc
  /\ owner \in Threads \cup {None}
  /\ dataEvent \in BOOLEAN
  /\ emptyEvent \in BOOLEAN
  /\ len \in Nat
  /\ mem \in [1..Capacity -> Unit \cup {Blank}]
  /\ rem \in [Writers -> 0..MaxUnits]
  /\ sent \in [Writers -> 0..MaxUnits]
  /\ base \in [Writers -> Nat]
  /\ result \in [Readers -> Seq(Unit)]
  /\ taken \in Seq(Unit)

\* The threads between a successful GetMyMutex and the ReleaseMyMutex.
Inside == {w \in Writers : pc[w] \in {"room", "fit", "copy", "grow", "unlock"}}
          \cup {r \in Readers : pc[r] \in {"fetch", "reset", "unlock"}}

\* "A single mutex protects the entire structure": whoever is between
\* GetMyMutex and ReleaseMyMutex is there alone, and owns the mutex.
MutualExclusion == \A t \in Inside : owner = t

\* The mutex is never left behind: its owner is on its way to releasing it,
\* whatever waits timed out and whatever processes ended.
OwnerWillRelease == owner # None => owner \in Inside

\* memcpy stays inside the section and the length never exceeds it, so that
\* sizeLeft never wraps.
InBounds == /\ len =< Capacity
            /\ \A w \in Writers :
                  pc[w] = "copy" => len + Chunk(w) =< Capacity

\* No lost wakeup: while there is text, hEvent is set, or a writer is about
\* to set it, or a reader that no longer waits is about to read.
TextAnnounced ==
  len > 0 => \/ dataEvent
             \/ \E w \in Writers : pc[w] \in {"unlock", "signal"}
             \/ \E r \in Readers : pc[r] \in {"lock", "fetch", "reset"}

\* The system implements the bounded log.  A chunk is in the log from the
\* store of the new length on.
Written(w) == sent[w] + IF pc[w] \in {"unlock", "signal"} THEN Chunk(w) ELSE 0

Log == INSTANCE TraceLog WITH content <- [i \in 1..len |-> mem[i]],
                              next <- [w \in Writers |-> Written(w)]

LogImplemented == Log!LogSpec

\* Nothing is seen twice or out of order, by all readers together.
SeenInOrder == Log!LogInOrder

\* Every write returns: each wait of a writer ends.
WritesReturn == \A w \in Writers : pc[w] # "idle" ~> pc[w] = "idle"

\* A reader that waits without a timeout is woken when there is text.
BlockedReaderWakes ==
  \A r \in Readers : (pc[r] = "await" /\ len > 0) ~> (pc[r] # "await" \/ len = 0)

\* With a collector, text does not stay in the buffer.
TextLeaves == (\A r \in Readers : RunAsCollector(r)) => (len > 0 ~> len = 0)
=============================================================================
