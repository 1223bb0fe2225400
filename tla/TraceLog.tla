------------------------------ MODULE TraceLog ------------------------------
(***************************************************************************)
(* What win32trace promises its users (the comment that opens              *)
(* win32/src/win32trace.cpp), without mutex, events or shared memory: a    *)
(* bounded log.  A write appends one chunk whole; when the chunk does not  *)
(* fit, the entire log is thrown away first; a read takes the entire log.  *)
(* Text is a sequence of units <<w, i>>: the i-th unit writer w produced.  *)
(***************************************************************************)
EXTENDS Integers, Sequences

CONSTANTS Writers,     \* threads that write, in any process
          Capacity,    \* room for text in the buffer
          MaxChunk,    \* most units one append adds
          MaxUnits     \* bound: units a writer ever produces

\* What an instance has to give its constants.
LogAssumption == /\ Capacity \in Nat
                 /\ MaxChunk \in 1..Capacity
                 /\ MaxUnits \in Nat

VARIABLES content,     \* text written and not yet read
          taken,       \* all text readers took, in the order they took it
          next         \* next[w]: units of w that are written or given up

logVars == <<content, taken, next>>

Unit == Writers \X (1..MaxUnits)

LogTypeOK == /\ content \in Seq(Unit)
             /\ taken \in Seq(Unit)
             /\ next \in [Writers -> 0..MaxUnits]

LogInit == /\ content = << >>
           /\ taken = << >>
           /\ next = [w \in Writers |-> 0]

\* The next k units of writer w, counted after the first n.
UnitsOf(w, n, k) == [i \in 1..k |-> <<w, n + i>>]

\* A chunk that fits is appended whole.
AppendChunk(w, k) == /\ next[w] + k =< MaxUnits
                     /\ Len(content) + k =< Capacity
                     /\ content' = content \o UnitsOf(w, next[w], k)
                     /\ next' = [next EXCEPT ![w] = @ + k]
                     /\ UNCHANGED taken

\* A chunk that does not fit empties the log first.
Discard(k) == /\ Len(content) + k > Capacity
              /\ content' = << >>
              /\ UNCHANGED <<taken, next>>

\* A read takes everything.
Take == /\ taken' = taken \o content
        /\ content' = << >>
        /\ UNCHANGED next

\* The process of writer w ends: the rest of its text is never written.
Abandon(w) == /\ \E n \in 1..MaxUnits : /\ next[w] + n =< MaxUnits
                                        /\ next' = [next EXCEPT ![w] = @ + n]
              /\ UNCHANGED <<content, taken>>

LogNext == \/ \E w \in Writers, k \in 1..MaxChunk : AppendChunk(w, k)
           \/ \E k \in 1..MaxChunk : Discard(k)
           \/ Take
           \/ \E w \in Writers : Abandon(w)

LogSpec == LogInit /\ [][LogNext]_logVars

(***************************************************************************)
(* Properties.                                                             *)
(***************************************************************************)

\* The log never holds more text than the buffer has room for.
LogFits == Len(content) =< Capacity

\* Whatever was thrown away, the text of one writer is read in the order it
\* was written and no unit is seen twice, by one reader or by two.
LogInOrder ==
  LET seen == taken \o content
  IN \A i, j \in DOMAIN seen :
        i < j /\ seen[i][1] = seen[j][1] => seen[i][2] < seen[j][2]
=============================================================================
