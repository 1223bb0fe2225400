--------------------------- MODULE ComThreadsProofs ---------------------------
(***************************************************************************)
(* Proofs about the two locks, the lock count and the apartments of COM,   *)
(* for any number of threads and any bounds.                               *)
(***************************************************************************)
EXTENDS ComThreads, SequenceTheorems, FiniteSetTheorems, TLAPS

(***************************************************************************)
(* What a thread still has to do, as a walk through the locks: it holds    *)
(* the interpreter lock g times (0 or 1) and is d deep in the framework    *)
(* lock, and holds nothing at the end.                                     *)
(***************************************************************************)
GilAfter(x, g) == IF x = "restore" THEN 1 ELSE IF x \in {"save", "leave"} THEN 0 ELSE g
DepthAfter(x, d) == IF x = "lock" THEN d + 1 ELSE IF x = "unlock" THEN d - 1 ELSE d

\* ole32 or a logger is waited for after step k.
Later(s, k) == \E j \in k + 1 .. Len(s) : s[j] \in {"undone", "left", "failed"}
Pending(s) == \E j \in 1 .. Len(s) : s[j] \in {"undone", "left", "failed"}

\* CoUninitialize is always in the framework lock and that after the interpreter lock was saved.
Links(x, y) == (y = "uninit" => x = "lock") /\ (y = "lock" => x = "save") /\ y # "save"

\* When a step x can be taken, with the steps b left.
Fits(x, g, d, b) == /\ x = "unlock" => d > 0
                    /\ x \in {"save", "leave", "body"} => g = 1
                    /\ x = "restore" => g = 0
                    /\ x \in {"python", "restore", "body"} /\ d > 0 => b

Walks(s, g, d, p, q) ==
  /\ p[1] = g /\ q[1] = d /\ p[Len(s) + 1] = 0 /\ q[Len(s) + 1] = 0
  /\ \A k \in 1 .. Len(s) : /\ Fits(s[k], p[k], q[k], Later(s, k))
                            /\ p[k + 1] = GilAfter(s[k], p[k])
                            /\ q[k + 1] = DepthAfter(s[k], q[k])
                            /\ k < Len(s) => Links(s[k], s[k + 1])

Path(s, g, d) ==
  \E p \in [1 .. Len(s) + 1 -> {0, 1}], q \in [1 .. Len(s) + 1 -> Nat] : Walks(s, g, d, p, q)

LEMMA ConsFacts ==
  ASSUME NEW x \in Steps, NEW s \in Seq(Steps)
  PROVE  /\ <<x>> \o s \in Seq(Steps) /\ Len(<<x>> \o s) = Len(s) + 1 /\ Len(s) \in Nat
         /\ (<<x>> \o s)[1] = x /\ <<x>> \o s # <<>>
         /\ Head(<<x>> \o s) = x /\ Tail(<<x>> \o s) = s
         /\ \A k \in 1 .. Len(s) : (<<x>> \o s)[k + 1] = s[k]
         /\ \A k \in 2 .. Len(s) + 1 : (<<x>> \o s)[k] = s[k - 1]
  OBVIOUS

LEMMA HeadTail ==
  ASSUME NEW s \in Seq(Steps), s # <<>>
  PROVE  Head(s) \in Steps /\ Tail(s) \in Seq(Steps) /\ s = <<Head(s)>> \o Tail(s) /\ Head(s) = s[1]
  OBVIOUS

\* What is pending after the first step is what is pending in the rest.
LEMMA LaterShift ==
  ASSUME NEW x \in Steps, NEW s \in Seq(Steps)
  PROVE  /\ Later(<<x>> \o s, 1) <=> Pending(s)
         /\ \A k \in 1 .. Len(s) : Later(<<x>> \o s, k + 1) <=> Later(s, k)
         /\ Pending(<<x>> \o s) <=> x \in {"undone", "left", "failed"} \/ Pending(s)
<1> DEFINE v == <<x>> \o s
<1>1. /\ Len(v) = Len(s) + 1 /\ v[1] = x /\ Len(s) \in Nat
      /\ \A k \in 1 .. Len(s) : v[k + 1] = s[k]
      /\ \A k \in 2 .. Len(s) + 1 : v[k] = s[k - 1]
  BY ConsFacts
<1> HIDE DEF v
<1>2. ASSUME NEW k \in 0 .. Len(s)
      PROVE  (\E j \in k + 2 .. Len(v) : v[j] \in {"undone", "left", "failed"})
               <=> (\E j \in k + 1 .. Len(s) : s[j] \in {"undone", "left", "failed"})
  <2>1. ASSUME NEW j \in k + 2 .. Len(v), v[j] \in {"undone", "left", "failed"}
        PROVE  \E i \in k + 1 .. Len(s) : s[i] \in {"undone", "left", "failed"}
    <3>1. j - 1 \in k + 1 .. Len(s) /\ v[j] = s[j - 1]
      BY <1>1
    <3> QED BY <2>1, <3>1
  <2>2. ASSUME NEW j \in k + 1 .. Len(s), s[j] \in {"undone", "left", "failed"}
        PROVE  \E i \in k + 2 .. Len(v) : v[i] \in {"undone", "left", "failed"}
    <3>1. j + 1 \in k + 2 .. Len(v) /\ v[j + 1] = s[j]
      BY <1>1
    <3> QED BY <2>2, <3>1
  <2> QED BY <2>1, <2>2
<1>3. Later(v, 1) <=> Pending(s)
  <2>1. 0 \in 0 .. Len(s) /\ 0 + 2 = 1 + 1 /\ 0 + 1 = 1
    BY <1>1
  <2> QED BY <1>2, <2>1 DEF Later, Pending
<1>4. ASSUME NEW k \in 1 .. Len(s) PROVE Later(v, k + 1) <=> Later(s, k)
  <2>1. k \in 0 .. Len(s) /\ k + 2 = (k + 1) + 1
    BY <1>1
  <2> QED BY <1>2, <2>1 DEF Later
<1>5. Pending(v) <=> x \in {"undone", "left", "failed"} \/ Pending(s)
  <2>1. ASSUME NEW j \in 1 .. Len(v), v[j] \in {"undone", "left", "failed"}
        PROVE  x \in {"undone", "left", "failed"} \/ Pending(s)
    <3>1. CASE j = 1
      BY <1>1, <2>1, <3>1
    <3>2. CASE j # 1
      <4>1. j - 1 \in 1 .. Len(s) /\ v[j] = s[j - 1]
        BY <1>1, <3>2
      <4> QED BY <2>1, <4>1 DEF Pending
    <3> QED BY <3>1, <3>2
  <2>2. ASSUME NEW j \in 1 .. Len(s), s[j] \in {"undone", "left", "failed"} PROVE Pending(v)
    <3>1. j + 1 \in 1 .. Len(v) /\ v[j + 1] = s[j]
      BY <1>1
    <3> QED BY <2>2, <3>1 DEF Pending
  <2>3. x \in {"undone", "left", "failed"} => Pending(v)
    <3>1. 1 \in 1 .. Len(v)
      BY <1>1
    <3> QED BY <1>1, <3>1 DEF Pending
  <2> QED BY <2>1, <2>2, <2>3 DEF Pending
<1> QED BY <1>3, <1>4, <1>5 DEF v

LEMMA PathEmpty ==
  ASSUME NEW g \in {0, 1}, NEW d \in Nat
  PROVE  Path(<<>>, g, d) <=> g = 0 /\ d = 0
<1>1. Len(<<>>) = 0 /\ 1 .. 0 + 1 = {1} /\ 1 .. 0 = {}
  OBVIOUS
<1>2. ASSUME Path(<<>>, g, d) PROVE g = 0 /\ d = 0
  BY <1>1, <1>2 DEF Path, Walks
<1>3. ASSUME g = 0, d = 0 PROVE Path(<<>>, g, d)
  <2> DEFINE p == [k \in 1 .. Len(<<>>) + 1 |-> 0]
  <2>1. p \in [1 .. Len(<<>>) + 1 -> {0, 1}] /\ p \in [1 .. Len(<<>>) + 1 -> Nat]
    OBVIOUS
  <2>2. Walks(<<>>, g, d, p, p)
    BY <1>1, <1>3 DEF Walks
  <2> QED BY <2>1, <2>2 DEF Path
<1> QED BY <1>2, <1>3

\* A step is put before the others.
LEMMA PathCons ==
  ASSUME NEW x \in Steps, NEW s \in Seq(Steps), NEW g \in {0, 1}, NEW d \in Nat,
         Fits(x, g, d, Pending(s)), s # <<>> => Links(x, s[1]),
         Path(s, GilAfter(x, g), DepthAfter(x, d))
  PROVE  Path(<<x>> \o s, g, d)
<1> DEFINE v == <<x>> \o s
           n == Len(s)
<1>1. PICK p \in [1 .. n + 1 -> {0, 1}], q \in [1 .. n + 1 -> Nat] :
         Walks(s, GilAfter(x, g), DepthAfter(x, d), p, q)
  BY DEF Path
<1> DEFINE p2 == [k \in 1 .. n + 2 |-> IF k = 1 THEN g ELSE p[k - 1]]
           q2 == [k \in 1 .. n + 2 |-> IF k = 1 THEN d ELSE q[k - 1]]
<1>2. /\ Len(v) = n + 1 /\ v[1] = x /\ n \in Nat
      /\ \A k \in 1 .. n : v[k + 1] = s[k]
      /\ \A k \in 2 .. n + 1 : v[k] = s[k - 1]
      /\ s # <<>> <=> n > 0
  BY ConsFacts
<1>3. /\ Later(v, 1) <=> Pending(s)
      /\ \A k \in 1 .. n : Later(v, k + 1) <=> Later(s, k)
  BY LaterShift
<1> HIDE DEF v, n
<1>4. ASSUME NEW k \in 2 .. n + 2
      PROVE  k \in 1 .. n + 2 /\ k # 1 /\ k - 1 \in 1 .. n + 1
  BY <1>2
<1>5. /\ p2[1] = g /\ q2[1] = d
      /\ \A k \in 2 .. n + 2 : p2[k] = p[k - 1] /\ q2[k] = q[k - 1]
  <2>1. 1 \in 1 .. n + 2
    BY <1>2
  <2> QED BY <1>4, <2>1
<1>6. p2 \in [1 .. Len(v) + 1 -> {0, 1}] /\ q2 \in [1 .. Len(v) + 1 -> Nat]
  <2>1. Len(v) + 1 = n + 2
    BY <1>2
  <2>2. ASSUME NEW k \in 1 .. n + 2, k # 1 PROVE p[k - 1] \in {0, 1} /\ q[k - 1] \in Nat
    <3>1. k - 1 \in 1 .. n + 1
      BY <1>2, <2>2
    <3> QED BY <3>1
  <2> QED BY <2>1, <2>2
<1> HIDE DEF p2, q2
<1>7. p2[Len(v) + 1] = 0 /\ q2[Len(v) + 1] = 0
  <2>1. Len(v) + 1 = n + 2 /\ n + 2 \in 2 .. n + 2 /\ (n + 2) - 1 = n + 1
    BY <1>2
  <2> QED BY <1>1, <1>5, <2>1 DEF Walks, n
<1>8. ASSUME NEW k \in 1 .. Len(v)
      PROVE  /\ Fits(v[k], p2[k], q2[k], Later(v, k))
             /\ p2[k + 1] = GilAfter(v[k], p2[k])
             /\ q2[k + 1] = DepthAfter(v[k], q2[k])
             /\ k < Len(v) => Links(v[k], v[k + 1])
  <2>1. CASE k = 1
    <3>1. 1 + 1 \in 2 .. n + 2 /\ (1 + 1) - 1 = 1
      BY <1>2
    <3>2. p2[1 + 1] = GilAfter(x, g) /\ q2[1 + 1] = DepthAfter(x, d)
      BY <1>1, <1>5, <3>1 DEF Walks
    <3>3. Fits(v[1], p2[1], q2[1], Later(v, 1))
      BY <1>2, <1>3, <1>5 DEF Fits
    <3>4. 1 < Len(v) => Links(v[1], v[1 + 1])
      <4>1. 1 < Len(v) => s # <<>> /\ v[1 + 1] = s[1]
        BY <1>2
      <4> QED BY <1>2, <4>1
    <3> QED BY <1>2, <1>5, <2>1, <3>2, <3>3, <3>4
  <2>2. CASE k # 1
    <3> DEFINE j == k - 1
    <3>1. j \in 1 .. n /\ j + 1 = k /\ k \in 2 .. n + 2 /\ k + 1 \in 2 .. n + 2 /\ (k + 1) - 1 = k
          /\ k \in 2 .. n + 1
      BY <1>2, <2>2
    <3>2. v[k] = s[j] /\ p2[k] = p[j] /\ q2[k] = q[j] /\ p2[k + 1] = p[j + 1] /\ q2[k + 1] = q[j + 1]
      <4>1. v[k] = s[k - 1] /\ p2[k] = p[k - 1] /\ q2[k] = q[k - 1]
        BY <1>2, <1>5, <3>1
      <4>2. p2[k + 1] = p[(k + 1) - 1] /\ q2[k + 1] = q[(k + 1) - 1]
        BY <1>5, <3>1
      <4> QED BY <3>1, <4>1, <4>2
    <3>3. Later(v, k) <=> Later(s, j)
      BY <1>3, <3>1
    <3>4. k < Len(v) => j < n /\ v[k + 1] = s[j + 1]
      BY <1>2, <3>1
    <3> HIDE DEF j
    <3>5. /\ Fits(s[j], p[j], q[j], Later(s, j))
          /\ p[j + 1] = GilAfter(s[j], p[j])
          /\ q[j + 1] = DepthAfter(s[j], q[j])
          /\ j < n => Links(s[j], s[j + 1])
      BY <1>1, <3>1 DEF Walks, n
    <3> QED BY <3>2, <3>3, <3>4, <3>5 DEF Fits
  <2> QED BY <2>1, <2>2
<1>9. Walks(v, g, d, p2, q2)
  BY <1>5, <1>7, <1>8 DEF Walks
<1> QED BY <1>6, <1>9 DEF Path, v

\* The first step is taken.
LEMMA PathTail ==
  ASSUME NEW x \in Steps, NEW s \in Seq(Steps), NEW g \in {0, 1}, NEW d \in Nat,
         Path(<<x>> \o s, g, d)
  PROVE  /\ Fits(x, g, d, Pending(s)) /\ (s # <<>> => Links(x, s[1]))
         /\ GilAfter(x, g) \in {0, 1} /\ DepthAfter(x, d) \in Nat
         /\ Path(s, GilAfter(x, g), DepthAfter(x, d))
<1> DEFINE v == <<x>> \o s
           n == Len(s)
<1>2. /\ Len(v) = n + 1 /\ v[1] = x /\ n \in Nat
      /\ \A k \in 1 .. n : v[k + 1] = s[k]
      /\ s # <<>> <=> n > 0
  BY ConsFacts
<1>1. PICK p \in [1 .. (n + 1) + 1 -> {0, 1}], q \in [1 .. (n + 1) + 1 -> Nat] :
         Walks(v, g, d, p, q)
  BY <1>2 DEF Path
<1>3. /\ Later(v, 1) <=> Pending(s)
      /\ \A k \in 1 .. n : Later(v, k + 1) <=> Later(s, k)
  BY LaterShift
<1> HIDE DEF v, n
<1>4. /\ p[1] = g /\ q[1] = d /\ p[(n + 1) + 1] = 0 /\ q[(n + 1) + 1] = 0
      /\ \A k \in 1 .. n + 1 : /\ Fits(v[k], p[k], q[k], Later(v, k))
                               /\ p[k + 1] = GilAfter(v[k], p[k])
                               /\ q[k + 1] = DepthAfter(v[k], q[k])
                               /\ k < n + 1 => Links(v[k], v[k + 1])
  BY <1>1, <1>2 DEF Walks
<1>5. 1 \in 1 .. n + 1 /\ 1 + 1 \in 1 .. (n + 1) + 1
  BY <1>2
<1>6. Fits(x, g, d, Pending(s)) /\ p[1 + 1] = GilAfter(x, g) /\ q[1 + 1] = DepthAfter(x, d)
  BY <1>2, <1>3, <1>4, <1>5 DEF Fits
<1>7. s # <<>> => Links(x, s[1])
  <2> SUFFICES ASSUME s # <<>> PROVE Links(x, s[1])
    OBVIOUS
  <2>1. 1 < n + 1 /\ 1 \in 1 .. n
    BY <1>2
  <2> QED BY <1>2, <1>4, <1>5, <2>1
<1>8. GilAfter(x, g) \in {0, 1} /\ DepthAfter(x, d) \in Nat
  BY <1>1, <1>5, <1>6
<1> DEFINE p2 == [k \in 1 .. n + 1 |-> p[k + 1]]
           q2 == [k \in 1 .. n + 1 |-> q[k + 1]]
<1>9. p2 \in [1 .. n + 1 -> {0, 1}] /\ q2 \in [1 .. n + 1 -> Nat]
  <2>1. ASSUME NEW k \in 1 .. n + 1 PROVE k + 1 \in 1 .. (n + 1) + 1
    BY <1>2
  <2> QED BY <1>1, <2>1
<1>10. \A k \in 1 .. n + 1 : p2[k] = p[k + 1] /\ q2[k] = q[k + 1]
  OBVIOUS
<1> HIDE DEF p2, q2
<1>11. n + 1 \in 1 .. n + 1 /\ \A k \in 1 .. n : k \in 1 .. n + 1 /\ k + 1 \in 1 .. n + 1 /\ (k < n => k + 1 \in 1 .. n)
  BY <1>2
<1>12. ASSUME NEW k \in 1 .. n
       PROVE  /\ Fits(s[k], p2[k], q2[k], Later(s, k))
              /\ p2[k + 1] = GilAfter(s[k], p2[k])
              /\ q2[k + 1] = DepthAfter(s[k], q2[k])
              /\ k < n => Links(s[k], s[k + 1])
  <2>1. v[k + 1] = s[k] /\ p2[k] = p[k + 1] /\ q2[k] = q[k + 1]
        /\ p2[k + 1] = p[(k + 1) + 1] /\ q2[k + 1] = q[(k + 1) + 1]
    BY <1>2, <1>10, <1>11
  <2>2. k < n => v[(k + 1) + 1] = s[k + 1]
    BY <1>2, <1>11
  <2>3. Later(v, k + 1) <=> Later(s, k)
    BY <1>3
  <2>4. /\ Fits(v[k + 1], p[k + 1], q[k + 1], Later(v, k + 1))
        /\ p[(k + 1) + 1] = GilAfter(v[k + 1], p[k + 1])
        /\ q[(k + 1) + 1] = DepthAfter(v[k + 1], q[k + 1])
        /\ k + 1 < n + 1 => Links(v[k + 1], v[(k + 1) + 1])
    <3>1. k + 1 \in 1 .. n + 1
      BY <1>2
    <3> QED BY <1>4, <3>1
  <2>5. k < n => Links(s[k], s[k + 1])
    <3> SUFFICES ASSUME k < n PROVE Links(s[k], s[k + 1])
      OBVIOUS
    <3>0. k + 1 < n + 1
      BY <1>2
    <3>1. k + 1 < n + 1 /\ v[(k + 1) + 1] = s[k + 1] /\ v[k + 1] = s[k]
      BY <2>1, <2>2, <3>0
    <3>2. k + 1 < n + 1 => Links(v[k + 1], v[(k + 1) + 1])
      BY <2>4
    <3>3. Links(v[k + 1], v[(k + 1) + 1])
      BY <3>1, <3>2
    <3> QED BY <3>1, <3>3 DEF Links
  <2>6. Fits(s[k], p2[k], q2[k], Later(s, k))
    BY <2>1, <2>3, <2>4 DEF Fits
  <2> QED BY <2>1, <2>4, <2>5, <2>6
<1>13. Walks(s, GilAfter(x, g), DepthAfter(x, d), p2, q2)
  <2>1. 1 \in 1 .. n + 1
    BY <1>2
  <2> QED BY <1>4, <1>6, <1>10, <1>11, <1>12, <2>1 DEF Walks, n
<1>14. Path(s, GilAfter(x, g), DepthAfter(x, d))
  BY <1>9, <1>13 DEF Path, n
<1> QED BY <1>6, <1>7, <1>8, <1>14

(***************************************************************************)
(* The functions, put before what the thread has to do after them.         *)
(***************************************************************************)
Free(s) == s # <<>> => s[1] \notin {"uninit", "lock", "save"}

Quiet == {"addref", "pyinit", "made", "release", "python", "failed", "undone", "left"} \cup Requests

\* A thread does s with the locks g and d.
Does(s, g, d) == s \in Seq(Steps) /\ g \in {0, 1} /\ d \in Nat /\ Path(s, g, d)

LEMMA PutQuiet ==
  ASSUME NEW x \in Quiet, NEW s, NEW g, NEW d, Does(s, g, d), Free(s),
         x = "python" /\ d > 0 => Pending(s)
  PROVE  Does(<<x>> \o s, g, d) /\ Free(<<x>> \o s) /\ (<<x>> \o s)[1] = x
<1>1. x \in Steps /\ s \in Seq(Steps) /\ g \in {0, 1} /\ d \in Nat
  BY DEF Quiet, Steps, Does
<1>2. GilAfter(x, g) = g /\ DepthAfter(x, d) = d /\ Fits(x, g, d, Pending(s))
  BY DEF Quiet, Requests, Modes, GilAfter, DepthAfter, Fits
<1>3. s # <<>> => Links(x, s[1])
  BY DEF Free, Links
<1>4. <<x>> \o s \in Seq(Steps) /\ (<<x>> \o s)[1] = x
  BY <1>1, ConsFacts
<1>5. Path(<<x>> \o s, g, d)
  BY <1>1, <1>2, <1>3, PathCons DEF Does
<1>6. Free(<<x>> \o s)
  BY <1>4 DEF Free, Quiet, Requests, Modes
<1> QED BY <1>1, <1>4, <1>5, <1>6 DEF Does

LEMMA PutBody ==
  ASSUME NEW s, NEW d, Does(s, 1, d), Free(s), d > 0 => Pending(s)
  PROVE  Does(<<"body">> \o s, 1, d) /\ Free(<<"body">> \o s)
<1>1. "body" \in Steps /\ s \in Seq(Steps) /\ d \in Nat
  BY DEF Steps, Does
<1>2. GilAfter("body", 1) = 1 /\ DepthAfter("body", d) = d /\ Fits("body", 1, d, Pending(s))
  BY DEF GilAfter, DepthAfter, Fits
<1>3. s # <<>> => Links("body", s[1])
  BY DEF Free, Links
<1>4. <<"body">> \o s \in Seq(Steps) /\ (<<"body">> \o s)[1] = "body"
  BY <1>1, ConsFacts
<1>5. Path(<<"body">> \o s, 1, d)
  BY <1>1, <1>2, <1>3, PathCons DEF Does
<1> QED BY <1>1, <1>4, <1>5 DEF Does, Free

LEMMA PutLeave ==
  ASSUME NEW s, NEW d, Does(s, 0, d), Free(s)
  PROVE  Does(<<"leave">> \o s, 1, d) /\ Free(<<"leave">> \o s)
<1>1. "leave" \in Steps /\ s \in Seq(Steps) /\ d \in Nat
  BY DEF Steps, Does
<1>2. GilAfter("leave", 1) = 0 /\ DepthAfter("leave", d) = d /\ Fits("leave", 1, d, Pending(s))
  BY DEF GilAfter, DepthAfter, Fits
<1>3. s # <<>> => Links("leave", s[1])
  BY DEF Free, Links
<1>4. <<"leave">> \o s \in Seq(Steps) /\ (<<"leave">> \o s)[1] = "leave"
  BY <1>1, ConsFacts
<1>5. Path(<<"leave">> \o s, 1, d)
  BY <1>1, <1>2, <1>3, PathCons DEF Does
<1> QED BY <1>1, <1>4, <1>5 DEF Does, Free

LEMMA PutRestore ==
  ASSUME NEW s, NEW d, Does(s, 1, d), Free(s), d > 0 => Pending(s)
  PROVE  Does(<<"restore">> \o s, 0, d) /\ Free(<<"restore">> \o s)
<1>1. "restore" \in Steps /\ s \in Seq(Steps) /\ d \in Nat
  BY DEF Steps, Does
<1>2. GilAfter("restore", 0) = 1 /\ DepthAfter("restore", d) = d /\ Fits("restore", 0, d, Pending(s))
  BY DEF GilAfter, DepthAfter, Fits
<1>3. s # <<>> => Links("restore", s[1])
  BY DEF Free, Links
<1>4. <<"restore">> \o s \in Seq(Steps) /\ (<<"restore">> \o s)[1] = "restore"
  BY <1>1, ConsFacts
<1>5. Path(<<"restore">> \o s, 0, d)
  BY <1>1, <1>2, <1>3, PathCons DEF Does
<1> QED BY <1>1, <1>4, <1>5 DEF Does, Free

LEMMA PutSave ==
  ASSUME NEW s, NEW d, Does(s, 0, d), s # <<>> => s[1] \notin {"uninit", "save"}
  PROVE  Does(<<"save">> \o s, 1, d)
<1>1. "save" \in Steps /\ s \in Seq(Steps) /\ d \in Nat
  BY DEF Steps, Does
<1>2. GilAfter("save", 1) = 0 /\ DepthAfter("save", d) = d /\ Fits("save", 1, d, Pending(s))
  BY DEF GilAfter, DepthAfter, Fits
<1>3. s # <<>> => Links("save", s[1])
  BY DEF Links
<1>4. <<"save">> \o s \in Seq(Steps)
  BY <1>1, ConsFacts
<1>5. Path(<<"save">> \o s, 1, d)
  BY <1>1, <1>2, <1>3, PathCons DEF Does
<1> QED BY <1>1, <1>4, <1>5 DEF Does

LEMMA PutUnlock ==
  ASSUME NEW s, NEW g, NEW d, Does(s, g, d), Free(s)
  PROVE  Does(<<"unlock">> \o s, g, d + 1) /\ Free(<<"unlock">> \o s)
<1>1. "unlock" \in Steps /\ s \in Seq(Steps) /\ g \in {0, 1} /\ d \in Nat /\ d + 1 \in Nat
  BY DEF Steps, Does
<1>2. /\ GilAfter("unlock", g) = g /\ DepthAfter("unlock", d + 1) = d
      /\ Fits("unlock", g, d + 1, Pending(s))
  BY <1>1 DEF GilAfter, DepthAfter, Fits
<1>3. s # <<>> => Links("unlock", s[1])
  BY DEF Free, Links
<1>4. <<"unlock">> \o s \in Seq(Steps) /\ (<<"unlock">> \o s)[1] = "unlock"
  BY <1>1, ConsFacts
<1>5. Path(<<"unlock">> \o s, g, d + 1)
  BY <1>1, <1>2, <1>3, PathCons DEF Does
<1> QED BY <1>1, <1>4, <1>5 DEF Does, Free

LEMMA PutUninit ==
  ASSUME NEW s, NEW g, NEW d, Does(s, g, d), Free(s)
  PROVE  Does(<<"uninit">> \o s, g, d) /\ (<<"uninit">> \o s)[1] = "uninit"
<1>1. "uninit" \in Steps /\ s \in Seq(Steps) /\ g \in {0, 1} /\ d \in Nat
  BY DEF Steps, Does
<1>2. GilAfter("uninit", g) = g /\ DepthAfter("uninit", d) = d /\ Fits("uninit", g, d, Pending(s))
  BY DEF GilAfter, DepthAfter, Fits
<1>3. s # <<>> => Links("uninit", s[1])
  BY DEF Free, Links
<1>4. <<"uninit">> \o s \in Seq(Steps) /\ (<<"uninit">> \o s)[1] = "uninit"
  BY <1>1, ConsFacts
<1>5. Path(<<"uninit">> \o s, g, d)
  BY <1>1, <1>2, <1>3, PathCons DEF Does
<1> QED BY <1>1, <1>4, <1>5 DEF Does

LEMMA PutLock ==
  ASSUME NEW s, NEW g, NEW d \in Nat, Does(s, g, d + 1), s # <<>> => s[1] \notin {"lock", "save"}
  PROVE  Does(<<"lock">> \o s, g, d) /\ (<<"lock">> \o s)[1] = "lock"
<1>1. "lock" \in Steps /\ s \in Seq(Steps) /\ g \in {0, 1} /\ d + 1 \in Nat
  BY DEF Steps, Does
<1>2. GilAfter("lock", g) = g /\ DepthAfter("lock", d) = d + 1 /\ Fits("lock", g, d, Pending(s))
  BY DEF GilAfter, DepthAfter, Fits
<1>3. s # <<>> => Links("lock", s[1])
  BY DEF Links
<1>4. <<"lock">> \o s \in Seq(Steps) /\ (<<"lock">> \o s)[1] = "lock"
  BY <1>1, ConsFacts
<1>5. Path(<<"lock">> \o s, g, d)
  BY <1>1, <1>2, <1>3, PathCons DEF Does
<1> QED BY <1>1, <1>4, <1>5 DEF Does

\* A function is put before the rest one step after the other.
LEMMA Unfold1 ==
  ASSUME NEW r \in Seq(Steps), NEW u \in Seq(Steps), NEW x \in Steps
  PROVE  (<<x>> \o u) \o r = <<x>> \o (u \o r)
BY ConcatAssociative

LEMMA Unfold2 ==
  ASSUME NEW r \in Seq(Steps), NEW x \in Steps, NEW y \in Steps
  PROVE  <<x, y>> \o r = <<x>> \o (<<y>> \o r)
<1>1. <<y>> \in Seq(Steps) /\ <<x, y>> \in Seq(Steps) /\ Len(<<x, y>>) = 2
  OBVIOUS
<1>2. <<x, y>> = <<x>> \o <<y>>
  <2> DEFINE v == <<x>> \o <<y>>
             w == <<x, y>>
  <2>1. v \in Seq(Steps) /\ Len(v) = 2 /\ v[1] = x /\ v[2] = y
    BY <1>1, ConsFacts
  <2>2. w \in Seq(Steps) /\ Len(w) = 2 /\ w[1] = x /\ w[2] = y
    OBVIOUS
  <2> HIDE DEF v, w
  <2>3. \A k \in 1 .. Len(v) : v[k] = w[k]
    BY <2>1, <2>2
  <2>4. v = w
    BY <2>1, <2>2, <2>3, SeqEqual
  <2> QED BY <2>4 DEF v, w
<1>3. (<<x>> \o <<y>>) \o r = <<x>> \o (<<y>> \o r)
  BY <1>1, Unfold1
<1> QED BY <1>2, <1>3

LEMMA Unfold3 ==
  ASSUME NEW r \in Seq(Steps), NEW x \in Steps, NEW y \in Steps, NEW z \in Steps
  PROVE  <<x, y, z>> \o r = <<x>> \o (<<y>> \o (<<z>> \o r))
<1>1. <<y, z>> \in Seq(Steps)
  OBVIOUS
<1>2. <<x, y, z>> = <<x>> \o <<y, z>>
  OBVIOUS
<1>3. (<<x>> \o <<y, z>>) \o r = <<x>> \o (<<y, z>> \o r)
  BY <1>1, Unfold1
<1>4. <<y, z>> \o r = <<y>> \o (<<z>> \o r)
  BY Unfold2
<1> QED BY <1>2, <1>3, <1>4

\* The functions, one step before the other.
LEMMA MakeUnfolds ==
  ASSUME NEW r \in Seq(Steps)
  PROVE  Make \o r = <<"lock">> \o (<<"addref">> \o (<<"unlock">> \o (<<"made">> \o r)))
<1>1. {"lock", "addref", "unlock", "made"} \subseteq Steps
  BY DEF Steps
<1>2. <<"made">> \in Seq(Steps) /\ <<"made">> \o r \in Seq(Steps) /\ DLLAddRef \in Seq(Steps)
  BY <1>1 DEF DLLAddRef
<1>3. Make \o r = DLLAddRef \o (<<"made">> \o r)
  BY <1>1, <1>2, ConcatAssociative DEF Make
<1> DEFINE m == <<"made">> \o r
<1>4. m \in Seq(Steps)
  BY <1>2
<1> HIDE DEF m
<1>5. <<"lock", "addref", "unlock">> \o m = <<"lock">> \o (<<"addref">> \o (<<"unlock">> \o m))
  BY <1>1, <1>4, Unfold3
<1> QED BY <1>3, <1>5 DEF m, DLLAddRef

LEMMA ImportUnfolds ==
  ASSUME NEW r \in Seq(Steps), NEW mode \in Modes
  PROVE  ImportPythoncom(mode) \o r = <<"lock">> \o (<<mode>> \o (<<"unlock">> \o r))
<1>1. {"lock", mode, "unlock"} \subseteq Steps
  BY DEF Steps, Requests
<1>2. <<"lock", mode, "unlock">> \o r = <<"lock">> \o (<<mode>> \o (<<"unlock">> \o r))
  <2>1. "lock" \in Steps /\ mode \in Steps /\ "unlock" \in Steps
    BY <1>1
  <2> QED BY ONLY <2>1, r \in Seq(Steps), Unfold3
<1> QED BY <1>2 DEF ImportPythoncom

LEMMA DeleteWrapperUnfolds ==
  ASSUME NEW r \in Seq(Steps)
  PROVE  DeleteWrapper \o r = <<"save">> \o (<<"restore">> \o (<<"release">> \o r))
<1>1. {"save", "restore", "release"} \subseteq Steps
  BY DEF Steps
<1>2. <<"save", "restore">> \in Seq(Steps) /\ <<"release">> \in Seq(Steps)
      /\ <<"release">> \o r \in Seq(Steps)
  BY <1>1
<1>3. DeleteWrapper \o r = <<"save", "restore">> \o (<<"release">> \o r)
  BY <1>1, <1>2, ConcatAssociative DEF DeleteWrapper, DLLReleaseRef
<1> QED BY <1>1, <1>2, <1>3, Unfold2

\* CoInitialize and CoUninitialize differ in the step x they take inside both locks.
LEMMA ApartmentUnfolds ==
  ASSUME NEW r \in Seq(Steps), NEW x \in Steps
  PROVE  <<"save", "lock", x, "unlock", "restore">> \o r
           = <<"save">> \o (<<"lock">> \o (<<x>> \o (<<"unlock">> \o (<<"restore">> \o r))))
<1>1. {"save", "lock", x, "unlock", "restore"} \subseteq Steps
  BY DEF Steps
<1> DEFINE t == <<x, "unlock", "restore">> \o r
<1>2. <<x, "unlock", "restore">> \in Seq(Steps) /\ <<"save", "lock">> \in Seq(Steps)
      /\ t \in Seq(Steps)
  BY <1>1
<1>3. <<"save", "lock", x, "unlock", "restore">> = <<"save", "lock">> \o <<x, "unlock", "restore">>
  OBVIOUS
<1>4. (<<"save", "lock">> \o <<x, "unlock", "restore">>) \o r = <<"save", "lock">> \o t
  BY <1>1, <1>2, ConcatAssociative
<1>5. t = <<x>> \o (<<"unlock">> \o (<<"restore">> \o r))
  BY <1>1, Unfold3
<1> HIDE DEF t
<1>6. <<"save", "lock">> \o t = <<"save">> \o (<<"lock">> \o t)
  BY <1>1, <1>2, Unfold2
<1> QED BY <1>3, <1>4, <1>5, <1>6

\* ole32 deletes a gateway inside CoUninitialize.
LEMMA DisconnectUnfolds ==
  ASSUME NEW r \in Seq(Steps), NEW x \in {"undone", "left"}
  PROVE  /\ (DeleteGateway \o <<x>>) \o r
              = <<"python">> \o (<<"release">> \o (<<x>> \o r))
         /\ <<"python", "failed">> \o r = <<"python">> \o (<<"failed">> \o r)
<1>1. {"python", "release", x, "failed"} \subseteq Steps
  BY DEF Steps
<1> DEFINE a == <<x>> \o r
<1>2. <<"python">> \in Seq(Steps) /\ <<"release">> \in Seq(Steps) /\ <<x>> \in Seq(Steps)
      /\ a \in Seq(Steps)
  BY <1>1
<1>3. DeleteGateway = <<"python">> \o <<"release">> /\ DeleteGateway \in Seq(Steps)
  BY <1>2 DEF DeleteGateway, DLLReleaseRef
<1>4. (DeleteGateway \o <<x>>) \o r = DeleteGateway \o a
  BY <1>1, <1>2, <1>3, ConcatAssociative
<1> HIDE DEF a
<1>5. DeleteGateway \o a = <<"python">> \o (<<"release">> \o a)
  BY <1>1, <1>2, <1>3, ConcatAssociative
<1>6. <<"python", "failed">> \o r = <<"python">> \o (<<"failed">> \o r)
  BY <1>1, Unfold2
<1> QED BY <1>4, <1>5, <1>6 DEF a

LEMMA PutMake ==
  ASSUME NEW r, NEW g, NEW d, Does(r, g, d), Free(r)
  PROVE  Does(Make \o r, g, d)
<1> USE DEF Does
<1>1. {"lock", "addref", "unlock", "made"} \subseteq Steps /\ r \in Seq(Steps) /\ d + 1 \in Nat
  BY DEF Steps
<1>2. Make \o r = <<"lock">> \o (<<"addref">> \o (<<"unlock">> \o (<<"made">> \o r)))
  BY <1>1, MakeUnfolds
<1> HIDE DEF Does
<1> DEFINE a == <<"made">> \o r
<1>3. Does(a, g, d) /\ Free(a)
  BY PutQuiet DEF Quiet
<1> HIDE DEF a
<1> DEFINE b == <<"unlock">> \o a
<1>4. Does(b, g, d + 1) /\ Free(b)
  BY <1>3, PutUnlock
<1> HIDE DEF b
<1> DEFINE c == <<"addref">> \o b
<1>5. Does(c, g, d + 1) /\ Free(c)
  BY <1>4, PutQuiet DEF Quiet
<1> HIDE DEF c
<1>6. Does(<<"lock">> \o c, g, d)
  BY <1>5, PutLock DEF Free, Does
<1> QED BY <1>2, <1>6 DEF a, b, c

LEMMA PutImport ==
  ASSUME NEW r, NEW g, NEW d, Does(r, g, d), Free(r), NEW mode \in Modes
  PROVE  Does(ImportPythoncom(mode) \o r, g, d)
<1>1. {"lock", mode, "unlock"} \subseteq Steps /\ r \in Seq(Steps) /\ d + 1 \in Nat
  BY DEF Steps, Requests, Does
<1>2. ImportPythoncom(mode) \o r = <<"lock">> \o (<<mode>> \o (<<"unlock">> \o r))
  BY <1>1, ImportUnfolds
<1> DEFINE b == <<"unlock">> \o r
<1>4. Does(b, g, d + 1) /\ Free(b)
  BY PutUnlock
<1> HIDE DEF b
<1> DEFINE c == <<mode>> \o b
<1>5. Does(c, g, d + 1) /\ Free(c)
  BY <1>4, PutQuiet DEF Quiet, Requests, Modes
<1> HIDE DEF c
<1>6. Does(<<"lock">> \o c, g, d)
  BY <1>1, <1>5, PutLock DEF Free, Does
<1> QED BY <1>2, <1>6 DEF b, c

LEMMA PutDeleteWrapper ==
  ASSUME NEW r, NEW d, Does(r, 1, d), Free(r), d > 0 => Pending(r)
  PROVE  Does(DeleteWrapper \o r, 1, d)
<1>1. {"save", "restore", "release"} \subseteq Steps /\ r \in Seq(Steps)
  BY DEF Steps, Does
<1>2. DeleteWrapper \o r = <<"save">> \o (<<"restore">> \o (<<"release">> \o r))
  BY <1>1, DeleteWrapperUnfolds
<1> DEFINE a == <<"release">> \o r
<1>3. Does(a, 1, d) /\ Free(a) /\ (d > 0 => Pending(a))
  BY <1>1, PutQuiet, LaterShift DEF Quiet
<1> HIDE DEF a
<1> DEFINE b == <<"restore">> \o a
<1>4. Does(b, 0, d) /\ Free(b)
  BY <1>3, PutRestore
<1> HIDE DEF b
<1>5. Does(<<"save">> \o b, 1, d)
  BY <1>4, PutSave DEF Free
<1> QED BY <1>2, <1>5 DEF a, b

LEMMA PutApartment ==
  ASSUME NEW r, NEW d, Does(r, 1, d), Free(r), d > 0 => Pending(r), NEW x \in Requests \cup {"uninit"}
  PROVE  Does(<<"save", "lock", x, "unlock", "restore">> \o r, 1, d)
<1>1. {"save", "lock", x, "unlock", "restore"} \subseteq Steps /\ r \in Seq(Steps) /\ d \in Nat
  BY DEF Steps, Does
<1>2. <<"save", "lock", x, "unlock", "restore">> \o r
        = <<"save">> \o (<<"lock">> \o (<<x>> \o (<<"unlock">> \o (<<"restore">> \o r))))
  BY <1>1, ApartmentUnfolds
<1> DEFINE a == <<"restore">> \o r
<1>3. Does(a, 0, d) /\ Free(a)
  BY PutRestore
<1> HIDE DEF a
<1> DEFINE b == <<"unlock">> \o a
<1>4. Does(b, 0, d + 1) /\ Free(b)
  BY <1>3, PutUnlock
<1> HIDE DEF b
<1> DEFINE c == <<x>> \o b
<1>5. Does(c, 0, d + 1) /\ c[1] \notin {"lock", "save"}
  <2>1. CASE x \in Requests
    BY <1>4, <2>1, PutQuiet DEF Quiet, Requests, Modes
  <2>2. CASE x = "uninit"
    BY <1>4, <2>2, PutUninit
  <2> QED BY <2>1, <2>2
<1> HIDE DEF c
<1> DEFINE l == <<"lock">> \o c
<1>6. Does(l, 0, d) /\ l[1] = "lock"
  BY <1>1, <1>5, PutLock
<1> HIDE DEF l
<1>7. Does(<<"save">> \o l, 1, d)
  BY <1>6, PutSave
<1> QED BY <1>2, <1>7 DEF a, b, c, l

\* ole32 deletes a gateway, and a failure is reported, both inside the framework lock.
LEMMA PutWithin ==
  ASSUME NEW r, NEW g, NEW d, Does(r, g, d), Free(r), NEW x \in {"undone", "left"}
  PROVE  /\ Does(<<x>> \o r, g, d)
         /\ Does(<<"python", "failed">> \o r, g, d)
         /\ Does((DeleteGateway \o <<x>>) \o r, g, d)
<1>1. {"python", "failed", x, "release"} \subseteq Steps /\ r \in Seq(Steps)
  BY DEF Steps, Does
<1> DEFINE a == <<x>> \o r
           b == <<"release">> \o a
           c == <<"failed">> \o r
<1>2. Does(a, g, d) /\ Free(a) /\ Pending(a)
  BY <1>1, PutQuiet, LaterShift DEF Quiet
<1>3. Does(c, g, d) /\ Free(c) /\ Pending(c)
  BY <1>1, PutQuiet, LaterShift DEF Quiet
<1> HIDE DEF a, c
<1>4. Does(b, g, d) /\ Free(b) /\ Pending(b)
  <2>1. a \in Seq(Steps)
    BY <1>2 DEF Does
  <2> QED BY <1>1, <1>2, <2>1, PutQuiet, LaterShift DEF Quiet
<1> HIDE DEF b
<1>5. Does(<<"python">> \o b, g, d)
  BY <1>4, PutQuiet DEF Quiet
<1>6. Does(<<"python">> \o c, g, d)
  BY <1>3, PutQuiet DEF Quiet
<1>7. <<"python", "failed">> \o r = <<"python">> \o c
  BY <1>1, DisconnectUnfolds DEF c
<1>8. (DeleteGateway \o <<x>>) \o r = <<"python">> \o b
  BY <1>1, DisconnectUnfolds DEF a, b
<1> QED BY <1>2, <1>5, <1>6, <1>7, <1>8 DEF a

\* A thread that does nothing begins with one of these.
LEMMA PutFirst ==
  /\ Does(<<>>, 0, 0)
  /\ Does(CreateInstance, 0, 0) /\ Does(<<"python">>, 0, 0) /\ Does(DeleteGateway, 0, 0)
  /\ Does(Make, 0, 0) /\ Does(DLLReleaseRef, 0, 0)
<1>0. {"lock", "addref", "unlock", "made", "python", "release"} \subseteq Steps /\ <<>> \in Seq(Steps)
  BY DEF Steps
<1>1. Does(<<>>, 0, 0) /\ Free(<<>>)
  BY <1>0, PathEmpty DEF Does, Free
<1>2. ASSUME NEW x \in Steps PROVE <<x>> \o <<>> = <<x>>
  OBVIOUS
<1>3. Does(<<"release">> \o <<>>, 0, 0) /\ Free(<<"release">> \o <<>>)
  BY <1>1, PutQuiet DEF Quiet
<1>4. Does(<<"release">>, 0, 0) /\ Free(<<"release">>)
  BY <1>0, <1>2, <1>3
<1>5. Does(<<"python">> \o <<"release">>, 0, 0) /\ Free(<<"python">> \o <<"release">>)
  BY <1>4, PutQuiet DEF Quiet
<1>6. Does(<<"python">> \o <<>>, 0, 0)
  <2>1. ASSUME NEW s, Does(s, 0, 0), Free(s) PROVE Does(<<"python">> \o s, 0, 0)
    BY <2>1, PutQuiet DEF Quiet
  <2> QED BY <1>1, <2>1, Zenon
<1>7. Does(<<"python">>, 0, 0)
  BY <1>0, <1>2, <1>6
<1>8. DeleteGateway = <<"python">> \o <<"release">> /\ DLLReleaseRef = <<"release">>
  BY DEF DeleteGateway, DLLReleaseRef
<1>9. Make \o <<>> = Make
  BY DEF Make, DLLAddRef
<1>10. Does(Make, 0, 0)
  BY <1>1, <1>9, PutMake
<1>11. Does(CreateInstance, 0, 0)
  <2> DEFINE a == <<"python">> \o <<"release">>
             b == <<"unlock">> \o a
             c == <<"addref">> \o b
  <2>1. CreateInstance = <<"lock", "addref", "unlock">> \o a
    BY DEF CreateInstance, DLLAddRef, DLLReleaseRef
  <2> HIDE DEF a
  <2>2. a \in Seq(Steps) /\ Does(a, 0, 0) /\ Free(a)
    BY <1>5 DEF a, Does
  <2>3. CreateInstance = <<"lock">> \o c
    BY <1>0, <2>1, <2>2, Unfold3
  <2>4. Does(b, 0, 0 + 1) /\ Free(b)
    BY <2>2, PutUnlock
  <2> HIDE DEF b
  <2>5. Does(c, 0, 0 + 1) /\ Free(c)
    BY <2>4, PutQuiet DEF Quiet
  <2> HIDE DEF c
  <2>6. Does(<<"lock">> \o c, 0, 0)
    BY <2>5, PutLock DEF Free
  <2> QED BY <2>3, <2>6
<1> QED BY <1>1, <1>4, <1>5, <1>7, <1>8, <1>10, <1>11
----------------------------------------------------------------------------
(***************************************************************************)
(* The locks: what every thread still has to do fits what it holds.        *)
(***************************************************************************)
HasGil(t) == IF gil = t THEN 1 ELSE 0
Depth(t) == IF framework.owner = t THEN framework.depth ELSE 0

LockInv ==
  /\ todo \in [Threads -> Seq(Steps)]
  /\ gil \in Threads \cup {None}
  /\ framework \in [owner : Threads \cup {None}, depth : Nat]
  /\ framework.owner = None <=> framework.depth = 0
  /\ \A t \in Threads : Path(todo[t], HasGil(t), Depth(t))

LEMMA HeldTypes ==
  ASSUME LockInv, NEW t \in Threads
  PROVE  /\ HasGil(t) \in {0, 1} /\ Depth(t) \in Nat /\ todo[t] \in Seq(Steps)
         /\ Does(todo[t], HasGil(t), Depth(t))
         /\ Depth(t) > 0 <=> framework.owner = t
         /\ HasGil(t) = 1 <=> gil = t
<1>1. framework.depth \in Nat /\ t # None
  BY ThreadsAssumption DEF LockInv
<1>2. HasGil(t) \in {0, 1} /\ Depth(t) \in Nat /\ todo[t] \in Seq(Steps)
  BY <1>1 DEF LockInv, HasGil, Depth
<1> QED BY <1>1, <1>2 DEF LockInv, HasGil, Depth, Does

\* The step x of a thread is taken; r is left.
LEMMA HeadFacts ==
  ASSUME LockInv, NEW t \in Threads, NEW x, At(t, x), NEW r, r = Tail(todo[t])
  PROVE  /\ x \in Steps /\ todo[t] = <<x>> \o r /\ r \in Seq(Steps)
         /\ Fits(x, HasGil(t), Depth(t), Pending(r))
         /\ r # <<>> => Links(x, r[1])
         /\ Does(r, GilAfter(x, HasGil(t)), DepthAfter(x, Depth(t)))
         /\ x \notin {"lock", "save"} => Free(r)
<1>1. todo[t] \in Seq(Steps) /\ todo[t] # <<>> /\ Head(todo[t]) = x
  BY HeldTypes DEF At
<1>2. x \in Steps /\ todo[t] = <<x>> \o r /\ r \in Seq(Steps)
  BY <1>1, HeadTail
<1>3. Path(<<x>> \o r, HasGil(t), Depth(t))
  BY <1>2 DEF LockInv
<1>4. /\ Fits(x, HasGil(t), Depth(t), Pending(r))
      /\ r # <<>> => Links(x, r[1])
      /\ Does(r, GilAfter(x, HasGil(t)), DepthAfter(x, Depth(t)))
  BY <1>2, <1>3, HeldTypes, PathTail DEF Does
<1> QED BY <1>2, <1>4 DEF Links, Free

\* A thread that has nothing to do holds nothing.
LEMMA IdleFacts ==
  ASSUME LockInv, NEW t \in Threads, Idle(t)
  PROVE  HasGil(t) = 0 /\ Depth(t) = 0
BY HeldTypes, PathEmpty DEF Idle, Does

\* One thread moves, and the others hold what they held.
LEMMA Moves ==
  ASSUME LockInv, NEW t \in Threads, NEW s, todo' = [todo EXCEPT ![t] = s],
         gil' \in Threads \cup {None},
         framework' \in [owner : Threads \cup {None}, depth : Nat],
         framework'.owner = None <=> framework'.depth = 0,
         \A u \in Threads \ {t} : HasGil(u)' = HasGil(u) /\ Depth(u)' = Depth(u),
         Does(s, HasGil(t)', Depth(t)')
  PROVE  LockInv'
<1>1. todo' \in [Threads -> Seq(Steps)]
  BY DEF LockInv, Does
<1>2. ASSUME NEW u \in Threads
      PROVE  Path(todo'[u], HasGil(u)', Depth(u)')
  <2>1. CASE u = t
    BY <2>1 DEF LockInv, Does
  <2>2. CASE u # t
    <3>1. todo'[u] = todo[u] /\ HasGil(u)' = HasGil(u) /\ Depth(u)' = Depth(u)
      BY <2>2 DEF LockInv
    <3> QED BY <3>1 DEF LockInv
  <2> QED BY <2>1, <2>2
<1> QED BY <1>1, <1>2 DEF LockInv

LEMMA MovesQuietly ==
  ASSUME LockInv, NEW t \in Threads, NEW s, todo' = [todo EXCEPT ![t] = s],
         UNCHANGED <<gil, framework>>, Does(s, HasGil(t), Depth(t))
  PROVE  LockInv'
<1>1. \A u \in Threads : HasGil(u)' = HasGil(u) /\ Depth(u)' = Depth(u)
  BY DEF HasGil, Depth
<1>2. /\ gil' \in Threads \cup {None}
      /\ framework' \in [owner : Threads \cup {None}, depth : Nat]
      /\ framework'.owner = None <=> framework'.depth = 0
  BY DEF LockInv
<1>3. Does(s, HasGil(t)', Depth(t)')
  BY <1>1
<1> QED BY <1>1, <1>2, <1>3, Moves

\* Then(t, w): the functions w take the place of the step.
LEMMA ThenFacts ==
  ASSUME LockInv, NEW t \in Threads, NEW w, Then(t, w), NEW r, r = Tail(todo[t])
  PROVE  todo' = [todo EXCEPT ![t] = w \o r]
BY DEF LockInv, Then

\* The locks are taken and given back.
LEMMA LockMoves ==
  ASSUME LockInv, NEW t \in Threads,
         EnterFramework(t) \/ LeaveFramework(t) \/ EnterPython(t) \/ GiveUpGil(t) \/ TakeGil(t)
  PROVE  LockInv'
<1> DEFINE r == Tail(todo[t])
           g == HasGil(t)
           d == Depth(t)
<1>0. t # None /\ g \in {0, 1} /\ d \in Nat /\ (g = 1 <=> gil = t) /\ (d > 0 <=> framework.owner = t)
  BY ThreadsAssumption, HeldTypes
<1>01. /\ framework.owner \in Threads \cup {None} /\ framework.depth \in Nat
       /\ framework.owner = None <=> framework.depth = 0
       /\ gil \in Threads \cup {None}
       /\ framework \in [owner : Threads \cup {None}, depth : Nat]
  BY DEF LockInv
<1>1. ASSUME NEW x, At(t, x)
      PROVE  /\ x \in Steps /\ r \in Seq(Steps) /\ <<>> \o r = r
             /\ Fits(x, g, d, Pending(r))
             /\ Does(r, GilAfter(x, g), DepthAfter(x, d))
             /\ x \notin {"lock", "save"} => Free(r)
  <2>1. /\ x \in Steps /\ r \in Seq(Steps)
        /\ Fits(x, g, d, Pending(r))
        /\ Does(r, GilAfter(x, g), DepthAfter(x, d))
        /\ x \notin {"lock", "save"} => Free(r)
    BY <1>1, HeadFacts
  <2> QED BY <2>1
<1>2. ASSUME NEW w, Then(t, w) PROVE todo' = [todo EXCEPT ![t] = w \o r]
  BY <1>2, ThenFacts
<1>3. CASE EnterFramework(t)
  <2>1. At(t, "lock") /\ framework.owner \in {None, t} /\ UNCHANGED gil /\ Then(t, <<>>)
        /\ framework' = [owner |-> t, depth |-> framework.depth + 1]
    BY <1>3 DEF EnterFramework
  <2>2. todo' = [todo EXCEPT ![t] = r] /\ Does(r, g, d + 1)
    BY <1>1, <1>2, <2>1 DEF GilAfter, DepthAfter
  <2>3. /\ \A u \in Threads : HasGil(u)' = HasGil(u)
        /\ \A u \in Threads \ {t} : Depth(u)' = Depth(u)
        /\ Depth(t)' = d + 1
    BY <1>01, <2>1, ThreadsAssumption DEF HasGil, Depth
  <2>4. /\ framework' \in [owner : Threads \cup {None}, depth : Nat]
        /\ framework'.owner = None <=> framework'.depth = 0
    BY <1>0, <1>01, <2>1
  <2> HIDE DEF r, g, d
  <2> QED BY <1>01, <2>1, <2>2, <2>3, <2>4, Moves DEF g
<1>4. CASE LeaveFramework(t)
  <2>1. At(t, "unlock") /\ UNCHANGED gil /\ Then(t, <<>>)
        /\ framework' = [owner |-> IF framework.depth = 1 THEN None ELSE t,
                         depth |-> framework.depth - 1]
    BY <1>4 DEF LeaveFramework
  <2>2. todo' = [todo EXCEPT ![t] = r] /\ Does(r, g, d - 1) /\ d > 0
    BY <1>1, <1>2, <2>1 DEF GilAfter, DepthAfter, Fits
  <2>3. framework.owner = t /\ framework.depth = d
    BY <1>0, <2>2 DEF Depth
  <2> HIDE DEF r, g, d
  <2>4. /\ \A u \in Threads : HasGil(u)' = HasGil(u)
        /\ \A u \in Threads \ {t} : Depth(u)' = Depth(u)
        /\ Depth(t)' = d - 1
    BY <1>0, <2>1, <2>2, <2>3, ThreadsAssumption DEF HasGil, Depth
  <2>5. /\ framework' \in [owner : Threads \cup {None}, depth : Nat]
        /\ framework'.owner = None <=> framework'.depth = 0
    BY <1>0, <2>1, <2>2, <2>3
  <2> QED BY <1>01, <2>1, <2>2, <2>4, <2>5, Moves DEF g
<1>5. CASE EnterPython(t)
  <2>1. /\ At(t, "python") /\ gil \in {None, t} /\ gil' = t /\ UNCHANGED framework
        /\ Then(t, IF gil = t THEN <<"body">> ELSE <<"body", "leave">>)
    BY <1>5 DEF EnterPython
  <2>2. Does(r, g, d) /\ Free(r) /\ (d > 0 => Pending(r)) /\ r \in Seq(Steps)
    BY <1>1, <2>1 DEF GilAfter, DepthAfter, Fits
  <2>3. /\ \A u \in Threads \ {t} : HasGil(u)' = HasGil(u)
        /\ \A u \in Threads : Depth(u)' = Depth(u)
        /\ HasGil(t)' = 1
    BY <1>0, <2>1, ThreadsAssumption DEF HasGil, Depth
  <2>4. /\ framework' \in [owner : Threads \cup {None}, depth : Nat]
        /\ framework'.owner = None <=> framework'.depth = 0
        /\ gil' \in Threads \cup {None}
    BY <1>01, <2>1
  <2>5. CASE gil = t
    <3>1. todo' = [todo EXCEPT ![t] = <<"body">> \o r]
      BY <1>2, <2>1, <2>5
    <3>2. g = 1
      BY <1>0, <2>5
    <3> HIDE DEF r, g, d
    <3>3. Does(<<"body">> \o r, 1, d)
      BY <2>2, <3>2, PutBody
    <3> QED BY <2>3, <2>4, <3>1, <3>3, Moves DEF d
  <2>6. CASE gil # t
    <3>1. todo' = [todo EXCEPT ![t] = <<"body", "leave">> \o r]
      BY <1>2, <2>1, <2>6
    <3>2. g = 0
      BY <1>0, <2>6
    <3>3. "leave" \in Steps /\ "body" \in Steps
      BY DEF Steps
    <3> HIDE DEF r, g, d
    <3>4. <<"body", "leave">> \o r = <<"body">> \o (<<"leave">> \o r)
      BY <2>2, <3>3, Unfold2
    <3>5. Does(<<"leave">> \o r, 1, d) /\ Free(<<"leave">> \o r)
      BY <2>2, <3>2, PutLeave
    <3>6. d > 0 => Pending(<<"leave">> \o r)
      BY <2>2, <3>3, LaterShift
    <3>7. Does(<<"body">> \o (<<"leave">> \o r), 1, d)
      BY <3>5, <3>6, PutBody
    <3> QED BY <2>3, <2>4, <3>1, <3>4, <3>7, Moves DEF d
  <2> QED BY <2>5, <2>6
<1>6. CASE GiveUpGil(t)
  <2>1. /\ At(t, "leave") \/ At(t, "save")
        /\ gil' = None /\ UNCHANGED framework /\ Then(t, <<>>)
    BY <1>6 DEF GiveUpGil
  <2>2. todo' = [todo EXCEPT ![t] = r] /\ Does(r, 0, d) /\ g = 1
    BY <1>1, <1>2, <2>1 DEF GilAfter, DepthAfter, Fits
  <2>3. /\ \A u \in Threads \ {t} : HasGil(u)' = HasGil(u)
        /\ \A u \in Threads : Depth(u)' = Depth(u)
        /\ HasGil(t)' = 0
    BY <1>0, <2>1, <2>2, ThreadsAssumption DEF HasGil, Depth
  <2>4. /\ framework' \in [owner : Threads \cup {None}, depth : Nat]
        /\ framework'.owner = None <=> framework'.depth = 0
        /\ gil' \in Threads \cup {None}
    BY <1>01, <2>1
  <2> HIDE DEF r, g, d
  <2> QED BY <2>2, <2>3, <2>4, Moves DEF d
<1>7. CASE TakeGil(t)
  <2>1. At(t, "restore") /\ gil = None /\ gil' = t /\ UNCHANGED framework /\ Then(t, <<>>)
    BY <1>7 DEF TakeGil
  <2>2. todo' = [todo EXCEPT ![t] = r] /\ Does(r, 1, d)
    BY <1>1, <1>2, <2>1 DEF GilAfter, DepthAfter
  <2>3. /\ \A u \in Threads \ {t} : HasGil(u)' = HasGil(u)
        /\ \A u \in Threads : Depth(u)' = Depth(u)
        /\ HasGil(t)' = 1
    BY <1>0, <2>1, ThreadsAssumption DEF HasGil, Depth
  <2>4. /\ framework' \in [owner : Threads \cup {None}, depth : Nat]
        /\ framework'.owner = None <=> framework'.depth = 0
        /\ gil' \in Threads \cup {None}
    BY <1>01, <2>1
  <2> HIDE DEF r, g, d
  <2> QED BY <2>2, <2>3, <2>4, Moves DEF d
<1> QED BY <1>3, <1>4, <1>5, <1>6, <1>7

\* A step that neither takes nor gives back a lock.
Still == {"addref", "pyinit", "made", "release", "failed", "undone", "left", "uninit"} \cup Requests

LEMMA StillFacts ==
  ASSUME LockInv, NEW t \in Threads, NEW x \in Still, At(t, x), NEW r, r = Tail(todo[t])
  PROVE  Does(r, HasGil(t), Depth(t)) /\ Free(r) /\ <<>> \o r = r
<1>1. Does(r, GilAfter(x, HasGil(t)), DepthAfter(x, Depth(t))) /\ r \in Seq(Steps)
      /\ (x \notin {"lock", "save"} => Free(r))
  BY HeadFacts
<1>2. GilAfter(x, HasGil(t)) = HasGil(t) /\ DepthAfter(x, Depth(t)) = Depth(t) /\ x \notin {"lock", "save"}
  BY DEF Still, Requests, Modes, GilAfter, DepthAfter
<1> QED BY <1>1, <1>2

LEMMA QuietMoves ==
  ASSUME LockInv, NEW t \in Threads,
         \/ CountUp(t) \/ PythonIsUp(t) \/ ObjectIsMade(t) \/ CountDown(t) \/ InitializeCom(t)
         \/ InitializeFails(t) \/ FailureIsReported(t) \/ UninitializeCom(t) \/ ComIsUndone(t)
  PROVE  LockInv'
<1> DEFINE r == Tail(todo[t])
<1>1. ASSUME NEW x \in Still, At(t, x)
      PROVE  Does(r, HasGil(t), Depth(t)) /\ Free(r) /\ <<>> \o r = r
  BY <1>1, StillFacts
<1>2. ASSUME NEW w, Then(t, w) PROVE todo' = [todo EXCEPT ![t] = w \o r]
  BY <1>2, ThenFacts
<1> HIDE DEF r
<1>3. ASSUME UNCHANGED <<gil, framework>>, NEW x \in Still, At(t, x), NEW w, Then(t, w),
             w = <<>> \/ Does(w \o r, HasGil(t), Depth(t))
      PROVE  LockInv'
  <2>1. Does(w \o r, HasGil(t), Depth(t))
    BY <1>1, <1>3
  <2> QED BY <1>2, <1>3, <2>1, MovesQuietly
<1>4. CASE CountUp(t)
  <2>1. /\ At(t, "addref") /\ UNCHANGED <<gil, framework>>
        /\ Then(t, <<"pyinit">>) \/ Then(t, <<>>)
    BY <1>4 DEF CountUp
  <2>2. "addref" \in Still
    BY DEF Still
  <2>3. Does(<<"pyinit">> \o r, HasGil(t), Depth(t))
    BY <1>1, <2>1, <2>2, PutQuiet DEF Quiet
  <2> QED BY <1>3, <2>1, <2>2, <2>3
<1>5. CASE PythonIsUp(t) \/ ObjectIsMade(t) \/ CountDown(t) \/ FailureIsReported(t) \/ ComIsUndone(t)
  <2>1. UNCHANGED <<gil, framework>> /\ Then(t, <<>>)
    BY <1>5 DEF PythonIsUp, ObjectIsMade, CountDown, FailureIsReported, ComIsUndone, locks
  <2>2. \E x \in Still : At(t, x)
    BY <1>5 DEF PythonIsUp, ObjectIsMade, CountDown, FailureIsReported, ComIsUndone, Still
  <2> QED BY <1>3, <2>1, <2>2
<1>6. CASE InitializeCom(t)
  <2>1. PICK request \in Requests : At(t, request) /\ Then(t, <<>>) /\ UNCHANGED <<gil, framework>>
    BY <1>6 DEF InitializeCom, locks
  <2> QED BY <1>3, <2>1 DEF Still
<1>7. CASE InitializeFails(t)
  <2>1. PICK request \in Requests : At(t, request)
    BY <1>7 DEF InitializeFails
  <2>2. Then(t, <<"python", "failed">>) /\ UNCHANGED <<gil, framework>>
    BY <1>7 DEF InitializeFails, locks
  <2>3. request \in Still
    BY DEF Still
  <2>4. Does(<<"python", "failed">> \o r, HasGil(t), Depth(t))
    BY <1>1, <2>1, <2>3, PutWithin
  <2> QED BY <1>3, <2>1, <2>2, <2>3, <2>4
<1>8. CASE UninitializeCom(t)
  <2>1. At(t, "uninit") /\ UNCHANGED <<gil, framework>> /\ "uninit" \in Still
    BY <1>8 DEF UninitializeCom, locks, Still
  <2>2. PICK x \in {"undone", "left"} :
          Then(t, <<>>) \/ Then(t, <<x>>) \/ Then(t, DeleteGateway \o <<x>>)
    BY <1>8 DEF UninitializeCom
  <2>3. /\ Does(<<x>> \o r, HasGil(t), Depth(t))
        /\ Does((DeleteGateway \o <<x>>) \o r, HasGil(t), Depth(t))
    BY <1>1, <2>1, PutWithin
  <2>4. CASE Then(t, <<>>)
    BY <1>3, <2>1, <2>4
  <2>5. CASE Then(t, <<x>>)
    BY <1>3, <2>1, <2>3, <2>5
  <2>6. CASE Then(t, DeleteGateway \o <<x>>)
    BY <1>3, <2>1, <2>3, <2>6
  <2> QED BY <2>2, <2>4, <2>5, <2>6
<1> QED BY <1>4, <1>5, <1>6, <1>7, <1>8

\* Python code has the interpreter lock; if ole32 or a logger called it in the framework
\* lock, they wait for it.
LEMMA BodyFacts ==
  ASSUME LockInv, NEW t \in Threads, At(t, "body"), NEW r, r = Tail(todo[t])
  PROVE  /\ HasGil(t) = 1 /\ Does(r, 1, Depth(t)) /\ Free(r) /\ (Depth(t) > 0 => Pending(r))
         /\ <<>> \o r = r
<1>1. /\ Fits("body", HasGil(t), Depth(t), Pending(r)) /\ Free(r) /\ r \in Seq(Steps)
      /\ Does(r, GilAfter("body", HasGil(t)), DepthAfter("body", Depth(t)))
  <2>1. "body" \notin {"lock", "save"}
    OBVIOUS
  <2> QED BY <2>1, HeadFacts
<1>2. HasGil(t) = 1 /\ (Depth(t) > 0 => Pending(r))
  BY <1>1 DEF Fits
<1>3. GilAfter("body", 1) = 1 /\ DepthAfter("body", Depth(t)) = Depth(t)
  BY DEF GilAfter, DepthAfter
<1>4. Does(r, 1, Depth(t))
  BY <1>1, <1>2, <1>3
<1>5. <<>> \o r = r
  BY <1>1
<1> QED BY <1>1, <1>2, <1>4, <1>5

LEMMA BodyMoves ==
  ASSUME LockInv, NEW t \in Threads, Body(t) PROVE LockInv'
<1> DEFINE r == Tail(todo[t])
           d == Depth(t)
<1>1. At(t, "body")
  BY DEF Body, ReturnFromPython, Import, MakeObject, DropObject, CallCoInitialize, CallCoUninitialize
<1>2. HasGil(t) = 1 /\ Does(r, 1, d) /\ Free(r) /\ (d > 0 => Pending(r)) /\ <<>> \o r = r
  BY <1>1, BodyFacts
<1>3. ASSUME NEW w, Then(t, w) PROVE todo' = [todo EXCEPT ![t] = w \o r]
  BY <1>3, ThenFacts
<1> HIDE DEF r
<1>4. UNCHANGED <<gil, framework>>
  BY DEF Body, ReturnFromPython, Import, MakeObject, DropObject, CallCoInitialize, CallCoUninitialize, locks
<1>5. ASSUME NEW w, Then(t, w), Does(w \o r, 1, d) PROVE LockInv'
  BY <1>2, <1>3, <1>4, <1>5, MovesQuietly
<1> HIDE DEF d
<1>6. CASE ReturnFromPython(t)
  <2>1. Then(t, <<>>) /\ Does(<<>> \o r, 1, d)
    BY <1>2, <1>6 DEF ReturnFromPython
  <2> QED BY <1>5, <2>1
<1>7. CASE Import(t)
  <2>1. PICK mode \in Modes : Then(t, ImportPythoncom(mode))
    BY <1>7 DEF Import
  <2> QED BY <1>2, <1>5, <2>1, PutImport
<1>8. CASE MakeObject(t)
  BY <1>2, <1>5, <1>8, PutMake DEF MakeObject
<1>9. CASE DropObject(t)
  BY <1>2, <1>5, <1>9, PutDeleteWrapper DEF DropObject
<1>10. CASE CallCoInitialize(t)
  <2>1. PICK request \in Requests : Then(t, CoInitialize(request))
    BY <1>10 DEF CallCoInitialize
  <2>2. Does(CoInitialize(request) \o r, 1, d)
    BY <1>2, PutApartment DEF CoInitialize
  <2> QED BY <1>5, <2>1, <2>2
<1>11. CASE CallCoUninitialize(t)
  <2>1. Then(t, CoUninitialize)
    BY <1>11 DEF CallCoUninitialize
  <2>2. Does(CoUninitialize \o r, 1, d)
    BY <1>2, PutApartment DEF CoUninitialize
  <2> QED BY <1>5, <2>1, <2>2
<1> QED BY <1>6, <1>7, <1>8, <1>9, <1>10, <1>11 DEF Body

LEMMA CallMoves ==
  ASSUME LockInv, NEW t \in Threads, Call(t) PROVE LockInv'
<1>1. UNCHANGED <<gil, framework>>
  BY DEF Call, CallCreateInstance, CallPython, ReleaseGateway, CallLockServer, HostInitializes,
     HostUninitializes, ThreadEnds, locks
<1>2. ASSUME NEW w, Begin(t, w), Does(w, 0, 0) PROVE LockInv'
  BY <1>1, <1>2, IdleFacts, MovesQuietly DEF Begin
<1>3. CASE todo' = todo
  BY <1>1, <1>3 DEF LockInv, HasGil, Depth
<1>4. CASE CallCreateInstance(t)
  BY <1>2, <1>4, PutFirst DEF CallCreateInstance
<1>5. CASE CallPython(t)
  BY <1>2, <1>5, PutFirst DEF CallPython
<1>6. CASE ReleaseGateway(t)
  BY <1>2, <1>6, PutFirst DEF ReleaseGateway
<1>7. CASE CallLockServer(t)
  BY <1>2, <1>7, PutFirst DEF CallLockServer
<1>8. CASE HostInitializes(t) \/ HostUninitializes(t) \/ ThreadEnds(t)
  BY <1>3, <1>8 DEF HostInitializes, HostUninitializes, ThreadEnds
<1> QED BY <1>4, <1>5, <1>6, <1>7, <1>8 DEF Call

LEMMA LockInit == Init => LockInv
<1> SUFFICES ASSUME Init PROVE LockInv
  OBVIOUS
<1>1. gil = None /\ framework = [owner |-> None, depth |-> 0] /\ todo = [t \in Threads |-> <<>>]
  BY DEF Init
<1>2. \A t \in Threads : HasGil(t) = 0 /\ Depth(t) = 0 /\ todo[t] = <<>>
  BY <1>1, ThreadsAssumption DEF HasGil, Depth
<1>3. \A t \in Threads : Path(todo[t], HasGil(t), Depth(t))
  BY <1>2, PutFirst DEF Does
<1> QED BY <1>1, <1>3 DEF LockInv

LEMMA LockStep == LockInv /\ [Next]_vars => LockInv'
<1> SUFFICES ASSUME LockInv, [Next]_vars PROVE LockInv'
  OBVIOUS
<1>1. CASE Next
  BY <1>1, LockMoves, QuietMoves, BodyMoves, CallMoves DEF Next, Step
<1>2. CASE UNCHANGED vars
  BY <1>2 DEF vars, locks, LockInv, HasGil, Depth
<1> QED BY <1>1, <1>2

LEMMA LockAlways == Spec => []LockInv
BY LockInit, LockStep, PTL DEF Spec

\* The interpreter lock is taken back only by a thread that has saved it.
LEMMA RestoreFacts ==
  ASSUME LockInv, NEW t \in Threads, At(t, "restore") PROVE gil # t
<1>1. Fits("restore", HasGil(t), Depth(t), Pending(Tail(todo[t])))
  BY HeadFacts
<1>2. HasGil(t) = 0
  BY <1>1 DEF Fits
<1> QED BY <1>2, HeldTypes

\* PyCom_CoInitializeEx, PyCom_CoUninitialize and PyCom_DLLAddRef: threads that cannot go
\* on do so only because one deletes a Python object, or reports an error, inside the
\* framework lock and another makes an object with the interpreter lock.
THEOREM SpecNoOtherDeadlock == Spec => []NoOtherDeadlock
<1>1. LockInv => NoOtherDeadlock
  <2> SUFFICES ASSUME LockInv, NEW t \in Threads, ~Idle(t), \A u \in Threads : Idle(u) \/ Blocked(u)
               PROVE  Deadlocked
    BY DEF NoOtherDeadlock
  <2>1. ASSUME NEW o \in Threads, framework.owner = o \/ gil = o PROVE Blocked(o)
    <3>1. ~Idle(o)
      BY <2>1, HeldTypes, IdleFacts
    <3> QED BY <3>1
  <2>2. ASSUME NEW o \in Threads, framework.owner = o
        PROVE  (At(o, "python") \/ At(o, "restore")) /\ gil \in Threads \ {o} /\ (Undoing(o) \/ Reporting(o))
    <3>1. At(o, "python") \/ At(o, "restore")
      BY <2>1, <2>2 DEF Blocked
    <3>2. gil \notin {None, o} /\ gil \in Threads
      <4>1. At(o, "restore") => gil # o
        BY RestoreFacts
      <4>2. At(o, "restore") => ~At(o, "python")
        BY DEF At
      <4> QED BY <2>1, <2>2, <3>1, <4>1, <4>2 DEF Blocked, At, LockInv
    <3>3. Pending(todo[o])
      <4>1. PICK x \in {"python", "restore"} : At(o, x)
        BY <3>1
      <4>2. /\ x \in Steps /\ todo[o] = <<x>> \o Tail(todo[o]) /\ Tail(todo[o]) \in Seq(Steps)
            /\ Fits(x, HasGil(o), Depth(o), Pending(Tail(todo[o])))
        BY <4>1, HeadFacts
      <4>3. Depth(o) > 0
        BY <2>2, HeldTypes
      <4>4. Pending(Tail(todo[o]))
        BY <4>2, <4>3 DEF Fits
      <4> QED BY <4>2, <4>4, LaterShift
    <3>4. Undoing(o) \/ Reporting(o)
      BY <3>3, HeldTypes DEF Pending, Undoing, Reporting
    <3> QED BY <3>1, <3>2, <3>4
  <2>3. ASSUME NEW u \in Threads, gil = u
        PROVE  At(u, "lock") /\ framework.owner \in Threads \ {u}
    <3>1. ~At(u, "restore")
      BY <2>3, RestoreFacts
    <3> QED BY <2>1, <2>3, <3>1 DEF Blocked, LockInv
  <2>4. ASSUME NEW o \in Threads, framework.owner = o PROVE Deadlocked
    BY <2>2, <2>3, <2>4 DEF Deadlocked
  <2>5. \/ framework.owner \in Threads \/ gil \in Threads
    BY DEF Blocked, LockInv
  <2> QED BY <2>3, <2>4, <2>5
<1> QED BY <1>1, LockAlways, PTL
----------------------------------------------------------------------------
(***************************************************************************)
(* The start of Python: until it is up, threads do nothing but count an    *)
(* object, and the one that starts Python is in the framework lock.        *)
(***************************************************************************)

\* What follows the count of an object: the call of Python, or the object.
Ends == {<<"unlock">> \o (<<"python">> \o <<"release">>), <<"unlock">> \o <<"made">>}

Early(t) ==
  \/ todo[t] = <<>>
  \/ \E e \in Ends : \/ todo[t] = <<"lock">> \o (<<"addref">> \o e)
                     \/ /\ framework.owner = t
                        /\ \/ python = "down" /\ todo[t] = <<"addref">> \o e
                           \/ python = "starting" /\ todo[t] = <<"pyinit">> \o e

Unstarted ==
  /\ python \in {"down", "starting", "up"}
  /\ python # "up" =>
       /\ objects = 0 /\ \A t \in Threads : Early(t)
       /\ python = "down" => lockCount = 0 /\ ~hasInitialized
       /\ python = "starting" => framework.owner \in Threads /\ At(framework.owner, "pyinit")

LEMMA EndsFacts ==
  ASSUME NEW e \in Ends
  PROVE  /\ e \in Seq(Steps)
         /\ \A x \in Steps : <<x>> \o e \in Seq(Steps) /\ Head(<<x>> \o e) = x /\ Tail(<<x>> \o e) = e
                             /\ <<x>> \o e # <<>>
<1> DEFINE a == <<"python">> \o <<"release">>
<1>1. {"unlock", "python", "release", "made"} \subseteq Steps
  BY DEF Steps
<1>2. <<"release">> \in Seq(Steps) /\ <<"made">> \in Seq(Steps) /\ a \in Seq(Steps)
  BY <1>1
<1> HIDE DEF a
<1>3. <<"unlock">> \o a \in Seq(Steps) /\ <<"unlock">> \o <<"made">> \in Seq(Steps)
  BY <1>1, <1>2
<1>4. e \in Seq(Steps)
  BY <1>3 DEF Ends, a
<1> QED BY <1>1, <1>4, ConsFacts

\* DllGetClassObject's instances, locks of the server, gateways and wrappers are counted first.
LEMMA MakeFacts ==
  /\ \E e \in Ends : CreateInstance = <<"lock">> \o (<<"addref">> \o e)
  /\ \E e \in Ends : Make = <<"lock">> \o (<<"addref">> \o e)
<1>0. {"lock", "addref", "unlock", "made", "python", "release"} \subseteq Steps
  BY DEF Steps
<1>1. CreateInstance = <<"lock">> \o (<<"addref">> \o (<<"unlock">> \o (<<"python">> \o <<"release">>)))
  <2> DEFINE a == <<"python">> \o <<"release">>
  <2>1. CreateInstance = <<"lock", "addref", "unlock">> \o a
    BY DEF CreateInstance, DLLAddRef, DLLReleaseRef
  <2>2. a \in Seq(Steps)
    BY <1>0
  <2> HIDE DEF a
  <2>3. CreateInstance = <<"lock">> \o (<<"addref">> \o (<<"unlock">> \o a))
    BY <1>0, <2>1, <2>2, Unfold3
  <2> QED BY <2>3 DEF a
<1>2. Make = <<"lock">> \o (<<"addref">> \o (<<"unlock">> \o <<"made">>))
  <2>1. <<"made">> \in Seq(Steps)
    BY <1>0
  <2>2. <<"lock", "addref", "unlock">> \o <<"made">>
          = <<"lock">> \o (<<"addref">> \o (<<"unlock">> \o <<"made">>))
    BY <1>0, <2>1, Unfold3
  <2> QED BY <2>2 DEF Make, DLLAddRef
<1> QED BY <1>1, <1>2 DEF Ends

\* The steps that threads take before Python is up.
LEMMA EarlyFacts ==
  ASSUME LockInv, Unstarted, python # "up", NEW t \in Threads, NEW x, At(t, x)
  PROVE  \E e \in Ends :
           \/ x = "lock" /\ todo[t] = <<"lock">> \o (<<"addref">> \o e)
           \/ /\ framework.owner = t
              /\ \/ python = "down" /\ x = "addref" /\ todo[t] = <<"addref">> \o e
                 \/ python = "starting" /\ x = "pyinit" /\ todo[t] = <<"pyinit">> \o e
<1>1. todo[t] # <<>> /\ Head(todo[t]) = x /\ Early(t)
  BY DEF At, Unstarted
<1>2. {"lock", "addref", "pyinit"} \subseteq Steps
  BY DEF Steps
<1>3. PICK e \in Ends : \/ todo[t] = <<"lock">> \o (<<"addref">> \o e)
                        \/ /\ framework.owner = t
                           /\ \/ python = "down" /\ todo[t] = <<"addref">> \o e
                              \/ python = "starting" /\ todo[t] = <<"pyinit">> \o e
  BY <1>1 DEF Early
<1>4. e \in Seq(Steps) /\ Head(<<"addref">> \o e) = "addref" /\ Head(<<"pyinit">> \o e) = "pyinit"
      /\ <<"addref">> \o e \in Seq(Steps)
  BY <1>2, EndsFacts
<1>5. Head(<<"lock">> \o (<<"addref">> \o e)) = "lock"
  BY <1>2, <1>4, ConsFacts
<1> QED BY <1>1, <1>3, <1>4, <1>5

\* One thread moves before Python is up; the others are as early as they were.
LEMMA EarlyMoves ==
  ASSUME LockInv, NEW t \in Threads, NEW s, todo' = [todo EXCEPT ![t] = s],
         \A u \in Threads \ {t} : Early(u) /\ (framework.owner = u => framework'.owner = u),
         \A u \in Threads \ {t} : framework.owner = u => python' = python,
         Early(t)'
  PROVE  \A u \in Threads : Early(u)'
<1>1. ASSUME NEW u \in Threads \ {t} PROVE Early(u)'
  <2>1. todo'[u] = todo[u]
    BY DEF LockInv
  <2> QED BY <2>1 DEF Early
<1> QED BY <1>1

LEMMA UnstartedStep == LockInv /\ Unstarted /\ [Next]_vars => Unstarted'
<1> SUFFICES ASSUME LockInv, Unstarted, [Next]_vars PROVE Unstarted'
  OBVIOUS
<1>1. CASE UNCHANGED vars
  BY <1>1 DEF vars, locks, counted, Unstarted, Early, At
<1>2. ASSUME NEW t \in Threads, Step(t) \/ Call(t), python = "up" PROVE python' = "up"
  BY <1>2 DEF Step, Call, EnterFramework, LeaveFramework, EnterPython, GiveUpGil, TakeGil, CountUp,
     PythonIsUp, ObjectIsMade, CountDown, InitializeCom, InitializeFails, FailureIsReported,
     UninitializeCom, ComIsUndone, Body, ReturnFromPython, Import, MakeObject, DropObject,
     CallCoInitialize, CallCoUninitialize, CallCreateInstance, CallPython, ReleaseGateway,
     CallLockServer, HostInitializes, HostUninitializes, ThreadEnds, locks
<1>3. ASSUME NEW t \in Threads, Step(t), python # "up" PROVE Unstarted'
  <2>0. PICK x \in Steps : At(t, x)
    BY <1>3, HeadFacts DEF Step, EnterFramework, LeaveFramework, EnterPython, GiveUpGil, TakeGil, CountUp,
       PythonIsUp, ObjectIsMade, CountDown, InitializeCom, InitializeFails, FailureIsReported,
       UninitializeCom, ComIsUndone, Body, ReturnFromPython, Import, MakeObject, DropObject,
       CallCoInitialize, CallCoUninitialize, Steps
  <2>1. PICK e \in Ends :
           \/ x = "lock" /\ todo[t] = <<"lock">> \o (<<"addref">> \o e)
           \/ /\ framework.owner = t
              /\ \/ python = "down" /\ x = "addref" /\ todo[t] = <<"addref">> \o e
                 \/ python = "starting" /\ x = "pyinit" /\ todo[t] = <<"pyinit">> \o e
    BY <1>3, <2>0, EarlyFacts
  <2>2. \A y : At(t, y) => y = x
    BY <2>0 DEF At
  <2>3. {"lock", "addref", "pyinit"} \subseteq Steps
    BY DEF Steps
  <2>4. /\ e \in Seq(Steps) /\ <<"addref">> \o e \in Seq(Steps) /\ <<"pyinit">> \o e \in Seq(Steps)
        /\ Tail(<<"addref">> \o e) = e /\ Tail(<<"pyinit">> \o e) = e
        /\ Head(<<"pyinit">> \o e) = "pyinit" /\ <<"pyinit">> \o e # <<>>
    BY <2>3, EndsFacts
  <2>5. Tail(<<"lock">> \o (<<"addref">> \o e)) = <<"addref">> \o e
    BY <2>3, <2>4, ConsFacts
  <2>6. x \in {"lock", "addref", "pyinit"} /\ x \notin Requests
    BY <2>1 DEF Requests, Modes
  <2>7. EnterFramework(t) \/ CountUp(t) \/ PythonIsUp(t)
    BY <1>3, <2>2, <2>6 DEF Step, LeaveFramework, EnterPython, GiveUpGil, TakeGil,
       ObjectIsMade, CountDown, InitializeCom, InitializeFails, FailureIsReported,
       UninitializeCom, ComIsUndone, Body, ReturnFromPython, Import, MakeObject, DropObject,
       CallCoInitialize, CallCoUninitialize
  <2>8. CASE EnterFramework(t)
    <3>1. /\ x = "lock" /\ framework.owner \in {None, t} /\ framework'.owner = t
          /\ UNCHANGED <<python, counted>> /\ Then(t, <<>>)
      BY <2>2, <2>8 DEF EnterFramework
    <3>2. python = "down"
      <4>1. python = "starting" => t = framework.owner /\ At(t, "pyinit")
        BY <1>3, <3>1, ThreadsAssumption DEF Unstarted
      <4> QED BY <1>3, <2>2, <3>1, <4>1 DEF Unstarted
    <3>3. todo' = [todo EXCEPT ![t] = <<"addref">> \o e]
      <4>0. Tail(todo[t]) = <<"addref">> \o e
        BY <2>1, <2>5, <3>1
      <4>1. todo' = [todo EXCEPT ![t] = <<>> \o (<<"addref">> \o e)]
        BY <3>1, <4>0, ThenFacts
      <4> QED BY <2>4, <4>1
    <3>4. Early(t)'
      BY <3>1, <3>2, <3>3 DEF Early, LockInv
    <3>5. \A u \in Threads : Early(u)'
      BY <1>3, <3>1, <3>3, <3>4, EarlyMoves, ThreadsAssumption DEF Unstarted
    <3> QED BY <1>3, <3>1, <3>2, <3>5 DEF Unstarted, counted
  <2>9. CASE CountUp(t)
    <3>1. x = "addref" /\ framework.owner = t /\ python = "down" /\ todo[t] = <<"addref">> \o e
      BY <2>1, <2>2, <2>9 DEF CountUp
    <3>2. lockCount = 0 /\ ~hasInitialized
      BY <1>3, <3>1 DEF Unstarted
    <3>3. /\ python' = "starting" /\ Then(t, <<"pyinit">>) /\ UNCHANGED <<framework, objects>>
      BY <2>9, <3>1, <3>2 DEF CountUp
    <3>4. todo' = [todo EXCEPT ![t] = <<"pyinit">> \o e]
      BY <2>4, <3>1, <3>3, ThenFacts
    <3>5. Early(t)' /\ At(t, "pyinit")'
      BY <2>4, <3>1, <3>3, <3>4 DEF Early, At, LockInv
    <3>6. \A u \in Threads : Early(u)'
      BY <1>3, <3>1, <3>3, <3>4, <3>5, EarlyMoves DEF Unstarted
    <3> QED BY <1>3, <3>1, <3>3, <3>5, <3>6 DEF Unstarted, At
  <2>10. CASE PythonIsUp(t)
    BY <2>10 DEF PythonIsUp, Unstarted
  <2> QED BY <2>7, <2>8, <2>9, <2>10
<1>4. ASSUME NEW t \in Threads, Call(t), python # "up" PROVE Unstarted'
  <2>1. objects = 0 /\ (\A u \in Threads : Early(u))
    BY <1>4 DEF Unstarted
  <2>2. /\ UNCHANGED <<framework, python, objects, lockCount, hasInitialized>>
        /\ \/ todo' = todo \/ Begin(t, CreateInstance) \/ Begin(t, Make)
    BY <1>4, <2>1 DEF Call, CallCreateInstance, CallPython, ReleaseGateway, CallLockServer,
       HostInitializes, HostUninitializes, ThreadEnds, locks, counted
  <2>3. CASE todo' = todo
    BY <2>2, <2>3 DEF Unstarted, Early, At
  <2>4. CASE Begin(t, CreateInstance) \/ Begin(t, Make)
    <3>1. PICK e \in Ends : /\ Idle(t)
                            /\ todo' = [todo EXCEPT ![t] = <<"lock">> \o (<<"addref">> \o e)]
      BY <2>4, MakeFacts DEF Begin
    <3>2. Early(t)'
      BY <3>1 DEF Early, LockInv
    <3>3. \A u \in Threads : Early(u)'
      BY <2>1, <2>2, <3>1, <3>2, EarlyMoves
    <3>4. python = "starting" => At(framework.owner, "pyinit")'
      <4>1. python = "starting" => At(framework.owner, "pyinit") /\ framework.owner \in Threads
        BY <1>4 DEF Unstarted
      <4>2. python = "starting" => framework.owner # t
        BY <3>1, <4>1 DEF At, Idle
      <4> QED BY <2>2, <3>1, <4>1, <4>2 DEF At, LockInv
    <3> QED BY <1>4, <2>1, <2>2, <3>3, <3>4 DEF Unstarted
  <2> QED BY <2>2, <2>3, <2>4
<1> QED BY <1>1, <1>2, <1>3, <1>4 DEF Next, Unstarted

\* PyCom_DLLAddRef: whoever calls Python finds it initialized, whichever thread of a host
\* made the first object.
THEOREM SpecUpBeforeUse == Spec => []UpBeforeUse
<1>1. Init => Unstarted
  BY DEF Init, Unstarted, Early
<1>2. LockInv /\ Unstarted => UpBeforeUse
  <2> SUFFICES ASSUME LockInv, Unstarted, NEW t \in Threads, At(t, "python") PROVE python = "up"
    BY DEF UpBeforeUse
  <2> QED BY EarlyFacts
<1> QED BY <1>1, <1>2, LockAlways, UnstartedStep, PTL DEF Spec
----------------------------------------------------------------------------
(***************************************************************************)
(* The apartments: a thread has entered its apartment at least as often as *)
(* its host and Python have to leave it, until Python has undone one that  *)
(* was not its own, which the flag does not let happen on the first thread.*)
(***************************************************************************)
Has(s, y) == \E j \in 1 .. Len(s) : s[j] = y

ComTypes ==
  /\ initThread \in Threads \cup {None} /\ hasInit \in BOOLEAN /\ sameThread \in BOOLEAN
  /\ ole \in [Threads -> [mode : Modes \cup {"none"}, count : Nat]]
  /\ host \in [Threads -> Nat] /\ mine \in [Threads -> Nat] /\ overdrawn \in SUBSET Threads
  /\ ready \in [Threads -> {"no", "borrowed", "entered"}]

\* The first thread has not left for ever what the flag says that it entered.
Flagged(t) == initThread = t /\ hasInit /\ sameThread =>
                mine[t] > 0 \/ (Has(todo[t], "undone") /\ (ole[t].count = 0 \/ At(t, "undone")))

Counted(t) == t \notin overdrawn => ole[t].count >= host[t] + mine[t]

Entered(t) == ready[t] = "entered" => Stale(t) \/ Undoing(t) \/ mine[t] > 0

Sound(t) == Flagged(t) /\ Counted(t) /\ Entered(t)

ComInv == /\ ComTypes
          /\ initThread = None => ~hasInit /\ sameThread
          /\ \A t \in Threads : Sound(t)

LEMMA HasCons ==
  ASSUME NEW x \in Steps, NEW s \in Seq(Steps), NEW y
  PROVE  Has(<<x>> \o s, y) <=> x = y \/ Has(s, y)
<1> DEFINE v == <<x>> \o s
<1>1. /\ Len(v) = Len(s) + 1 /\ v[1] = x /\ Len(s) \in Nat
      /\ \A k \in 1 .. Len(s) : v[k + 1] = s[k]
      /\ \A k \in 2 .. Len(s) + 1 : v[k] = s[k - 1]
  BY ConsFacts
<1> HIDE DEF v
<1>2. ASSUME NEW j \in 1 .. Len(v), v[j] = y PROVE x = y \/ Has(s, y)
  <2>1. CASE j = 1
    BY <1>1, <1>2, <2>1
  <2>2. CASE j # 1
    <3>1. j - 1 \in 1 .. Len(s) /\ v[j] = s[j - 1]
      BY <1>1, <2>2
    <3> QED BY <1>2, <3>1 DEF Has
  <2> QED BY <2>1, <2>2
<1>3. ASSUME NEW j \in 1 .. Len(s), s[j] = y PROVE Has(v, y)
  <2>1. j + 1 \in 1 .. Len(v) /\ v[j + 1] = s[j]
    BY <1>1
  <2> QED BY <1>3, <2>1 DEF Has
<1>4. x = y => Has(v, y)
  <2>1. 1 \in 1 .. Len(v)
    BY <1>1
  <2> QED BY <1>1, <2>1 DEF Has
<1> QED BY <1>2, <1>3, <1>4 DEF Has, v

\* What was put before the rest does not take ole32 from it.
LEMMA HasRest ==
  ASSUME NEW w \in Seq(Steps), NEW s \in Seq(Steps), NEW y, Has(s, y)
  PROVE  Has(w \o s, y)
<1>1. PICK j \in 1 .. Len(s) : s[j] = y
  BY DEF Has
<1>2. Len(w) + j \in 1 .. Len(w \o s) /\ (w \o s)[Len(w) + j] = s[j]
  OBVIOUS
<1> QED BY <1>1, <1>2 DEF Has

LEMMA HasEither ==
  ASSUME NEW s \in Seq(Steps)
  PROVE  (\E i \in DOMAIN s : s[i] \in {"undone", "left"}) <=> Has(s, "undone") \/ Has(s, "left")
<1>1. DOMAIN s = 1 .. Len(s)
  OBVIOUS
<1> QED BY <1>1 DEF Has

LEMMA UndoingFacts ==
  ASSUME NEW t \in Threads, todo[t] \in Seq(Steps)
  PROVE  Undoing(t) <=> Has(todo[t], "undone") \/ Has(todo[t], "left")
BY HasEither DEF Undoing

\* A thread that does not move, of which COM is told nothing.
LEMMA NotConcerned ==
  ASSUME NEW u \in Threads, Sound(u), todo'[u] = todo[u],
         ole'[u] = ole[u], host'[u] = host[u], mine'[u] = mine[u], ready'[u] = ready[u],
         u \in overdrawn' <=> u \in overdrawn,
         initThread' = u <=> initThread = u,
         initThread = u => sameThread' = sameThread /\ (hasInit' => hasInit)
  PROVE  Sound(u)'
<1>1. (Stale(u)' <=> Stale(u)) /\ (Undoing(u)' <=> Undoing(u)) /\ (At(u, "undone")' <=> At(u, "undone"))
  BY DEF Stale, Undoing, At
<1>2. Flagged(u)'
  BY <1>1 DEF Sound, Flagged
<1>3. Counted(u)'
  BY DEF Sound, Counted
<1>4. Entered(u)'
  BY <1>1 DEF Sound, Entered
<1> QED BY <1>2, <1>3, <1>4 DEF Sound

\* A thread moves, and nothing changes for COM.
LEMMA NothingForCom ==
  ASSUME LockInv, ComInv, NEW t \in Threads, NEW s \in Seq(Steps), todo' = [todo EXCEPT ![t] = s],
         UNCHANGED com, ~At(t, "undone"), Has(todo[t], "undone") => Has(s, "undone"),
         Has(todo[t], "left") => Has(s, "left")
  PROVE  ComInv'
<1>1. ComTypes' /\ (initThread' = None => ~hasInit' /\ sameThread')
  BY DEF ComInv, ComTypes, com
<1>2. ASSUME NEW u \in Threads \ {t} PROVE Sound(u)'
  <2>1. todo'[u] = todo[u]
    BY DEF LockInv
  <2> QED BY <2>1, NotConcerned DEF com, ComInv
<1>3. todo'[t] = s
  BY DEF LockInv
<1>4. Sound(t) /\ (Stale(t)' <=> Stale(t))
  BY DEF ComInv, Stale, com
<1>5. Flagged(t)'
  BY <1>3, <1>4 DEF Sound, Flagged, com
<1>6. Counted(t)'
  BY <1>4 DEF Sound, Counted, com
<1>7. Undoing(t) => Undoing(t)'
  <2>1. todo[t] \in Seq(Steps)
    BY HeldTypes
  <2> QED BY <1>3, <2>1, HasEither DEF Undoing
<1>8. Entered(t)'
  BY <1>4, <1>7 DEF Sound, Entered, com
<1> QED BY <1>1, <1>2, <1>5, <1>6, <1>8 DEF ComInv, Sound

LEMMA ThenForCom ==
  ASSUME LockInv, ComInv, NEW t \in Threads, NEW x, At(t, x), x \notin {"undone", "left"},
         NEW w \in Seq(Steps), Then(t, w), UNCHANGED com
  PROVE  ComInv'
<1> DEFINE r == Tail(todo[t])
<1>1. todo' = [todo EXCEPT ![t] = w \o r]
  BY ThenFacts
<1>2. ~At(t, "undone")
  BY DEF At
<1>3. x \in Steps /\ todo[t] = <<x>> \o r /\ r \in Seq(Steps)
  BY HeadFacts
<1> HIDE DEF r
<1>4. ASSUME NEW y \in {"undone", "left"}, Has(todo[t], y) PROVE Has(w \o r, y)
  <2>1. Has(r, y)
    BY <1>3, <1>4, HasCons
  <2> QED BY <1>3, <2>1, HasRest
<1>5. w \o r \in Seq(Steps)
  BY <1>3
<1> QED BY <1>1, <1>2, <1>4, <1>5, NothingForCom

\* The steps that take and give back locks, and those that COM does not see.
LEMMA ComUntouched ==
  ASSUME LockInv, ComInv, NEW t \in Threads,
         \/ EnterFramework(t) \/ LeaveFramework(t) \/ EnterPython(t) \/ GiveUpGil(t) \/ TakeGil(t)
         \/ CountUp(t) \/ PythonIsUp(t) \/ ObjectIsMade(t) \/ CountDown(t)
         \/ InitializeFails(t) \/ FailureIsReported(t)
  PROVE  ComInv'
<1>1. ASSUME NEW x, At(t, x), x \notin {"undone", "left"}, NEW w \in Seq(Steps), Then(t, w), UNCHANGED com
      PROVE  ComInv'
  BY <1>1, ThenForCom
<1>2. /\ <<>> \in Seq(Steps) /\ <<"body">> \in Seq(Steps) /\ <<"body", "leave">> \in Seq(Steps)
      /\ <<"pyinit">> \in Seq(Steps) /\ <<"python", "failed">> \in Seq(Steps)
  BY DEF Steps
<1>3. UNCHANGED com
  BY DEF EnterFramework, LeaveFramework, EnterPython, GiveUpGil, TakeGil, CountUp, PythonIsUp, ObjectIsMade,
     CountDown, InitializeFails, FailureIsReported
<1>4. CASE \/ EnterFramework(t) \/ LeaveFramework(t) \/ GiveUpGil(t) \/ TakeGil(t) \/ PythonIsUp(t)
           \/ ObjectIsMade(t) \/ CountDown(t) \/ FailureIsReported(t)
  <2>1. /\ Then(t, <<>>)
        /\ \E x \in {"lock", "unlock", "leave", "save", "restore", "pyinit", "made", "release", "failed"} :
             At(t, x)
    BY <1>4 DEF EnterFramework, LeaveFramework, GiveUpGil, TakeGil, PythonIsUp, ObjectIsMade, CountDown,
       FailureIsReported
  <2> QED BY <1>1, <1>2, <1>3, <2>1
<1>5. CASE EnterPython(t)
  <2>1. At(t, "python") /\ (Then(t, <<"body">>) \/ Then(t, <<"body", "leave">>))
    BY <1>5 DEF EnterPython
  <2> QED BY <1>1, <1>2, <1>3, <2>1
<1>6. CASE CountUp(t)
  <2>1. At(t, "addref") /\ (Then(t, <<"pyinit">>) \/ Then(t, <<>>))
    BY <1>6 DEF CountUp
  <2> QED BY <1>1, <1>2, <1>3, <2>1
<1>7. CASE InitializeFails(t)
  <2>1. PICK request \in Requests : At(t, request)
    BY <1>7 DEF InitializeFails
  <2>2. Then(t, <<"python", "failed">>) /\ request \notin {"undone", "left"}
    BY <1>7 DEF InitializeFails, Requests, Modes
  <2> QED BY <1>1, <1>2, <1>3, <2>1, <2>2
<1> QED BY <1>4, <1>5, <1>6, <1>7

LEMMA BodyForCom ==
  ASSUME LockInv, ComInv, NEW t \in Threads, Body(t) PROVE ComInv'
<1>1. At(t, "body") /\ UNCHANGED com
  BY DEF Body, ReturnFromPython, Import, MakeObject, DropObject, CallCoInitialize, CallCoUninitialize
<1>2. ASSUME NEW w \in Seq(Steps), Then(t, w) PROVE ComInv'
  BY <1>1, <1>2, ThenForCom
<1>3. CASE ReturnFromPython(t)
  <2>1. <<>> \in Seq(Steps)
    OBVIOUS
  <2> QED BY <1>2, <1>3, <2>1 DEF ReturnFromPython
<1>4. CASE Import(t)
  <2>1. PICK mode \in Modes : Then(t, ImportPythoncom(mode))
    BY <1>4 DEF Import
  <2>2. ImportPythoncom(mode) \in Seq(Steps)
    BY DEF ImportPythoncom, Steps, Requests
  <2> QED BY <1>2, <2>1, <2>2
<1>5. CASE MakeObject(t)
  <2>1. Make \in Seq(Steps)
    BY DEF Make, DLLAddRef, Steps
  <2> QED BY <1>2, <1>5, <2>1 DEF MakeObject
<1>6. CASE DropObject(t)
  <2>1. DeleteWrapper \in Seq(Steps)
    BY DEF DeleteWrapper, DLLReleaseRef, Steps
  <2> QED BY <1>2, <1>6, <2>1 DEF DropObject
<1>7. CASE CallCoInitialize(t)
  <2>1. PICK request \in Requests : Then(t, CoInitialize(request))
    BY <1>7 DEF CallCoInitialize
  <2>2. CoInitialize(request) \in Seq(Steps)
    BY DEF CoInitialize, Steps
  <2> QED BY <1>2, <2>1, <2>2
<1>8. CASE CallCoUninitialize(t)
  <2>1. CoUninitialize \in Seq(Steps)
    BY DEF CoUninitialize, Steps
  <2> QED BY <1>2, <1>8, <2>1 DEF CallCoUninitialize
<1> QED BY <1>3, <1>4, <1>5, <1>6, <1>7, <1>8 DEF Body

LEMMA IdleForCom ==
  ASSUME NEW t \in Threads, Idle(t)
  PROVE  /\ ~Undoing(t) /\ ~At(t, "undone")
         /\ ~Has(todo[t], "undone") /\ ~Has(todo[t], "left")
<1>1. todo[t] = <<>> /\ Len(<<>>) = 0 /\ 1 .. 0 = {} /\ <<>> \in Seq(Steps)
  BY DEF Idle
<1>2. ~Has(todo[t], "undone") /\ ~Has(todo[t], "left")
  BY <1>1 DEF Has
<1> QED BY <1>1, <1>2, UndoingFacts DEF At

LEMMA ComFacts ==
  ASSUME ComInv, NEW t \in Threads
  PROVE  /\ ole[t] \in [mode : Modes \cup {"none"}, count : Nat] /\ ole[t].count \in Nat
         /\ host[t] \in Nat /\ mine[t] \in Nat
         /\ t # None /\ Flagged(t) /\ Counted(t) /\ Entered(t)
BY ThreadsAssumption DEF ComInv, ComTypes, Sound

\* The host initializes and uninitializes COM for itself, and a thread ends.
LEMMA HostForCom ==
  ASSUME LockInv, ComInv, NEW t \in Threads,
         HostInitializes(t) \/ HostUninitializes(t) \/ ThreadEnds(t)
  PROVE  ComInv'
<1>1. Idle(t) /\ todo' = todo
  BY DEF HostInitializes, HostUninitializes, ThreadEnds
<1>2. ~Undoing(t) /\ ~At(t, "undone") /\ ~Has(todo[t], "undone") /\ ~Has(todo[t], "left")
  BY <1>1, IdleForCom
<1>3. ComTypes /\ (initThread = None => ~hasInit /\ sameThread)
  BY DEF ComInv
<1>4. /\ ole[t] \in [mode : Modes \cup {"none"}, count : Nat] /\ ole[t].count \in Nat
      /\ host[t] \in Nat /\ mine[t] \in Nat
      /\ Flagged(t) /\ Counted(t) /\ Entered(t)
  BY ComFacts
<1>5. CASE HostInitializes(t) \/ HostUninitializes(t)
  <2>1. /\ UNCHANGED <<initThread, hasInit, sameThread, mine, overdrawn, ready>>
        /\ \E o \in [mode : Modes \cup {"none"}, count : Nat], h \in Nat :
             /\ ole' = [ole EXCEPT ![t] = o] /\ host' = [host EXCEPT ![t] = h]
             /\ ole[t].count >= host[t] + mine[t] => o.count >= h + mine[t]
    <3>1. CASE HostInitializes(t)
      <4>1. PICK mode \in Modes : ~ChangedMode(t, mode) /\ ole' = OleInit(t, mode)
        BY <3>1 DEF HostInitializes
      <4> DEFINE o == [mode |-> mode, count |-> ole[t].count + 1]
      <4>2. o \in [mode : Modes \cup {"none"}, count : Nat] /\ o.count = ole[t].count + 1
        BY <1>4
      <4>3. ole' = [ole EXCEPT ![t] = o]
        BY <4>1 DEF OleInit
      <4>4. host' = [host EXCEPT ![t] = host[t] + 1] /\ host[t] + 1 \in Nat
            /\ UNCHANGED <<initThread, hasInit, sameThread, mine, overdrawn, ready>>
        BY <1>4, <3>1 DEF HostInitializes
      <4> HIDE DEF o
      <4>5. ole[t].count >= host[t] + mine[t] => o.count >= (host[t] + 1) + mine[t]
        BY <1>4, <4>2
      <4> QED BY <4>2, <4>3, <4>4, <4>5
    <3>2. CASE HostUninitializes(t)
      <4> DEFINE o == IF ole[t].count =< 1 THEN Outside
                      ELSE [mode |-> ole[t].mode, count |-> ole[t].count - 1]
      <4>1. /\ o \in [mode : Modes \cup {"none"}, count : Nat]
            /\ o.count = IF ole[t].count =< 1 THEN 0 ELSE ole[t].count - 1
        BY <1>4 DEF Outside
      <4>2. ole' = [ole EXCEPT ![t] = o]
        BY <3>2 DEF HostUninitializes, OleUninit
      <4>3. host' = [host EXCEPT ![t] = host[t] - 1] /\ host[t] - 1 \in Nat
            /\ UNCHANGED <<initThread, hasInit, sameThread, mine, overdrawn, ready>>
        BY <1>4, <3>2 DEF HostUninitializes
      <4> HIDE DEF o
      <4>4. ole[t].count >= host[t] + mine[t] => o.count >= (host[t] - 1) + mine[t]
        BY <1>4, <4>1, <4>3
      <4> QED BY <4>1, <4>2, <4>3, <4>4
    <3> QED BY <1>5, <3>1, <3>2
  <2>2. PICK o \in [mode : Modes \cup {"none"}, count : Nat], h \in Nat :
             /\ ole' = [ole EXCEPT ![t] = o] /\ host' = [host EXCEPT ![t] = h]
             /\ ole[t].count >= host[t] + mine[t] => o.count >= h + mine[t]
    BY <2>1
  <2>3. ComTypes' /\ (initThread' = None => ~hasInit' /\ sameThread')
    BY <1>3, <2>1, <2>2 DEF ComTypes
  <2>4. ASSUME NEW u \in Threads \ {t} PROVE Sound(u)'
    <3>1. todo'[u] = todo[u] /\ ole'[u] = ole[u] /\ host'[u] = host[u]
      BY <1>1, <1>3, <2>2 DEF ComTypes
    <3> QED BY <2>1, <3>1, NotConcerned DEF ComInv
  <2>5. ole'[t].count = o.count /\ host'[t] = h
    BY <1>3, <2>2 DEF ComTypes
  <2>6. Flagged(t)'
    BY <1>2, <1>4, <2>1 DEF Flagged
  <2>7. Counted(t)'
    BY <1>4, <2>1, <2>2, <2>5 DEF Counted
  <2>8. Entered(t)'
    BY <1>1, <1>4, <2>1 DEF Entered, Stale, Undoing
  <2> QED BY <2>3, <2>4, <2>6, <2>7, <2>8 DEF ComInv, Sound
<1>6. CASE ThreadEnds(t)
  <2>1. /\ ole' = [ole EXCEPT ![t] = Outside] /\ host' = [host EXCEPT ![t] = 0]
        /\ mine' = [mine EXCEPT ![t] = 0] /\ ready' = [ready EXCEPT ![t] = "no"]
        /\ overdrawn' = overdrawn \ {t}
        /\ sameThread' = (sameThread /\ initThread # t) /\ UNCHANGED <<initThread, hasInit>>
    BY <1>6 DEF ThreadEnds, Told
  <2>2. ComTypes'
    BY <1>3, <2>1 DEF ComTypes, Outside
  <2>3. initThread' = None => ~hasInit' /\ sameThread'
    BY <1>3, <2>1, ThreadsAssumption
  <2>4. ASSUME NEW u \in Threads \ {t} PROVE Sound(u)'
    <3>1. /\ todo'[u] = todo[u] /\ ole'[u] = ole[u] /\ host'[u] = host[u] /\ mine'[u] = mine[u]
          /\ ready'[u] = ready[u]
      BY <1>1, <1>3, <2>1 DEF ComTypes
    <3>2. (initThread = u => sameThread' = sameThread) /\ (u \in overdrawn' <=> u \in overdrawn)
      BY <1>3, <2>1 DEF ComTypes
    <3> QED BY <2>1, <3>1, <3>2, NotConcerned DEF ComInv
  <2>5. ole'[t].count = 0 /\ host'[t] = 0 /\ mine'[t] = 0 /\ ready'[t] = "no"
    BY <1>3, <2>1 DEF ComTypes, Outside
  <2>6. Flagged(t)'
    BY <2>1 DEF Flagged
  <2>7. Counted(t)' /\ Entered(t)'
    BY <2>5 DEF Counted, Entered
  <2> QED BY <2>2, <2>3, <2>4, <2>6, <2>7 DEF ComInv, Sound
<1> QED BY <1>5, <1>6

LEMMA CallForCom ==
  ASSUME LockInv, ComInv, NEW t \in Threads, Call(t) PROVE ComInv'
<1>1. CASE HostInitializes(t) \/ HostUninitializes(t) \/ ThreadEnds(t)
  BY <1>1, HostForCom
<1>2. CASE CallCreateInstance(t) \/ CallPython(t) \/ ReleaseGateway(t) \/ CallLockServer(t)
  <2>1. UNCHANGED com
    BY <1>2 DEF CallCreateInstance, CallPython, ReleaseGateway, CallLockServer
  <2>2. PICK w \in {CreateInstance, <<"python">>, DeleteGateway, Make, DLLReleaseRef} : Begin(t, w)
    BY <1>2 DEF CallCreateInstance, CallPython, ReleaseGateway, CallLockServer
  <2>3. Idle(t) /\ todo' = [todo EXCEPT ![t] = w]
    BY <2>2 DEF Begin
  <2>4. w \in Seq(Steps)
    <3>1. {"lock", "addref", "unlock", "made", "python", "release"} \subseteq Steps
      BY DEF Steps
    <3>2. /\ DLLAddRef \in Seq(Steps) /\ DLLReleaseRef \in Seq(Steps)
          /\ <<"made">> \in Seq(Steps) /\ <<"python">> \in Seq(Steps)
      BY <3>1 DEF DLLAddRef, DLLReleaseRef
    <3>3. /\ DLLAddRef \o <<"made">> \in Seq(Steps)
          /\ <<"python">> \o DLLReleaseRef \in Seq(Steps)
          /\ (DLLAddRef \o <<"python">>) \o DLLReleaseRef \in Seq(Steps)
      BY <3>2
    <3> QED BY <2>2, <3>2, <3>3 DEF CreateInstance, DeleteGateway, Make
  <2> HIDE <2>2
  <2> QED BY <2>1, <2>3, <2>4, IdleForCom, NothingForCom
<1> QED BY <1>1, <1>2 DEF Call

\* The rest r of what a thread does, after a step that COM sees.
LEMMA ComMoves ==
  ASSUME LockInv, NEW t \in Threads, NEW x, At(t, x), x \notin {"lock", "save"},
         NEW w \in Seq(Steps), Then(t, w), NEW r, r = Tail(todo[t])
  PROVE  /\ x \in Steps /\ r \in Seq(Steps) /\ todo[t] = <<x>> \o r
         /\ todo'[t] = w \o r /\ w \o r \in Seq(Steps)
         /\ \A u \in Threads \ {t} : todo'[u] = todo[u]
<1>1. x \in Steps /\ r \in Seq(Steps) /\ todo[t] = <<x>> \o r
  BY HeadFacts
<1>2. todo' = [todo EXCEPT ![t] = w \o r]
  BY ThenFacts
<1> QED BY <1>1, <1>2 DEF LockInv

\* PyCom_CoInitializeEx and PyCom_CoInitialize.
LEMMA InitializeForCom ==
  ASSUME LockInv, ComInv, NEW t \in Threads, InitializeCom(t) PROVE ComInv'
<1> DEFINE r == Tail(todo[t])
<1>1. PICK request \in Requests :
        /\ At(t, request) /\ Then(t, <<>>) /\ UNCHANGED <<host, overdrawn>>
        /\ AlreadyInit(t) \/ AnotherMode(t, request) \/ EnterApartment(t, request)
  BY DEF InitializeCom
<1>2. request \notin {"undone", "left", "lock", "save"} /\ <<>> \in Seq(Steps)
  BY DEF Requests, Modes
<1>3. /\ request \in Steps /\ r \in Seq(Steps) /\ todo[t] = <<request>> \o r
      /\ todo'[t] = <<>> \o r /\ \A u \in Threads \ {t} : todo'[u] = todo[u]
  BY <1>1, <1>2, ComMoves
<1>4. <<>> \o r = r
  BY <1>3
<1> HIDE DEF r
<1>5. /\ ~At(t, "undone")
      /\ Has(todo[t], "undone") <=> Has(todo'[t], "undone")
      /\ Undoing(t)' <=> Undoing(t)
  <2>1. ~At(t, "undone")
    BY <1>1, <1>2 DEF At
  <2>2. ASSUME NEW y \in {"undone", "left"} PROVE Has(todo[t], y) <=> Has(todo'[t], y)
    BY <1>2, <1>3, <1>4, HasCons
  <2>3. Undoing(t)' <=> Has(todo'[t], "undone") \/ Has(todo'[t], "left")
    <3>1. todo'[t] \in Seq(Steps)
      BY <1>3, <1>4
    <3> QED BY <3>1, HasEither DEF Undoing
  <2>4. todo[t] \in Seq(Steps)
    BY HeldTypes
  <2> QED BY <2>1, <2>2, <2>3, <2>4, UndoingFacts
<1>6. /\ ole[t] \in [mode : Modes \cup {"none"}, count : Nat] /\ ole[t].count \in Nat
      /\ host[t] \in Nat /\ mine[t] \in Nat /\ t # None
      /\ Flagged(t) /\ Counted(t) /\ Entered(t)
  BY ComFacts
<1>7. ComTypes /\ (initThread = None => ~hasInit /\ sameThread)
  BY DEF ComInv
<1>8. CASE AlreadyInit(t) \/ AnotherMode(t, request)
  <2>1. /\ UNCHANGED <<initThread, hasInit, sameThread, ole, mine>>
        /\ \E how \in {"no", "borrowed", "entered"} :
             /\ ready' = [ready EXCEPT ![t] = how]
             /\ how = "entered" => ThreadHasInit(t) \/ ready[t] = "entered"
    <3>1. CASE AlreadyInit(t)
      BY <3>1 DEF AlreadyInit, Told
    <3>2. CASE AnotherMode(t, request)
      <4>1. ready = [ready EXCEPT ![t] = ready[t]] /\ ready[t] \in {"no", "borrowed", "entered"}
        BY <1>7 DEF ComTypes
      <4> QED BY <3>2, <4>1 DEF AnotherMode, Told
    <3> QED BY <1>8, <3>1, <3>2
  <2>2. PICK how \in {"no", "borrowed", "entered"} :
             /\ ready' = [ready EXCEPT ![t] = how]
             /\ how = "entered" => ThreadHasInit(t) \/ ready[t] = "entered"
    BY <2>1
  <2>3. ComTypes' /\ (initThread' = None => ~hasInit' /\ sameThread')
    BY <1>1, <1>7, <2>1, <2>2 DEF ComTypes
  <2>4. ready'[t] = how /\ \A u \in Threads \ {t} : ready'[u] = ready[u]
    BY <1>7, <2>2 DEF ComTypes
  <2>5. ASSUME NEW u \in Threads \ {t} PROVE Sound(u)'
    BY <1>1, <1>3, <2>1, <2>4, NotConcerned DEF ComInv
  <2>6. Flagged(t)'
    BY <1>5, <1>6, <2>1 DEF Flagged
  <2>7. Counted(t)'
    BY <1>1, <1>6, <2>1 DEF Counted
  <2>8. Entered(t)'
    <3>1. (Stale(t)' <=> Stale(t)) /\ mine' = mine
      BY <2>1 DEF Stale
    <3>2. ThreadHasInit(t) => Stale(t) \/ mine[t] > 0 \/ Undoing(t)
      BY <1>6, HeldTypes, UndoingFacts DEF ThreadHasInit, Flagged, Stale
    <3> QED BY <1>5, <1>6, <2>2, <2>4, <3>1, <3>2 DEF Entered
  <2> QED BY <2>3, <2>5, <2>6, <2>7, <2>8 DEF ComInv, Sound
<1>9. CASE EnterApartment(t, request)
  <2> DEFINE o == [mode |-> ModeOf(request), count |-> ole[t].count + 1]
  <2>1. /\ ole' = [ole EXCEPT ![t] = o] /\ mine' = [mine EXCEPT ![t] = mine[t] + 1]
        /\ ready' = [ready EXCEPT ![t] = "entered"]
        /\ \/ /\ initThread = None /\ initThread' = t /\ hasInit' = TRUE /\ sameThread' = TRUE
           \/ UNCHANGED <<initThread, hasInit, sameThread>>
    BY <1>9 DEF EnterApartment, OleInit, Told
  <2>2. o \in [mode : Modes \cup {"none"}, count : Nat] /\ o.count = ole[t].count + 1
    BY <1>6 DEF ModeOf, Requests, Modes
  <2> HIDE DEF o
  <2>3. ComTypes'
    <3>1. ole' \in [Threads -> [mode : Modes \cup {"none"}, count : Nat]]
      BY <1>7, <2>1, <2>2 DEF ComTypes
    <3>2. mine' \in [Threads -> Nat] /\ host' \in [Threads -> Nat] /\ overdrawn' \in SUBSET Threads
      BY <1>1, <1>6, <1>7, <2>1 DEF ComTypes
    <3>3. initThread' \in Threads \cup {None} /\ hasInit' \in BOOLEAN /\ sameThread' \in BOOLEAN
          /\ ready' \in [Threads -> {"no", "borrowed", "entered"}]
      BY <1>7, <2>1 DEF ComTypes
    <3> QED BY <3>1, <3>2, <3>3 DEF ComTypes
  <2>4. initThread' = None => ~hasInit' /\ sameThread'
    BY <1>6, <1>7, <2>1
  <2>5. /\ ole'[t].count = ole[t].count + 1 /\ mine'[t] = mine[t] + 1 /\ host'[t] = host[t]
        /\ \A u \in Threads \ {t} : ole'[u] = ole[u] /\ mine'[u] = mine[u] /\ ready'[u] = ready[u]
    BY <1>1, <1>7, <2>1, <2>2 DEF ComTypes
  <2>6. ASSUME NEW u \in Threads \ {t} PROVE Sound(u)'
    <3>1. initThread' = u <=> initThread = u
      BY <1>6, <2>1, ThreadsAssumption
    <3>2. initThread = u => sameThread' = sameThread /\ (hasInit' => hasInit)
      BY <2>1, ThreadsAssumption
    <3> QED BY <1>1, <1>3, <2>5, <3>1, <3>2, NotConcerned DEF ComInv
  <2>7. mine'[t] > 0
    BY <1>6, <2>5
  <2>8. Flagged(t)' /\ Entered(t)'
    BY <2>7 DEF Flagged, Entered
  <2>9. Counted(t)'
    BY <1>1, <1>6, <2>5 DEF Counted
  <2> QED BY <2>3, <2>4, <2>6, <2>8, <2>9 DEF ComInv, Sound
<1> QED BY <1>1, <1>8, <1>9

\* What PyCom_CoUninitialize undoes.
LEMMA UninitializeFacts ==
  ASSUME ComInv, NEW t \in Threads, UninitializeCom(t), ~(initThread = t /\ ~hasInit)
  PROVE  \E o \in [mode : Modes \cup {"none"}, count : Nat], n \in Nat :
           /\ ole' = [ole EXCEPT ![t] = o]
           /\ o.count = IF ole[t].count =< 1 THEN 0 ELSE ole[t].count - 1
           /\ mine' = [mine EXCEPT ![t] = n]
           /\ n = IF mine[t] = 0 THEN 0 ELSE mine[t] - 1
<1> DEFINE o == IF ole[t].count =< 1 THEN Outside
                ELSE [mode |-> ole[t].mode, count |-> ole[t].count - 1]
           n == IF mine[t] = 0 THEN 0 ELSE mine[t] - 1
<1>1. /\ ole[t] \in [mode : Modes \cup {"none"}, count : Nat] /\ ole[t].count \in Nat
      /\ mine[t] \in Nat
  BY ComFacts
<1>2. /\ o \in [mode : Modes \cup {"none"}, count : Nat]
      /\ o.count = IF ole[t].count =< 1 THEN 0 ELSE ole[t].count - 1
      /\ n \in Nat
  BY <1>1 DEF Outside
<1>3. ole' = [ole EXCEPT ![t] = o] /\ mine' = [mine EXCEPT ![t] = n]
  BY DEF UninitializeCom, OleUninit
<1> HIDE DEF o
<1> QED BY <1>2, <1>3

\* PyCom_CoUninitialize calls ole32, or leaves its first thread alone.
LEMMA UninitializeForCom ==
  ASSUME LockInv, ComInv, NEW t \in Threads, UninitializeCom(t) PROVE ComInv'
<1> DEFINE r == Tail(todo[t])
<1>1. /\ At(t, "uninit") /\ ready' = [ready EXCEPT ![t] = "no"]
      /\ UNCHANGED <<initThread, hasInit, sameThread, host>>
  BY DEF UninitializeCom, Told
<1>2. "uninit" \notin {"lock", "save"}
  OBVIOUS
<1>3. ASSUME NEW w \in Seq(Steps), Then(t, w)
      PROVE  /\ r \in Seq(Steps) /\ todo[t] = <<"uninit">> \o r
             /\ todo'[t] = w \o r /\ \A u \in Threads \ {t} : todo'[u] = todo[u]
  BY <1>1, <1>2, <1>3, ComMoves
<1> HIDE DEF r
<1>4. /\ ole[t].count \in Nat /\ host[t] \in Nat /\ mine[t] \in Nat /\ t # None
      /\ Flagged(t) /\ Counted(t) /\ Entered(t)
  BY ComFacts
<1>5. ComTypes /\ (initThread = None => ~hasInit /\ sameThread)
  BY DEF ComInv
<1>6. /\ ready'[t] = "no" /\ \A u \in Threads \ {t} : ready'[u] = ready[u]
      /\ ready' \in [Threads -> {"no", "borrowed", "entered"}]
  BY <1>1, <1>5 DEF ComTypes
<1>7. Entered(t)'
  BY <1>6 DEF Entered
<1>8. initThread' = None => ~hasInit' /\ sameThread'
  BY <1>1, <1>5
<1>9. CASE initThread = t /\ ~hasInit
  <2>1. Then(t, <<>>) /\ UNCHANGED <<ole, mine, overdrawn>> /\ <<>> \in Seq(Steps)
    BY <1>9 DEF UninitializeCom
  <2>2. \A u \in Threads \ {t} : todo'[u] = todo[u]
    BY <1>3, <2>1
  <2>3. ComTypes'
    BY <1>1, <1>5, <1>6, <2>1 DEF ComTypes
  <2>4. ASSUME NEW u \in Threads \ {t} PROVE Sound(u)'
    BY <1>1, <1>6, <2>1, <2>2, NotConcerned DEF ComInv
  <2>5. Flagged(t)' /\ Counted(t)'
    BY <1>1, <1>4, <1>9, <2>1 DEF Flagged, Counted
  <2> QED BY <1>7, <1>8, <2>3, <2>4, <2>5 DEF ComInv, Sound
<1>10. CASE ~(initThread = t /\ ~hasInit)
  <2>1. PICK o \in [mode : Modes \cup {"none"}, count : Nat], n \in Nat :
           /\ ole' = [ole EXCEPT ![t] = o]
           /\ o.count = IF ole[t].count =< 1 THEN 0 ELSE ole[t].count - 1
           /\ mine' = [mine EXCEPT ![t] = n]
           /\ n = IF mine[t] = 0 THEN 0 ELSE mine[t] - 1
    BY <1>10, UninitializeFacts
  <2>2. /\ overdrawn' = IF mine[t] = 0 /\ ole[t].count > 0 THEN overdrawn \cup {t} ELSE overdrawn
        /\ \E x \in {"undone", "left"} :
             /\ initThread = t => x = "undone"
             /\ Then(t, <<x>>) \/ (ole[t].count = 1 /\ Then(t, DeleteGateway \o <<x>>))
    BY <1>10 DEF UninitializeCom
  <2>3. PICK x \in {"undone", "left"} :
             /\ initThread = t => x = "undone"
             /\ Then(t, <<x>>) \/ (ole[t].count = 1 /\ Then(t, DeleteGateway \o <<x>>))
    BY <2>2
  <2>4. ComTypes'
    BY <1>1, <1>5, <1>6, <2>1, <2>2 DEF ComTypes
  <2>5. /\ ole'[t].count = o.count /\ mine'[t] = n /\ host'[t] = host[t]
        /\ \A u \in Threads \ {t} : ole'[u] = ole[u] /\ mine'[u] = mine[u]
    BY <1>1, <1>5, <2>1 DEF ComTypes
  <2>6. /\ \A u \in Threads \ {t} : todo'[u] = todo[u]
        /\ Has(todo'[t], x)
        /\ ole[t].count # 1 => At(t, x)'
    <3>0. {x, "python", "release"} \subseteq Steps
      BY DEF Steps
    <3> DEFINE a == <<x>> \o r
               b == <<"release">> \o a
    <3>1. CASE Then(t, <<x>>)
      <4>1. <<x>> \in Seq(Steps)
        BY <3>0
      <4>2. r \in Seq(Steps) /\ todo'[t] = a /\ (\A u \in Threads \ {t} : todo'[u] = todo[u])
        BY <1>3, <3>1, <4>1
      <4>3. Has(a, x) /\ a # <<>> /\ Head(a) = x
        BY <3>0, <4>2, ConsFacts, HasCons
      <4> HIDE DEF a
      <4> QED BY <4>2, <4>3 DEF At
    <3>2. CASE ole[t].count = 1 /\ Then(t, DeleteGateway \o <<x>>)
      <4>1. DeleteGateway \o <<x>> \in Seq(Steps)
        BY <3>0 DEF DeleteGateway, DLLReleaseRef
      <4>2. r \in Seq(Steps) /\ todo'[t] = (DeleteGateway \o <<x>>) \o r
            /\ (\A u \in Threads \ {t} : todo'[u] = todo[u])
        BY <1>3, <3>2, <4>1
      <4>3. (DeleteGateway \o <<x>>) \o r = <<"python">> \o b
        BY <4>2, DisconnectUnfolds
      <4>4. a \in Seq(Steps) /\ Has(a, x)
        BY <3>0, <4>2, ConsFacts, HasCons
      <4> HIDE DEF a
      <4>5. b \in Seq(Steps) /\ Has(b, x)
        BY <3>0, <4>4, ConsFacts, HasCons
      <4> HIDE DEF b
      <4>6. Has(<<"python">> \o b, x)
        BY <3>0, <4>5, HasCons
      <4> QED BY <3>2, <4>2, <4>3, <4>6
    <3> QED BY <2>3, <3>1, <3>2
  <2>7. ASSUME NEW u \in Threads \ {t} PROVE Sound(u)'
    <3>1. u \in overdrawn' <=> u \in overdrawn
      BY <2>2
    <3> QED BY <1>1, <1>6, <2>5, <2>6, <3>1, NotConcerned DEF ComInv
  <2>8. Flagged(t)'
    <3>1. ole'[t].count = 0 \/ At(t, x)'
      BY <1>4, <2>1, <2>5, <2>6
    <3> QED BY <1>1, <2>3, <2>6, <3>1 DEF Flagged
  <2>9. Counted(t)'
    <3> SUFFICES ASSUME t \notin overdrawn' PROVE o.count >= host[t] + n
      BY <2>5 DEF Counted
    <3>1. t \notin overdrawn /\ (mine[t] > 0 \/ ole[t].count = 0)
      BY <1>4, <2>2
    <3> QED BY <1>4, <2>1, <3>1 DEF Counted
  <2> QED BY <1>7, <1>8, <2>4, <2>7, <2>8, <2>9 DEF ComInv, Sound
<1> QED BY <1>9, <1>10

\* ole32 returns to PyCom_CoUninitialize.
LEMMA UndoneForCom ==
  ASSUME LockInv, ComInv, NEW t \in Threads, ComIsUndone(t) PROVE ComInv'
<1> DEFINE r == Tail(todo[t])
<1>1. PICK x \in {"undone", "left"} : At(t, x)
  BY DEF ComIsUndone
<1>2. /\ hasInit' = FALSE \/ (hasInit' = hasInit /\ x = "left")
      /\ ready' = [ready EXCEPT ![t] = "no"] /\ Then(t, <<>>)
      /\ UNCHANGED <<initThread, sameThread, ole, host, mine, overdrawn>>
  BY <1>1 DEF ComIsUndone, FlagAfter, Told, At
<1>3. /\ x \in Steps /\ r \in Seq(Steps) /\ todo[t] = <<x>> \o r
      /\ todo'[t] = <<>> \o r /\ \A u \in Threads \ {t} : todo'[u] = todo[u]
  <2>1. x \in Steps /\ r \in Seq(Steps) /\ todo[t] = <<x>> \o r
    BY <1>1, HeadFacts
  <2>2. todo' = [todo EXCEPT ![t] = <<>> \o r]
    BY <1>2, ThenFacts
  <2> QED BY <2>1, <2>2 DEF LockInv
<1>4. <<>> \o r = r
  BY <1>3
<1> HIDE DEF r
<1>5. Flagged(t) /\ Counted(t) /\ ComTypes /\ (initThread = None => ~hasInit /\ sameThread)
  BY ComFacts DEF ComInv
<1>6. ready'[t] = "no" /\ \A u \in Threads \ {t} : ready'[u] = ready[u]
  BY <1>2, <1>5 DEF ComTypes
<1>7. ComTypes' /\ (initThread' = None => ~hasInit' /\ sameThread')
  <2>1. hasInit' \in BOOLEAN /\ (hasInit' => hasInit)
    <3>1. CASE hasInit' = FALSE
      BY <3>1
    <3>2. CASE hasInit' = hasInit
      BY <1>5, <3>2 DEF ComTypes
    <3> QED BY <1>2, <3>1, <3>2
  <2>2. ready' \in [Threads -> {"no", "borrowed", "entered"}]
    BY <1>2, <1>5 DEF ComTypes
  <2> QED BY <1>2, <1>5, <2>1, <2>2 DEF ComTypes
<1>8. ASSUME NEW u \in Threads \ {t} PROVE Sound(u)'
  BY <1>2, <1>3, <1>6, NotConcerned DEF ComInv
<1>9. Flagged(t)'
  <2>1. CASE hasInit' = FALSE
    BY <2>1 DEF Flagged
  <2>2. CASE hasInit' = hasInit /\ x = "left"
    <3>1. ~At(t, "undone")
      BY <1>1, <2>2 DEF At
    <3>2. Has(todo[t], "undone") => Has(todo'[t], "undone")
      BY <1>3, <1>4, <2>2, HasCons
    <3> QED BY <1>2, <1>5, <2>2, <3>1, <3>2 DEF Flagged
  <2> QED BY <1>2, <2>1, <2>2
<1>10. Counted(t)' /\ Entered(t)'
  BY <1>2, <1>5, <1>6 DEF Counted, Entered
<1> QED BY <1>7, <1>8, <1>9, <1>10 DEF ComInv, Sound

LEMMA ComStep == LockInv /\ ComInv /\ [Next]_vars => ComInv'
<1> SUFFICES ASSUME LockInv, ComInv, [Next]_vars PROVE ComInv'
  OBVIOUS
<1>1. CASE UNCHANGED vars
  BY <1>1 DEF vars, com, ComInv, ComTypes, Sound, Counted, Flagged, Entered, Stale, Undoing, At
<1>2. CASE Next
  BY <1>2, ComUntouched, InitializeForCom, UninitializeForCom, UndoneForCom, BodyForCom, CallForCom
     DEF Next, Step
<1> QED BY <1>1, <1>2

LEMMA ComAlways == Spec => []ComInv
<1>1. Init => ComInv
  <2> SUFFICES ASSUME Init PROVE ComInv
    OBVIOUS
  <2>1. ComTypes /\ initThread = None /\ ~hasInit /\ sameThread
    BY DEF Init, ComTypes, Outside
  <2>2. \A t \in Threads : /\ ole[t].count = 0 /\ host[t] = 0 /\ mine[t] = 0
                           /\ initThread # t /\ ready[t] = "no"
    BY ThreadsAssumption DEF Init, Outside
  <2> QED BY <2>1, <2>2 DEF ComInv, Sound, Counted, Flagged, Entered
<1> QED BY <1>1, LockAlways, ComStep, PTL DEF Spec

\* PyCom_CoUninitialize: on the first thread the flag keeps Python from undoing an
\* initialization of its host.
THEOREM SpecHostKept == Spec => HostKept
<1>1. ComInv /\ [Next]_vars => [\A t \in Threads : t \in overdrawn' \ overdrawn =>
                                                     initThread # t \/ Stale(t)]_vars
  <2> SUFFICES ASSUME ComInv, Next, NEW u \in Threads, u \in overdrawn' \ overdrawn,
                      initThread = u, ~Stale(u)
               PROVE  FALSE
    OBVIOUS
  <2>1. PICK t \in Threads : Step(t) \/ Call(t)
    BY DEF Next
  <2>2. UninitializeCom(t)
    BY <2>1 DEF Step, Call, EnterFramework, LeaveFramework, EnterPython, GiveUpGil, TakeGil, CountUp,
       PythonIsUp, ObjectIsMade, CountDown, InitializeCom, InitializeFails, FailureIsReported,
       ComIsUndone, Body, ReturnFromPython, Import, MakeObject, DropObject,
       CallCoInitialize, CallCoUninitialize, CallCreateInstance, CallPython, ReleaseGateway,
       CallLockServer, HostInitializes, HostUninitializes, ThreadEnds, com
  <2>3. u = t /\ mine[t] = 0 /\ ole[t].count > 0 /\ hasInit /\ sameThread
    BY <2>2 DEF UninitializeCom, Stale, ComInv, ComTypes
  <2>4. At(t, "undone")
    BY <2>3, ComFacts DEF Flagged
  <2> QED BY <2>2, <2>4 DEF UninitializeCom, At
<1> QED BY <1>1, ComAlways, PTL DEF Spec, HostKept

\* PyCom_CoInitializeEx and PyCom_CoInitialize: a thread that was told that COM is ready
\* is in an apartment.
THEOREM SpecReadyMeansInside == Spec => []ReadyMeansInside
<1>1. ComInv => ReadyMeansInside
  <2> SUFFICES ASSUME ComInv, NEW t \in Threads \ overdrawn,
                      ready[t] # "no", ~Stale(t), ~Undoing(t), ~(ole[t].count > 0)
               PROVE  ready[t] = "borrowed" /\ host[t] + mine[t] = 0
    BY DEF ReadyMeansInside
  <2>1. ole[t].count \in Nat /\ host[t] \in Nat /\ mine[t] \in Nat /\ Counted(t) /\ Entered(t)
    BY ComFacts
  <2>2. host[t] = 0 /\ mine[t] = 0
    BY <2>1 DEF Counted
  <2>3. ready[t] \in {"no", "borrowed", "entered"}
    BY DEF ComInv, ComTypes
  <2> QED BY <2>1, <2>2, <2>3 DEF Entered
<1> QED BY <1>1, ComAlways, PTL
----------------------------------------------------------------------------
(***************************************************************************)
(* The count: g_cLockCount is the number of things of COM, those included  *)
(* that a thread has counted and not made yet, or has deleted and not      *)
(* counted down.  Steps are numbered from the end of what a thread has to  *)
(* do, so that what it puts before the rest moves nothing.                 *)
(***************************************************************************)
FromEnd(s, j) == s[Len(s) - j + 1]

Owing(f, X) == {p \in Threads \X Nat : /\ p[2] \in 1 .. Len(f[p[1]])
                                       /\ FromEnd(f[p[1]], p[2]) \in X}
Put(f, t, s) == [f EXCEPT ![t] = s]
Ups(f) == Owing(f, {"addref"})
Downs(f) == Owing(f, {"release", "made"})

\* What is counted up is made later, or released after the call of Python.
Matched(s) ==
  \A j \in 1 .. Len(s) : FromEnd(s, j) = "addref" =>
    \/ j > 2 /\ FromEnd(s, j - 2) = "made"
    \/ j > 3 /\ FromEnd(s, j - 2) = "python" /\ FromEnd(s, j - 3) = "release"

\* Of what the threads have to do, n more will be counted down than up.
Balanced(f, n) ==
  /\ n \in Int
  /\ IsFiniteSet(Ups(f)) /\ IsFiniteSet(Downs(f))
  /\ Cardinality(Downs(f)) = Cardinality(Ups(f)) + n
  /\ \A u \in Threads : Matched(f[u])

\* The same when thread t has s to do.
Owes(f, t, s, n) == s \in Seq(Steps) /\ Balanced(Put(f, t, s), n)

Weight(x) == IF x = "addref" THEN -1 ELSE IF x \in {"release", "made"} THEN 1 ELSE 0

LEMMA FromEndCons ==
  ASSUME NEW x \in Steps, NEW s \in Seq(Steps)
  PROVE  /\ FromEnd(<<x>> \o s, Len(s) + 1) = x
         /\ \A j \in 1 .. Len(s) : FromEnd(<<x>> \o s, j) = FromEnd(s, j)
<1> DEFINE v == <<x>> \o s
<1>1. /\ Len(v) = Len(s) + 1 /\ v[1] = x /\ Len(s) \in Nat
      /\ \A k \in 1 .. Len(s) : v[k + 1] = s[k]
  BY ConsFacts
<1> HIDE DEF v
<1>2. FromEnd(v, Len(s) + 1) = x
  BY <1>1 DEF FromEnd
<1>3. ASSUME NEW j \in 1 .. Len(s) PROVE FromEnd(v, j) = FromEnd(s, j)
  <2>1. Len(s) - j + 1 \in 1 .. Len(s) /\ Len(v) - j + 1 = (Len(s) - j + 1) + 1
    BY <1>1
  <2> QED BY <1>1, <2>1 DEF FromEnd
<1> QED BY <1>2, <1>3 DEF v

LEMMA OwingCons ==
  ASSUME NEW f \in [Threads -> Seq(Steps)], NEW t \in Threads,
         NEW x \in Steps, NEW s \in Seq(Steps), NEW X
  PROVE  LET fa == Put(f, t, s)
             fb == Put(f, t, <<x>> \o s)
         IN  /\ IsFiniteSet(Owing(fa, X)) <=> IsFiniteSet(Owing(fb, X))
             /\ IsFiniteSet(Owing(fa, X)) =>
                  Cardinality(Owing(fb, X)) = Cardinality(Owing(fa, X)) + (IF x \in X THEN 1 ELSE 0)
<1> DEFINE v == <<x>> \o s
           fa == Put(f, t, s)
           fb == Put(f, t, v)
           a == Owing(fa, X)
           b == Owing(fb, X)
           e == <<t, Len(s) + 1>>
<1>1. v \in Seq(Steps) /\ Len(v) = Len(s) + 1 /\ Len(s) \in Nat
  BY ConsFacts
<1>2. FromEnd(v, Len(s) + 1) = x /\ \A j \in 1 .. Len(s) : FromEnd(v, j) = FromEnd(s, j)
  BY FromEndCons
<1>3. /\ fa[t] = s /\ fb[t] = v
      /\ \A u \in Threads : u # t => fa[u] = f[u] /\ fb[u] = f[u]
  BY DEF Put
<1> HIDE DEF v, fa, fb
<1>4. ASSUME NEW u \in Threads, NEW j \in Nat
      PROVE  <<u, j>> \in b <=> <<u, j>> \in a \/ (x \in X /\ u = t /\ j = Len(s) + 1)
  <2>1. /\ <<u, j>> \in a <=> j \in 1 .. Len(fa[u]) /\ FromEnd(fa[u], j) \in X
        /\ <<u, j>> \in b <=> j \in 1 .. Len(fb[u]) /\ FromEnd(fb[u], j) \in X
    BY DEF Owing
  <2>2. CASE u # t
    BY <1>3, <2>1, <2>2
  <2>3. CASE u = t
    <3>1. CASE j = Len(s) + 1
      <4>1. j \in 1 .. Len(v) /\ j \notin 1 .. Len(s)
        BY <1>1, <3>1
      <4>2. FromEnd(v, j) = x
        BY <1>2, <3>1
      <4> QED BY <1>3, <2>1, <2>3, <3>1, <4>1, <4>2
    <3>2. CASE j # Len(s) + 1
      <4>1. j \in 1 .. Len(v) <=> j \in 1 .. Len(s)
        BY <1>1, <3>2
      <4> QED BY <1>2, <1>3, <2>1, <2>3, <3>2, <4>1
    <3> QED BY <3>1, <3>2
  <2> QED BY <2>2, <2>3
<1>5. a \subseteq Threads \X Nat /\ b \subseteq Threads \X Nat
  BY DEF Owing
<1>6. e \in Threads \X Nat /\ e \notin a
  <2>1. e \notin a
    BY <1>1, <1>3 DEF Owing
  <2> QED BY <1>1, <2>1
<1> HIDE DEF a, b
<1>7. b = IF x \in X THEN a \cup {e} ELSE a
  <2>1. ASSUME NEW p \in Threads \X Nat
        PROVE  p \in b <=> p \in (IF x \in X THEN a \cup {e} ELSE a)
    <3>1. PICK u \in Threads, j \in Nat : p = <<u, j>>
      OBVIOUS
    <3>2. p = e <=> u = t /\ j = Len(s) + 1
      BY <3>1
    <3> HIDE DEF e
    <3> QED BY <1>4, <3>1, <3>2
  <2> QED BY <1>5, <1>6, <2>1
<1> HIDE DEF e
<1>8. CASE x \in X
  <2>1. b = a \cup {e} /\ a \in SUBSET b
    BY <1>7, <1>8
  <2>2. IsFiniteSet(a) => IsFiniteSet(b) /\ Cardinality(b) = Cardinality(a) + 1
    BY <1>6, <2>1, FS_AddElement
  <2>3. IsFiniteSet(b) => IsFiniteSet(a)
    BY <2>1, FS_Subset
  <2> QED BY <1>8, <2>2, <2>3 DEF a, b, fa, fb, v
<1>9. CASE x \notin X
  <2>1. b = a
    BY <1>7, <1>9
  <2>2. IsFiniteSet(a) => Cardinality(b) = Cardinality(a) + 0
    BY <2>1, FS_CardinalityType
  <2> QED BY <1>9, <2>1, <2>2 DEF a, b, fa, fb, v
<1> QED BY <1>8, <1>9

\* One step more to do, which is not a count up.
LEMMA MatchedCons ==
  ASSUME NEW x \in Steps, NEW s \in Seq(Steps)
  PROVE  /\ Matched(<<x>> \o s) => Matched(s)
         /\ Matched(s) /\ x # "addref" => Matched(<<x>> \o s)
<1> DEFINE v == <<x>> \o s
<1>1. v \in Seq(Steps) /\ Len(v) = Len(s) + 1 /\ Len(s) \in Nat
  BY ConsFacts
<1>2. FromEnd(v, Len(s) + 1) = x /\ \A j \in 1 .. Len(s) : FromEnd(v, j) = FromEnd(s, j)
  BY FromEndCons
<1> HIDE DEF v
<1>3. ASSUME NEW j \in 1 .. Len(s)
      PROVE  /\ j > 2 => FromEnd(v, j - 2) = FromEnd(s, j - 2)
             /\ j > 3 => FromEnd(v, j - 3) = FromEnd(s, j - 3)
             /\ FromEnd(v, j) = FromEnd(s, j)
  <2>1. j > 2 => j - 2 \in 1 .. Len(s)
    BY <1>1
  <2>2. j > 3 => j - 3 \in 1 .. Len(s)
    BY <1>1
  <2> QED BY <1>2, <2>1, <2>2
<1>4. \A j \in 1 .. Len(v) : j \in 1 .. Len(s) \/ j = Len(s) + 1
  BY <1>1
<1>5. 1 .. Len(s) \subseteq 1 .. Len(v)
  BY <1>1
<1>6. Matched(v) => Matched(s)
  BY <1>1, <1>3, <1>5 DEF Matched
<1>7. Matched(s) /\ x # "addref" => Matched(v)
  BY <1>1, <1>2, <1>3, <1>4 DEF Matched
<1> QED BY <1>6, <1>7 DEF v

\* A count up before what it is made for.
LEMMA MatchedCountUp ==
  ASSUME NEW r \in Seq(Steps), Matched(r)
  PROVE  /\ Matched(<<"addref">> \o (<<"unlock">> \o (<<"made">> \o r)))
         /\ Matched(<<"addref">> \o (<<"unlock">> \o (<<"python">> \o (<<"release">> \o r))))
<1>0. {"addref", "unlock", "made", "python", "release"} \subseteq Steps
  BY DEF Steps
<1>1. ASSUME NEW x \in Steps, NEW s \in Seq(Steps)
      PROVE  /\ <<x>> \o s \in Seq(Steps) /\ Len(<<x>> \o s) = Len(s) + 1 /\ Len(s) \in Nat
             /\ FromEnd(<<x>> \o s, Len(s) + 1) = x
             /\ \A j \in 1 .. Len(s) : FromEnd(<<x>> \o s, j) = FromEnd(s, j)
  BY ConsFacts, FromEndCons
<1>2. ASSUME NEW s \in Seq(Steps), Matched(s), Len(s) > 1,
             \/ FromEnd(s, Len(s) - 1) = "made"
             \/ Len(s) > 2 /\ FromEnd(s, Len(s) - 1) = "python" /\ FromEnd(s, Len(s) - 2) = "release"
      PROVE  Matched(<<"addref">> \o s)
  <2> DEFINE v == <<"addref">> \o s
  <2>1. /\ Len(v) = Len(s) + 1 /\ Len(s) \in Nat
        /\ FromEnd(v, Len(s) + 1) = "addref"
        /\ \A j \in 1 .. Len(s) : FromEnd(v, j) = FromEnd(s, j)
    BY <1>0, <1>1
  <2> HIDE DEF v
  <2> SUFFICES ASSUME NEW j \in 1 .. Len(v), FromEnd(v, j) = "addref"
               PROVE  \/ j > 2 /\ FromEnd(v, j - 2) = "made"
                      \/ j > 3 /\ FromEnd(v, j - 2) = "python" /\ FromEnd(v, j - 3) = "release"
    BY DEF Matched, v
  <2>2. CASE j = Len(s) + 1
    <3>1. j - 2 \in 1 .. Len(s) /\ j - 2 = Len(s) - 1 /\ j - 3 = Len(s) - 2 /\ j > 2
      BY <1>2, <2>1, <2>2
    <3>2. Len(s) > 2 => j - 3 \in 1 .. Len(s) /\ j > 3
      BY <2>1, <2>2
    <3> QED BY <1>2, <2>1, <3>1, <3>2
  <2>3. CASE j # Len(s) + 1
    <3>1. j \in 1 .. Len(s)
      BY <2>1, <2>3
    <3>2. j > 2 => j - 2 \in 1 .. Len(s)
      BY <2>1, <3>1
    <3>3. j > 3 => j - 3 \in 1 .. Len(s)
      BY <2>1, <3>1
    <3> QED BY <1>2, <2>1, <3>1, <3>2, <3>3 DEF Matched
  <2> QED BY <2>2, <2>3
<1> DEFINE m == <<"made">> \o r
           mu == <<"unlock">> \o m
           e == <<"release">> \o r
           p == <<"python">> \o e
           pu == <<"unlock">> \o p
<1>3. Matched(<<"addref">> \o mu)
  <2>1. m \in Seq(Steps) /\ Len(m) = Len(r) + 1 /\ Len(r) \in Nat /\ FromEnd(m, Len(r) + 1) = "made"
        /\ Matched(m)
    BY <1>0, <1>1, MatchedCons
  <2> HIDE DEF m
  <2>2. mu \in Seq(Steps) /\ Len(mu) = Len(m) + 1 /\ Matched(mu)
        /\ \A j \in 1 .. Len(m) : FromEnd(mu, j) = FromEnd(m, j)
    BY <1>0, <1>1, <2>1, MatchedCons
  <2> HIDE DEF mu
  <2>3. Len(mu) - 1 = Len(r) + 1 /\ Len(r) + 1 \in 1 .. Len(m) /\ Len(mu) > 1
    BY <2>1, <2>2
  <2>4. FromEnd(mu, Len(mu) - 1) = "made"
    BY <2>1, <2>2, <2>3
  <2> QED BY <1>2, <2>2, <2>3, <2>4
<1>4. Matched(<<"addref">> \o pu)
  <2>1. e \in Seq(Steps) /\ Len(e) = Len(r) + 1 /\ Len(r) \in Nat /\ FromEnd(e, Len(r) + 1) = "release"
        /\ Matched(e)
    BY <1>0, <1>1, MatchedCons
  <2> HIDE DEF e
  <2>2. p \in Seq(Steps) /\ Len(p) = Len(e) + 1 /\ Matched(p) /\ FromEnd(p, Len(e) + 1) = "python"
        /\ \A j \in 1 .. Len(e) : FromEnd(p, j) = FromEnd(e, j)
    BY <1>0, <1>1, <2>1, MatchedCons
  <2> HIDE DEF p
  <2>3. pu \in Seq(Steps) /\ Len(pu) = Len(p) + 1 /\ Matched(pu)
        /\ \A j \in 1 .. Len(p) : FromEnd(pu, j) = FromEnd(p, j)
    BY <1>0, <1>1, <2>2, MatchedCons
  <2> HIDE DEF pu
  <2>4. /\ Len(pu) - 1 = Len(e) + 1 /\ Len(pu) - 2 = Len(r) + 1 /\ Len(pu) > 2
        /\ Len(e) + 1 \in 1 .. Len(p) /\ Len(r) + 1 \in 1 .. Len(p) /\ Len(r) + 1 \in 1 .. Len(e)
    BY <2>1, <2>2, <2>3
  <2>5. FromEnd(pu, Len(pu) - 1) = "python" /\ FromEnd(pu, Len(pu) - 2) = "release"
    BY <2>1, <2>2, <2>3, <2>4
  <2> QED BY <1>2, <2>3, <2>4, <2>5
<1> HIDE DEF m, e, p
<1> QED BY <1>3, <1>4 DEF m, e, p

\* A step is put before the rest, or taken from it.
LEMMA OwesShift ==
  ASSUME NEW f \in [Threads -> Seq(Steps)], NEW t \in Threads, NEW x \in Steps, NEW s \in Seq(Steps),
         NEW n \in Int
  PROVE  /\ Owes(f, t, s, n) /\ Matched(<<x>> \o s) => Owes(f, t, <<x>> \o s, n + Weight(x))
         /\ Owes(f, t, <<x>> \o s, n) => Owes(f, t, s, n - Weight(x))
<1> DEFINE v == <<x>> \o s
           fa == Put(f, t, s)
           fb == Put(f, t, v)
<1>1. v \in Seq(Steps)
  BY ConsFacts
<1>2. Matched(v) => Matched(s)
  BY MatchedCons
<1>5. /\ fa[t] = s /\ fb[t] = v
      /\ \A u \in Threads : u # t => fa[u] = fb[u]
  BY DEF Put
<1>3. /\ IsFiniteSet(Ups(fa)) <=> IsFiniteSet(Ups(fb))
      /\ IsFiniteSet(Ups(fa)) =>
           Cardinality(Ups(fb)) = Cardinality(Ups(fa)) + (IF x = "addref" THEN 1 ELSE 0)
  <2> DEFINE X == {"addref"}
  <2> HIDE DEF X
  <2>1. /\ IsFiniteSet(Owing(fa, X)) <=> IsFiniteSet(Owing(fb, X))
        /\ IsFiniteSet(Owing(fa, X)) =>
             Cardinality(Owing(fb, X)) = Cardinality(Owing(fa, X)) + (IF x \in X THEN 1 ELSE 0)
    BY OwingCons
  <2>2. x \in X <=> x = "addref"
    BY DEF X
  <2> QED BY <2>1, <2>2 DEF Ups, X
<1>4. /\ IsFiniteSet(Downs(fa)) <=> IsFiniteSet(Downs(fb))
      /\ IsFiniteSet(Downs(fa)) =>
           Cardinality(Downs(fb)) = Cardinality(Downs(fa)) + (IF x \in {"release", "made"} THEN 1 ELSE 0)
  <2> DEFINE X == {"release", "made"}
  <2> HIDE DEF X
  <2>1. /\ IsFiniteSet(Owing(fa, X)) <=> IsFiniteSet(Owing(fb, X))
        /\ IsFiniteSet(Owing(fa, X)) =>
             Cardinality(Owing(fb, X)) = Cardinality(Owing(fa, X)) + (IF x \in X THEN 1 ELSE 0)
    BY OwingCons
  <2> QED BY <2>1 DEF Downs, X
<1> HIDE DEF v, fa, fb
<1>6. Weight(x) = (IF x \in {"release", "made"} THEN 1 ELSE 0) - (IF x = "addref" THEN 1 ELSE 0)
  BY DEF Weight
<1>7. /\ IsFiniteSet(Ups(fa)) => Cardinality(Ups(fa)) \in Nat
      /\ IsFiniteSet(Downs(fa)) => Cardinality(Downs(fa)) \in Nat
      /\ Weight(x) \in Int
  BY FS_CardinalityType DEF Weight
<1>8. Owes(f, t, s, n) <=> /\ IsFiniteSet(Ups(fa)) /\ IsFiniteSet(Downs(fa))
                           /\ Cardinality(Downs(fa)) = Cardinality(Ups(fa)) + n
                           /\ \A u \in Threads : Matched(fa[u])
  BY DEF Owes, Balanced, fa
<1>9. \A m \in Int :
        Owes(f, t, v, m) <=> /\ IsFiniteSet(Ups(fb)) /\ IsFiniteSet(Downs(fb))
                             /\ Cardinality(Downs(fb)) = Cardinality(Ups(fb)) + m
                             /\ \A u \in Threads : Matched(fb[u])
  BY <1>1 DEF Owes, Balanced, fb
<1>10. ASSUME Owes(f, t, s, n), Matched(v) PROVE Owes(f, t, v, n + Weight(x))
  <2>1. \A u \in Threads : Matched(fb[u])
    BY <1>5, <1>8, <1>10
  <2>2. Cardinality(Downs(fb)) = Cardinality(Ups(fb)) + (n + Weight(x))
    BY <1>3, <1>4, <1>6, <1>7, <1>8, <1>10
  <2> QED BY <1>3, <1>4, <1>7, <1>8, <1>9, <1>10, <2>1, <2>2
<1>11. ASSUME Owes(f, t, v, n) PROVE Owes(f, t, s, n - Weight(x))
  <2>1. \A u \in Threads : Matched(fa[u])
    BY <1>2, <1>5, <1>9, <1>11
  <2>2. IsFiniteSet(Ups(fa)) /\ IsFiniteSet(Downs(fa))
    BY <1>3, <1>4, <1>9, <1>11
  <2>3. Cardinality(Downs(fa)) = Cardinality(Ups(fa)) + (n - Weight(x))
    <3>1. Cardinality(Downs(fb)) = Cardinality(Ups(fb)) + n
      BY <1>9, <1>11
    <3>2. /\ Cardinality(Ups(fb)) = Cardinality(Ups(fa)) + (IF x = "addref" THEN 1 ELSE 0)
          /\ Cardinality(Downs(fb)) = Cardinality(Downs(fa)) + (IF x \in {"release", "made"} THEN 1 ELSE 0)
          /\ Cardinality(Ups(fa)) \in Nat /\ Cardinality(Downs(fa)) \in Nat
      BY <1>3, <1>4, <1>7, <2>2
    <3> QED BY <1>6, <3>1, <3>2
  <2>4. n - Weight(x) \in Int
    BY <1>7
  <2> QED BY <2>1, <2>2, <2>3, <2>4 DEF Owes, Balanced, fa
<1> QED BY <1>10, <1>11 DEF v

LEMMA OwesFacts ==
  ASSUME NEW f \in [Threads -> Seq(Steps)], NEW t \in Threads, NEW s, NEW n, Owes(f, t, s, n)
  PROVE  s \in Seq(Steps) /\ n \in Int /\ Matched(s)
<1>1. Put(f, t, s)[t] = s
  BY DEF Put
<1> QED BY <1>1 DEF Owes, Balanced

\* Steps that count nothing, and a count down.
LEMMA OwesQuiet ==
  ASSUME NEW f \in [Threads -> Seq(Steps)], NEW t \in Threads, NEW s, NEW n, Owes(f, t, s, n),
         NEW x \in Steps \ {"addref", "release", "made"}
  PROVE  Owes(f, t, <<x>> \o s, n)
<1>1. s \in Seq(Steps) /\ n \in Int /\ Matched(s)
  BY OwesFacts
<1>2. Weight(x) = 0 /\ n + 0 = n /\ x # "addref"
  BY <1>1 DEF Weight
<1>3. Matched(<<x>> \o s)
  BY <1>1, <1>2, MatchedCons
<1> QED BY <1>1, <1>2, <1>3, OwesShift

LEMMA OwesOne ==
  ASSUME NEW f \in [Threads -> Seq(Steps)], NEW t \in Threads, NEW s, NEW n, Owes(f, t, s, n),
         NEW x \in {"release", "made"}
  PROVE  Owes(f, t, <<x>> \o s, n + 1)
<1>1. s \in Seq(Steps) /\ n \in Int /\ Matched(s)
  BY OwesFacts
<1>2. Weight(x) = 1 /\ x # "addref" /\ x \in Steps
  BY DEF Weight, Steps
<1>3. Matched(<<x>> \o s)
  BY <1>1, <1>2, MatchedCons
<1> QED BY <1>1, <1>2, <1>3, OwesShift

LEMMA OwesCountUp ==
  ASSUME NEW f \in [Threads -> Seq(Steps)], NEW t \in Threads, NEW s, NEW n, Owes(f, t, s, n),
         Matched(<<"addref">> \o s)
  PROVE  Owes(f, t, <<"addref">> \o s, n - 1)
<1>1. s \in Seq(Steps) /\ n \in Int
  BY OwesFacts
<1>2. Weight("addref") = -1 /\ "addref" \in Steps /\ n + (-1) = n - 1
  BY <1>1 DEF Weight, Steps
<1> QED BY <1>1, <1>2, OwesShift

\* The functions.
LEMMA OwesMake ==
  ASSUME NEW f \in [Threads -> Seq(Steps)], NEW t \in Threads, NEW r, NEW n, Owes(f, t, r, n)
  PROVE  /\ Owes(f, t, Make \o r, n)
         /\ Owes(f, t, <<"lock">> \o (<<"addref">> \o (<<"unlock">> \o
                         (<<"python">> \o (<<"release">> \o r)))), n)
<1>0. {"lock", "unlock", "python"} \subseteq Steps \ {"addref", "release", "made"}
  BY DEF Steps
<1>1. r \in Seq(Steps) /\ n \in Int /\ Matched(r) /\ n + 1 - 1 = n
  BY OwesFacts
<1> DEFINE m == <<"made">> \o r
           mu == <<"unlock">> \o m
           ma == <<"addref">> \o mu
           e == <<"release">> \o r
           p == <<"python">> \o e
           pu == <<"unlock">> \o p
           pa == <<"addref">> \o pu
<1>2. Matched(ma) /\ Matched(pa)
  BY <1>1, MatchedCountUp
<1>3. Make \o r = <<"lock">> \o ma
  BY <1>1, MakeUnfolds
<1>4. Owes(f, t, m, n + 1) /\ Owes(f, t, e, n + 1)
  BY OwesOne
<1> HIDE DEF m, e
<1>5. Owes(f, t, mu, n + 1) /\ Owes(f, t, p, n + 1)
  BY <1>0, <1>4, OwesQuiet
<1> HIDE DEF mu, p
<1>6. Owes(f, t, pu, n + 1)
  BY <1>0, <1>5, OwesQuiet
<1> HIDE DEF pu
<1>8. Owes(f, t, ma, n) /\ Owes(f, t, pa, n)
  <2> DEFINE k == n + 1
  <2> HIDE DEF k
  <2>1. Owes(f, t, mu, k) /\ Owes(f, t, pu, k)
    BY <1>5, <1>6 DEF k
  <2>2. Owes(f, t, ma, k - 1) /\ Owes(f, t, pa, k - 1)
    BY <1>2, <2>1, OwesCountUp
  <2>3. k - 1 = n
    BY <1>1 DEF k
  <2> HIDE DEF ma, pa
  <2> QED BY <2>2, <2>3
<1> HIDE DEF ma, pa
<1>9. Owes(f, t, <<"lock">> \o ma, n) /\ Owes(f, t, <<"lock">> \o pa, n)
  BY <1>0, <1>8, OwesQuiet
<1> QED BY <1>3, <1>9 DEF pa, pu, p, e

LEMMA OwesApartment ==
  ASSUME NEW f \in [Threads -> Seq(Steps)], NEW t \in Threads, NEW r, NEW n, Owes(f, t, r, n),
         NEW x \in Requests \cup {"uninit"}
  PROVE  Owes(f, t, <<"save", "lock", x, "unlock", "restore">> \o r, n)
<1>0. {"save", "lock", x, "unlock", "restore"} \subseteq Steps \ {"addref", "release", "made"}
  BY DEF Steps, Requests, Modes
<1>1. r \in Seq(Steps)
  BY OwesFacts
<1> DEFINE a == <<"restore">> \o r
           b == <<"unlock">> \o a
           c == <<x>> \o b
           l == <<"lock">> \o c
<1>2. <<"save", "lock", x, "unlock", "restore">> \o r = <<"save">> \o l
  BY <1>0, <1>1, ApartmentUnfolds
<1>3. Owes(f, t, a, n)
  BY <1>0, OwesQuiet
<1> HIDE DEF a
<1>4. Owes(f, t, b, n)
  BY <1>0, <1>3, OwesQuiet
<1> HIDE DEF b
<1>5. Owes(f, t, c, n)
  BY <1>0, <1>4, OwesQuiet
<1> HIDE DEF c
<1>6. Owes(f, t, l, n)
  BY <1>0, <1>5, OwesQuiet
<1> HIDE DEF l
<1>7. Owes(f, t, <<"save">> \o l, n)
  BY <1>0, <1>6, OwesQuiet
<1> QED BY <1>2, <1>7

LEMMA OwesImport ==
  ASSUME NEW f \in [Threads -> Seq(Steps)], NEW t \in Threads, NEW r, NEW n, Owes(f, t, r, n),
         NEW mode \in Modes
  PROVE  Owes(f, t, ImportPythoncom(mode) \o r, n)
<1>0. {"lock", mode, "unlock"} \subseteq Steps \ {"addref", "release", "made"}
  BY DEF Steps, Requests, Modes
<1>1. r \in Seq(Steps)
  BY OwesFacts
<1> DEFINE b == <<"unlock">> \o r
           c == <<mode>> \o b
<1>2. ImportPythoncom(mode) \o r = <<"lock">> \o c
  BY <1>1, ImportUnfolds
<1>3. Owes(f, t, b, n)
  BY <1>0, OwesQuiet
<1> HIDE DEF b
<1>4. Owes(f, t, c, n)
  BY <1>0, <1>3, OwesQuiet
<1> HIDE DEF c
<1>5. Owes(f, t, <<"lock">> \o c, n)
  BY <1>0, <1>4, OwesQuiet
<1> QED BY <1>2, <1>5

\* What is deleted is still to be counted down.
LEMMA OwesDelete ==
  ASSUME NEW f \in [Threads -> Seq(Steps)], NEW t \in Threads, NEW r, NEW n, Owes(f, t, r, n),
         NEW x \in {"undone", "left"}
  PROVE  /\ Owes(f, t, DeleteWrapper \o r, n + 1)
         /\ Owes(f, t, (DeleteGateway \o <<x>>) \o r, n + 1)
         /\ Owes(f, t, <<"python">> \o (<<"release">> \o r), n + 1)
<1>0. {"save", "restore", "python", x} \subseteq Steps \ {"addref", "release", "made"}
  BY DEF Steps
<1>1. r \in Seq(Steps)
  BY OwesFacts
<1> DEFINE e == <<"release">> \o r
           a == <<"restore">> \o e
           d == <<x>> \o r
           b == <<"release">> \o d
<1>2. /\ DeleteWrapper \o r = <<"save">> \o a
      /\ (DeleteGateway \o <<x>>) \o r = <<"python">> \o b
  BY <1>1, DeleteWrapperUnfolds, DisconnectUnfolds
<1>3. Owes(f, t, e, n + 1)
  BY OwesOne
<1>4. Owes(f, t, d, n)
  BY <1>0, OwesQuiet
<1> HIDE DEF e, d
<1>5. Owes(f, t, b, n + 1)
  BY <1>4, OwesOne
<1>6. Owes(f, t, a, n + 1)
  BY <1>0, <1>3, OwesQuiet
<1> HIDE DEF a, b
<1>7. Owes(f, t, <<"save">> \o a, n + 1) /\ Owes(f, t, <<"python">> \o b, n + 1)
      /\ Owes(f, t, <<"python">> \o e, n + 1)
  BY <1>0, <1>3, <1>5, <1>6, OwesQuiet
<1> QED BY <1>2, <1>7 DEF e

CountInv == /\ objects \in Nat /\ lockCount \in Int
            /\ imported \in BOOLEAN /\ hasInitialized \in BOOLEAN
            /\ Balanced(todo, lockCount - objects)

LEMMA HeadOwes ==
  ASSUME LockInv, CountInv, NEW t \in Threads, NEW x, At(t, x), NEW r, r = Tail(todo[t])
  PROVE  Owes(todo, t, r, lockCount - objects - Weight(x)) /\ <<>> \o r = r
<1>1. x \in Steps /\ todo[t] = <<x>> \o r /\ r \in Seq(Steps) /\ todo \in [Threads -> Seq(Steps)]
  BY HeadFacts DEF LockInv
<1>2. Put(todo, t, <<x>> \o r) = todo
  BY <1>1 DEF Put
<1>3. Owes(todo, t, <<x>> \o r, lockCount - objects)
  BY <1>1, <1>2 DEF Owes, CountInv
<1> DEFINE n == lockCount - objects
<1>4. n \in Int
  BY DEF CountInv
<1> HIDE DEF n
<1>5. Owes(todo, t, r, n - Weight(x))
  BY <1>1, <1>3, <1>4, OwesShift DEF n
<1>6. <<>> \o r = r
  BY <1>1
<1> QED BY <1>5, <1>6 DEF n

LEMMA CountMoves ==
  ASSUME LockInv, CountInv, NEW t \in Threads, NEW s, todo' = [todo EXCEPT ![t] = s],
         objects' \in Nat, lockCount' \in Int, imported' \in BOOLEAN, hasInitialized' \in BOOLEAN,
         Owes(todo, t, s, lockCount' - objects')
  PROVE  CountInv'
<1>1. todo' = Put(todo, t, s)
  BY DEF Put
<1> QED BY <1>1 DEF CountInv, Owes

\* The step x is taken, the functions w take its place, and nothing is counted.
LEMMA CountsNothing ==
  ASSUME LockInv, CountInv, NEW t \in Threads, NEW x, At(t, x), x \notin {"addref", "release", "made"},
         NEW w, Then(t, w), NEW r, r = Tail(todo[t]),
         UNCHANGED <<lockCount, objects, hasInitialized>>, imported' \in BOOLEAN,
         \A n : Owes(todo, t, r, n) => Owes(todo, t, w \o r, n)
  PROVE  CountInv'
<1> DEFINE n == lockCount - objects
<1>1. n \in Int /\ n - 0 = n /\ Weight(x) = 0
  BY DEF CountInv, Weight
<1>2. Owes(todo, t, r, n - Weight(x))
  BY HeadOwes
<1>3. Owes(todo, t, w \o r, n)
  BY <1>1, <1>2
<1>4. todo' = [todo EXCEPT ![t] = w \o r]
  BY ThenFacts
<1>5. /\ objects' \in Nat /\ lockCount' \in Int /\ hasInitialized' \in BOOLEAN
      /\ lockCount' - objects' = lockCount - objects
  BY DEF CountInv
<1>6. Owes(todo, t, w \o r, lockCount' - objects')
  BY <1>3, <1>5
<1> HIDE DEF n
<1> QED BY <1>4, <1>5, <1>6, CountMoves

\* A count up or down, and a thing that is made.
LEMMA CountsOne ==
  ASSUME LockInv, CountInv, NEW t \in Threads, CountUp(t) \/ CountDown(t) \/ ObjectIsMade(t)
  PROVE  CountInv'
<1> DEFINE r == Tail(todo[t])
<1>0. objects \in Nat /\ lockCount \in Int /\ imported \in BOOLEAN /\ hasInitialized \in BOOLEAN
      /\ todo \in [Threads -> Seq(Steps)]
  BY DEF CountInv, LockInv
<1>1. ASSUME NEW x, At(t, x)
      PROVE  Owes(todo, t, r, lockCount - objects - Weight(x)) /\ <<>> \o r = r
  BY <1>1, HeadOwes
<1>2. ASSUME NEW w, Then(t, w) PROVE todo' = [todo EXCEPT ![t] = w \o r]
  BY <1>2, ThenFacts
<1> HIDE DEF r
<1>3. CASE CountUp(t)
  <2>1. /\ At(t, "addref") /\ lockCount' = lockCount + 1 /\ UNCHANGED <<objects, imported>>
        /\ hasInitialized' \in BOOLEAN
        /\ Then(t, <<"pyinit">>) \/ Then(t, <<>>)
    BY <1>0, <1>3 DEF CountUp
  <2>2. Weight("addref") = -1 /\ lockCount - objects - (-1) = lockCount' - objects'
    BY <1>0, <2>1 DEF Weight
  <2> DEFINE m == lockCount' - objects'
  <2>3. Owes(todo, t, r, m) /\ <<>> \o r = r
    BY <1>1, <2>1, <2>2
  <2> HIDE DEF m
  <2>4. Owes(todo, t, <<"pyinit">> \o r, m)
    <3>1. "pyinit" \in Steps \ {"addref", "release", "made"}
      BY DEF Steps
    <3> QED BY <1>0, <2>3, <3>1, OwesQuiet
  <2>5. objects' \in Nat /\ lockCount' \in Int /\ imported' \in BOOLEAN
    BY <1>0, <2>1
  <2>6. CASE Then(t, <<"pyinit">>)
    <3>1. todo' = [todo EXCEPT ![t] = <<"pyinit">> \o r]
      BY <1>2, <2>6
    <3> QED BY <2>1, <2>4, <2>5, <3>1, CountMoves DEF m
  <2>7. CASE Then(t, <<>>)
    <3>1. todo' = [todo EXCEPT ![t] = r]
      BY <1>2, <2>3, <2>7
    <3> QED BY <2>1, <2>3, <2>5, <3>1, CountMoves DEF m
  <2> QED BY <2>1, <2>6, <2>7
<1>4. CASE CountDown(t) \/ ObjectIsMade(t)
  <2>1. PICK x \in {"release", "made"} :
          /\ At(t, x) /\ Then(t, <<>>) /\ UNCHANGED <<imported, hasInitialized>>
          /\ lockCount' = IF x = "release" THEN lockCount - 1 ELSE lockCount
          /\ objects' = IF x = "release" THEN objects ELSE objects + 1
    BY <1>4 DEF CountDown, ObjectIsMade, locks
  <2>2. /\ objects' \in Nat /\ lockCount' \in Int
        /\ Weight(x) = 1 /\ lockCount - objects - 1 = lockCount' - objects'
    BY <1>0, <2>1 DEF Weight
  <2>3. Owes(todo, t, r, lockCount' - objects') /\ todo' = [todo EXCEPT ![t] = r]
    BY <1>1, <1>2, <2>1, <2>2
  <2> QED BY <1>0, <2>1, <2>2, <2>3, CountMoves
<1> QED BY <1>3, <1>4

\* A thing of COM goes, and is still to be counted down.
LEMMA CountsGone ==
  ASSUME LockInv, CountInv, NEW t \in Threads, NEW x, At(t, x), x \notin {"addref", "release", "made"},
         NEW w, Then(t, w), NEW r, r = Tail(todo[t]),
         objects > 0, objects' = objects - 1,
         UNCHANGED <<lockCount, hasInitialized, imported>>,
         \A n : Owes(todo, t, r, n) => Owes(todo, t, w \o r, n + 1)
  PROVE  CountInv'
<1> DEFINE n == lockCount - objects
<1>0. objects \in Nat /\ lockCount \in Int
  BY DEF CountInv
<1>1. n - 0 = n /\ Weight(x) = 0 /\ n + 1 = lockCount' - objects'
  BY <1>0 DEF Weight
<1>2. Owes(todo, t, r, n - Weight(x))
  BY HeadOwes
<1>3. Owes(todo, t, w \o r, n + 1)
  BY <1>1, <1>2
<1>4. todo' = [todo EXCEPT ![t] = w \o r]
  BY ThenFacts
<1>5. objects' \in Nat /\ lockCount' \in Int /\ hasInitialized' \in BOOLEAN /\ imported' \in BOOLEAN
  BY <1>0 DEF CountInv
<1>6. Owes(todo, t, w \o r, lockCount' - objects')
  BY <1>1, <1>3
<1> HIDE DEF n
<1> QED BY <1>4, <1>5, <1>6, CountMoves

\* The locks, the start of Python and the apartments count nothing.
LEMMA CountsLocks ==
  ASSUME LockInv, CountInv, NEW t \in Threads,
         \/ EnterFramework(t) \/ LeaveFramework(t) \/ EnterPython(t) \/ GiveUpGil(t) \/ TakeGil(t)
         \/ PythonIsUp(t) \/ InitializeCom(t) \/ InitializeFails(t) \/ FailureIsReported(t)
         \/ UninitializeCom(t) \/ ComIsUndone(t)
  PROVE  CountInv'
<1> DEFINE r == Tail(todo[t])
           Q == Steps \ {"addref", "release", "made"}
<1>0. /\ imported \in BOOLEAN /\ todo \in [Threads -> Seq(Steps)]
      /\ {"lock", "unlock", "python", "leave", "save", "restore", "pyinit", "failed", "uninit", "undone",
          "left", "body"} \cup Requests \subseteq Q
  BY DEF CountInv, LockInv, Steps, Requests, Modes
<1>1. ASSUME NEW x \in Q, At(t, x) PROVE r \in Seq(Steps) /\ <<>> \o r = r
  <2>1. r \in Seq(Steps)
    BY <1>1, HeadFacts
  <2> QED BY <2>1
<1>2. ASSUME NEW x \in Q, At(t, x), NEW w, Then(t, w),
             UNCHANGED <<lockCount, objects, hasInitialized, imported>>,
             \A n : Owes(todo, t, r, n) => Owes(todo, t, w \o r, n)
      PROVE  CountInv'
  BY <1>0, <1>2, CountsNothing
<1>3. ASSUME NEW x \in Q, At(t, x), NEW w, Then(t, w), objects > 0, objects' = objects - 1,
             UNCHANGED <<lockCount, hasInitialized, imported>>,
             \A n : Owes(todo, t, r, n) => Owes(todo, t, w \o r, n + 1)
      PROVE  CountInv'
  BY <1>3, CountsGone
<1>4. ASSUME NEW x \in Q, NEW s, NEW n, Owes(todo, t, s, n) PROVE Owes(todo, t, <<x>> \o s, n)
  BY <1>0, <1>4, OwesQuiet
<1> HIDE DEF r, Q
<1>5. ASSUME NEW x \in Q, At(t, x), Then(t, <<>>),
             UNCHANGED <<lockCount, objects, hasInitialized, imported>>
      PROVE  CountInv'
  <2>1. \A n : Owes(todo, t, r, n) => Owes(todo, t, <<>> \o r, n)
    BY <1>1, <1>5
  <2> QED BY <1>2, <1>5, <2>1
<1>6. CASE \/ EnterFramework(t) \/ LeaveFramework(t) \/ GiveUpGil(t) \/ TakeGil(t) \/ PythonIsUp(t)
           \/ FailureIsReported(t) \/ ComIsUndone(t)
  <2>1. UNCHANGED <<lockCount, objects, hasInitialized, imported>> /\ Then(t, <<>>)
    BY <1>6 DEF EnterFramework, LeaveFramework, GiveUpGil, TakeGil, PythonIsUp, FailureIsReported,
       ComIsUndone, counted, locks
  <2>2. \E x \in {"lock", "unlock", "leave", "save", "restore", "pyinit", "failed", "undone", "left"} : At(t, x)
    BY <1>6 DEF EnterFramework, LeaveFramework, GiveUpGil, TakeGil, PythonIsUp, FailureIsReported,
       ComIsUndone
  <2> QED BY <1>0, <1>5, <2>1, <2>2
<1>7. CASE EnterPython(t)
  <2>1. /\ At(t, "python") /\ UNCHANGED <<lockCount, objects, hasInitialized, imported>>
        /\ Then(t, <<"body">>) \/ Then(t, <<"body", "leave">>)
    BY <1>7 DEF EnterPython, counted
  <2>2. r \in Seq(Steps) /\ "python" \in Q /\ "body" \in Q /\ "leave" \in Q
    BY <1>0, <1>1, <2>1
  <2>3. <<"body", "leave">> \o r = <<"body">> \o (<<"leave">> \o r)
    BY <2>2, Unfold2 DEF Q
  <2>4. ASSUME NEW n, Owes(todo, t, r, n)
        PROVE  Owes(todo, t, <<"body">> \o r, n) /\ Owes(todo, t, <<"body", "leave">> \o r, n)
    <3>1. Owes(todo, t, <<"leave">> \o r, n)
      BY <1>4, <2>2, <2>4
    <3> DEFINE l == <<"leave">> \o r
    <3> HIDE DEF l
    <3>2. Owes(todo, t, <<"body">> \o l, n)
      BY <1>4, <2>2, <3>1 DEF l
    <3> QED BY <1>4, <2>2, <2>3, <2>4, <3>2 DEF l
  <2>5. CASE Then(t, <<"body">>)
    BY <1>2, <2>1, <2>2, <2>4, <2>5
  <2>6. CASE Then(t, <<"body", "leave">>)
    BY <1>2, <2>1, <2>2, <2>4, <2>6
  <2> QED BY <2>1, <2>5, <2>6
<1>8. CASE InitializeCom(t)
  <2>1. PICK request \in Requests : At(t, request) /\ Then(t, <<>>)
                              /\ UNCHANGED <<lockCount, objects, hasInitialized, imported>>
    BY <1>8 DEF InitializeCom, locks, counted
  <2> QED BY <1>0, <1>5, <2>1
<1>9. CASE InitializeFails(t)
  <2>1. PICK request \in Requests : At(t, request)
    BY <1>9 DEF InitializeFails
  <2>2. Then(t, <<"python", "failed">>) /\ UNCHANGED <<lockCount, objects, hasInitialized, imported>>
    BY <1>9 DEF InitializeFails, locks, counted
  <2>3. r \in Seq(Steps) /\ request \in Q /\ "python" \in Q /\ "failed" \in Q
    BY <1>0, <1>1, <2>1
  <2>4. <<"python", "failed">> \o r = <<"python">> \o (<<"failed">> \o r)
    BY <2>3, Unfold2 DEF Q
  <2>5. ASSUME NEW n, Owes(todo, t, r, n) PROVE Owes(todo, t, <<"python", "failed">> \o r, n)
    <3> DEFINE l == <<"failed">> \o r
    <3>1. Owes(todo, t, l, n)
      BY <1>4, <2>3, <2>5
    <3> HIDE DEF l
    <3>2. Owes(todo, t, <<"python">> \o l, n)
      BY <1>4, <2>3, <3>1
    <3> QED BY <2>4, <3>2 DEF l
  <2> QED BY <1>2, <2>1, <2>2, <2>3, <2>5
<1>10. CASE UninitializeCom(t)
  <2>1. PICK x \in {"undone", "left"} :
        /\ At(t, "uninit") /\ UNCHANGED <<lockCount, hasInitialized, imported>>
        /\ \/ Then(t, <<>>) /\ UNCHANGED objects
           \/ Then(t, <<x>>) /\ UNCHANGED objects
           \/ Then(t, DeleteGateway \o <<x>>) /\ objects > 0 /\ objects' = objects - 1
    BY <1>10 DEF UninitializeCom, locks
  <2>2. "uninit" \in Q /\ x \in Q
    BY <1>0
  <2>3. CASE Then(t, <<>>) /\ UNCHANGED objects
    BY <1>5, <2>1, <2>2, <2>3
  <2>4. CASE Then(t, <<x>>) /\ UNCHANGED objects
    BY <1>2, <1>4, <2>1, <2>2, <2>4
  <2>5. CASE Then(t, DeleteGateway \o <<x>>) /\ objects > 0 /\ objects' = objects - 1
    <3>1. \A n : Owes(todo, t, r, n) => Owes(todo, t, (DeleteGateway \o <<x>>) \o r, n + 1)
      BY <1>0, OwesDelete
    <3> QED BY <1>3, <2>1, <2>2, <2>5, <3>1
  <2> QED BY <2>1, <2>3, <2>4, <2>5
<1> QED BY <1>6, <1>7, <1>8, <1>9, <1>10

LEMMA CountsBody ==
  ASSUME LockInv, CountInv, NEW t \in Threads, Body(t)
  PROVE  CountInv'
<1> DEFINE r == Tail(todo[t])
<1>0. At(t, "body") /\ imported \in BOOLEAN /\ todo \in [Threads -> Seq(Steps)] /\ <<>> \o r = r
  BY HeadOwes DEF CountInv, LockInv, Body, ReturnFromPython, Import, MakeObject, DropObject,
     CallCoInitialize, CallCoUninitialize
<1>1. ASSUME NEW w, Then(t, w), UNCHANGED <<lockCount, objects, hasInitialized>>, imported' \in BOOLEAN,
             \A n : Owes(todo, t, r, n) => Owes(todo, t, w \o r, n)
      PROVE  CountInv'
  BY <1>0, <1>1, CountsNothing
<1>2. CASE DropObject(t)
  <2>1. /\ Then(t, DeleteWrapper) /\ objects > 0 /\ objects' = objects - 1
        /\ UNCHANGED <<lockCount, hasInitialized, imported>>
    BY <1>2 DEF DropObject, locks
  <2>2. \A n : Owes(todo, t, r, n) => Owes(todo, t, DeleteWrapper \o r, n + 1)
    BY <1>0, OwesDelete
  <2> QED BY <1>0, <2>1, <2>2, CountsGone
<1> HIDE DEF r
<1>3. CASE ReturnFromPython(t)
  BY <1>0, <1>1, <1>3 DEF ReturnFromPython, counted, locks
<1>4. CASE Import(t)
  <2>1. PICK mode \in Modes : Then(t, ImportPythoncom(mode))
    BY <1>4 DEF Import
  <2>2. \A n : Owes(todo, t, r, n) => Owes(todo, t, ImportPythoncom(mode) \o r, n)
    BY <1>0, OwesImport
  <2> QED BY <1>1, <1>4, <2>1, <2>2 DEF Import, counted
<1>5. CASE MakeObject(t)
  <2>1. \A n : Owes(todo, t, r, n) => Owes(todo, t, Make \o r, n)
    BY <1>0, OwesMake
  <2> QED BY <1>0, <1>1, <1>5, <2>1 DEF MakeObject, counted, locks
<1>6. CASE CallCoInitialize(t)
  <2>1. PICK request \in Requests : Then(t, CoInitialize(request))
    BY <1>6 DEF CallCoInitialize
  <2>2. \A n : Owes(todo, t, r, n) => Owes(todo, t, CoInitialize(request) \o r, n)
    BY <1>0, OwesApartment DEF CoInitialize
  <2> QED BY <1>0, <1>1, <1>6, <2>1, <2>2 DEF CallCoInitialize, counted, locks
<1>7. CASE CallCoUninitialize(t)
  <2>1. \A n : Owes(todo, t, r, n) => Owes(todo, t, CoUninitialize \o r, n)
    BY <1>0, OwesApartment DEF CoUninitialize
  <2> QED BY <1>0, <1>1, <1>7, <2>1 DEF CallCoUninitialize, counted, locks
<1> QED BY <1>2, <1>3, <1>4, <1>5, <1>6, <1>7 DEF Body

LEMMA CreateInstanceUnfolds ==
  CreateInstance = <<"lock">> \o (<<"addref">> \o (<<"unlock">> \o (<<"python">> \o (<<"release">> \o <<>>))))
<1>0. {"lock", "addref", "unlock", "python", "release"} \subseteq Steps
  BY DEF Steps
<1> DEFINE a == <<"python">> \o <<"release">>
<1>1. CreateInstance = <<"lock", "addref", "unlock">> \o a
  BY DEF CreateInstance, DLLAddRef, DLLReleaseRef
<1>2. a \in Seq(Steps)
  BY <1>0
<1> HIDE DEF a
<1>3. CreateInstance = <<"lock">> \o (<<"addref">> \o (<<"unlock">> \o a))
  BY <1>0, <1>1, <1>2, Unfold3
<1>4. <<"release">> \o <<>> = <<"release">>
  OBVIOUS
<1> QED BY <1>3, <1>4 DEF a

LEMMA CountsCall ==
  ASSUME LockInv, CountInv, NEW t \in Threads, Call(t)
  PROVE  CountInv'
<1> DEFINE n == lockCount - objects
<1>0. /\ objects \in Nat /\ lockCount \in Int /\ imported \in BOOLEAN /\ hasInitialized \in BOOLEAN
      /\ todo \in [Threads -> Seq(Steps)] /\ n \in Int
  BY DEF CountInv, LockInv
<1>1. UNCHANGED <<lockCount, hasInitialized, imported>>
  BY DEF Call, CallCreateInstance, CallPython, ReleaseGateway, CallLockServer, HostInitializes,
     HostUninitializes, ThreadEnds, counted, locks
<1>2. CASE UNCHANGED <<todo, objects>>
  BY <1>1, <1>2 DEF CountInv
<1>3. CASE HostInitializes(t) \/ HostUninitializes(t) \/ ThreadEnds(t)
  BY <1>2, <1>3 DEF HostInitializes, HostUninitializes, ThreadEnds, counted
<1>4. CASE CallCreateInstance(t) \/ CallPython(t) \/ ReleaseGateway(t) \/ CallLockServer(t)
  <2>1. PICK w : Begin(t, w)
    BY <1>4 DEF CallCreateInstance, CallPython, ReleaseGateway, CallLockServer
  <2>2. Idle(t) /\ todo[t] = <<>>
    BY <2>1 DEF Begin, Idle
  <2>3. Owes(todo, t, <<>>, n)
    <3>1. Put(todo, t, <<>>) = todo
      BY <1>0, <2>2 DEF Put
    <3> QED BY <1>0, <2>2, <3>1 DEF Owes, CountInv
  <2> HIDE DEF n
  <2>4. ASSUME NEW v, Begin(t, v),
               \/ objects' = objects /\ Owes(todo, t, v, n)
               \/ objects > 0 /\ objects' = objects - 1 /\ Owes(todo, t, v, n + 1)
        PROVE  CountInv'
    <3>1. objects' \in Nat /\ lockCount' \in Int
          /\ lockCount' - objects' = IF objects' = objects THEN n ELSE n + 1
      BY <1>0, <1>1, <2>4 DEF n
    <3>2. Owes(todo, t, v, lockCount' - objects')
      <4>1. CASE objects' = objects
        <5>1. objects' # objects - 1
          BY <1>0, <4>1
        <5>2. Owes(todo, t, v, n)
          BY <2>4, <5>1
        <5> QED BY <3>1, <4>1, <5>2
      <4>2. CASE objects' # objects
        <5>1. Owes(todo, t, v, n + 1)
          BY <2>4, <4>2
        <5> QED BY <3>1, <4>2, <5>1
      <4> QED BY <4>1, <4>2
    <3>3. todo' = [todo EXCEPT ![t] = v]
      BY <2>4 DEF Begin
    <3> QED BY <1>0, <1>1, <3>1, <3>2, <3>3, CountMoves
  <2>5. CASE CallCreateInstance(t)
    <3>1. Owes(todo, t, CreateInstance, n)
      <4>1. CreateInstance = <<"lock">> \o (<<"addref">> \o (<<"unlock">> \o
                               (<<"python">> \o (<<"release">> \o <<>>))))
        BY CreateInstanceUnfolds
      <4> QED BY <1>0, <2>3, <4>1, OwesMake
    <3> QED BY <2>4, <2>5, <3>1 DEF CallCreateInstance, counted
  <2>6. CASE CallPython(t)
    <3>1. "python" \in Steps \ {"addref", "release", "made"} /\ <<"python">> \o <<>> = <<"python">>
      BY DEF Steps
    <3>2. Owes(todo, t, <<"python">>, n)
      <4> DEFINE e == <<>>
      <4>1. Owes(todo, t, e, n) /\ <<"python">> \o e = <<"python">>
        BY <2>3, <3>1
      <4> HIDE DEF e
      <4> QED BY <1>0, <3>1, <4>1, OwesQuiet
    <3> QED BY <2>4, <2>6, <3>2 DEF CallPython, counted
  <2>7. /\ Owes(todo, t, DeleteGateway, n + 1) /\ Owes(todo, t, DLLReleaseRef, n + 1)
        /\ Owes(todo, t, Make, n)
    <3> DEFINE e == <<>>
    <3>1. /\ Owes(todo, t, e, n) /\ "release" \in Steps
          /\ <<"release">> \o e = <<"release">> /\ Make \o e = Make
      BY <2>3 DEF Steps, Make, DLLAddRef
    <3> HIDE DEF e
    <3>2. /\ Owes(todo, t, <<"python">> \o (<<"release">> \o e), n + 1)
          /\ Owes(todo, t, <<"release">> \o e, n + 1) /\ Owes(todo, t, Make \o e, n)
      BY <1>0, <3>1, OwesDelete, OwesOne, OwesMake
    <3> QED BY <3>1, <3>2 DEF DeleteGateway, DLLReleaseRef
  <2>8. CASE ReleaseGateway(t)
    BY <2>4, <2>7, <2>8 DEF ReleaseGateway
  <2>9. CASE CallLockServer(t)
    BY <2>4, <2>7, <2>9 DEF CallLockServer
  <2> QED BY <1>4, <2>5, <2>6, <2>8, <2>9
<1> QED BY <1>3, <1>4 DEF Call

LEMMA CountStep == LockInv /\ CountInv /\ [Next]_vars => CountInv'
<1> SUFFICES ASSUME LockInv, CountInv, [Next]_vars PROVE CountInv'
  OBVIOUS
<1>1. CASE Next
  BY <1>1, CountsOne, CountsLocks, CountsBody, CountsCall DEF Next, Step
<1>2. CASE UNCHANGED vars
  BY <1>2 DEF vars, locks, counted, CountInv
<1> QED BY <1>1, <1>2

LEMMA NothingOwed ==
  ASSUME \A t \in Threads : Idle(t)
  PROVE  /\ IsFiniteSet(Ups(todo)) /\ Cardinality(Ups(todo)) = 0
         /\ IsFiniteSet(Downs(todo)) /\ Cardinality(Downs(todo)) = 0
         /\ \A t \in Threads : Matched(todo[t])
<1>1. \A t \in Threads : todo[t] = <<>> /\ Len(<<>>) = 0
  BY DEF Idle
<1>2. Ups(todo) = {} /\ Downs(todo) = {}
  BY <1>1 DEF Ups, Downs, Owing
<1>3. \A t \in Threads : Matched(todo[t])
  BY <1>1 DEF Matched
<1> QED BY <1>2, <1>3, FS_EmptySet

LEMMA CountInit == Init => CountInv
<1> SUFFICES ASSUME Init PROVE CountInv
  OBVIOUS
<1>1. \A t \in Threads : Idle(t)
  BY DEF Init, Idle
<1>2. lockCount = 0 /\ objects = 0 /\ imported = FALSE /\ hasInitialized = FALSE
  BY DEF Init
<1>3. Balanced(todo, 0)
  BY <1>1, NothingOwed DEF Balanced
<1>4. Balanced(todo, lockCount - objects)
  <2>1. lockCount - objects = 0
    BY <1>2
  <2> QED BY <1>3, <2>1
<1>5. objects \in Nat /\ lockCount \in Int
  BY <1>2
<1>6. imported \in BOOLEAN /\ hasInitialized \in BOOLEAN
  BY <1>2, Zenon
<1> QED BY <1>4, <1>5, <1>6 DEF CountInv

LEMMA CountAlways == Spec => []CountInv
BY CountInit, CountStep, LockAlways, PTL DEF Spec

\* What is counted up is matched by something else that will be counted down.
LEMMA UpsAreMatched ==
  ASSUME LockInv, CountInv
  PROVE  Cardinality(Ups(todo)) =< Cardinality(Downs(todo))
<1> DEFINE At2(p) == FromEnd(todo[p[1]], p[2] - 2)
           Back(p) == IF At2(p) = "made" THEN p[2] - 2 ELSE p[2] - 3
           f == [p \in Ups(todo) |-> <<p[1], Back(p)>>]
<1>1. ASSUME NEW p \in Ups(todo)
      PROVE  /\ p[1] \in Threads /\ p[2] \in Nat /\ p = <<p[1], p[2]>>
             /\ Back(p) \in 1 .. Len(todo[p[1]]) /\ Back(p) \in Nat
             /\ \/ At2(p) = "made" /\ Back(p) = p[2] - 2
                \/ /\ At2(p) = "python" /\ Back(p) = p[2] - 3
                   /\ FromEnd(todo[p[1]], Back(p)) = "release"
  <2>1. /\ p \in Threads \X Nat /\ p[2] \in 1 .. Len(todo[p[1]])
        /\ FromEnd(todo[p[1]], p[2]) = "addref"
    BY DEF Ups, Owing
  <2>2. Matched(todo[p[1]]) /\ Len(todo[p[1]]) \in Nat
    BY <2>1 DEF CountInv, Balanced, LockInv
  <2>3. \/ p[2] > 2 /\ At2(p) = "made"
        \/ p[2] > 3 /\ At2(p) = "python" /\ FromEnd(todo[p[1]], p[2] - 3) = "release"
    BY <2>1, <2>2 DEF Matched
  <2>4. CASE p[2] > 2 /\ At2(p) = "made"
    <3>1. p[2] - 2 \in 1 .. Len(todo[p[1]]) /\ p[2] - 2 \in Nat
      BY <2>1, <2>2, <2>4
    <3> QED BY <2>1, <2>4, <3>1
  <2>5. CASE p[2] > 3 /\ At2(p) = "python" /\ FromEnd(todo[p[1]], p[2] - 3) = "release"
    <3>1. p[2] - 3 \in 1 .. Len(todo[p[1]]) /\ p[2] - 3 \in Nat /\ Back(p) = p[2] - 3
      BY <2>1, <2>2, <2>5
    <3> QED BY <2>1, <2>5, <3>1
  <2> QED BY <2>3, <2>4, <2>5
<1>2. ASSUME NEW p \in Ups(todo) PROVE f[p] \in Downs(todo)
  <2>1. FromEnd(todo[p[1]], Back(p)) \in {"release", "made"}
    BY <1>1
  <2> HIDE DEF Back
  <2> QED BY <1>1, <2>1 DEF Downs, Owing
<1>3. ASSUME NEW p \in Ups(todo), NEW q \in Ups(todo), f[p] = f[q] PROVE p = q
  <2>1. p[1] = q[1] /\ Back(p) = Back(q)
    BY <1>3
  <2>2. At2(p) = At2(q)
    <3>1. CASE At2(p) = "made" /\ At2(q) = "python"
      <4>1. p[2] - 2 = Back(q)
        BY <1>1, <2>1, <3>1
      <4> QED BY <1>1, <2>1, <3>1, <4>1
    <3>2. CASE At2(p) = "python" /\ At2(q) = "made"
      <4>1. q[2] - 2 = Back(p)
        BY <1>1, <2>1, <3>2
      <4> QED BY <1>1, <2>1, <3>2, <4>1
    <3>3. At2(p) \in {"made", "python"} /\ At2(q) \in {"made", "python"}
      BY <1>1
    <3> QED BY <3>1, <3>2, <3>3
  <2>3. p[2] = q[2]
    <3>1. p[2] \in Nat /\ q[2] \in Nat
      BY <1>1
    <3> QED BY <2>1, <2>2, <3>1
  <2> QED BY <1>1, <2>1, <2>3
<1>4. f \in Injection(Ups(todo), Downs(todo))
  BY <1>2, <1>3 DEF Injection, IsInjective
<1>5. IsFiniteSet(Downs(todo))
  BY DEF CountInv, Balanced
<1> QED BY <1>4, <1>5, FS_Injection

LEMMA CountKept ==
  ASSUME LockInv, CountInv
  PROVE  /\ lockCount >= objects
         /\ (\A t \in Threads : Idle(t)) => lockCount = objects
<1>1. /\ objects \in Nat /\ lockCount \in Int
      /\ Cardinality(Downs(todo)) = Cardinality(Ups(todo)) + (lockCount - objects)
      /\ Cardinality(Downs(todo)) \in Nat /\ Cardinality(Ups(todo)) \in Nat
  BY FS_CardinalityType DEF CountInv, Balanced
<1>2. lockCount >= objects
  BY <1>1, UpsAreMatched
<1>3. (\A t \in Threads : Idle(t)) => lockCount = objects
  BY <1>1, NothingOwed
<1> QED BY <1>2, <1>3

\* PyCom_DLLAddRef and PyCom_DLLReleaseRef: g_cLockCount, which tells the server to quit when
\* it comes to 0, is never less than the things of COM that live, whatever the threads are in
\* the middle of, and is exactly that when no thread runs.
THEOREM SpecCountKept ==
  Spec => []/\ lockCount >= objects
            /\ (\A t \in Threads : Idle(t)) => lockCount = objects
BY CountKept, LockAlways, CountAlways, PTL

\* The host's own initializations of COM are bounded.
HostBound == \A t \in Threads : host[t] =< MaxInits

LEMMA HostStep == ComTypes /\ HostBound /\ [Next]_vars => HostBound'
<1> SUFFICES ASSUME ComTypes, HostBound, [Next]_vars, NEW u \in Threads PROVE host'[u] =< MaxInits
  BY DEF HostBound
<1>1. host \in [Threads -> Nat] /\ host[u] =< MaxInits /\ MaxInits \in Nat
  BY ThreadsAssumption DEF ComTypes, HostBound
<1>2. CASE UNCHANGED host
  BY <1>1, <1>2
<1>3. CASE UNCHANGED vars
  BY <1>2, <1>3 DEF vars, com
<1>4. ASSUME NEW t \in Threads, Step(t) PROVE UNCHANGED host
  BY <1>4 DEF Step, EnterFramework, LeaveFramework, EnterPython, GiveUpGil, TakeGil, CountUp,
     PythonIsUp, ObjectIsMade, CountDown, InitializeCom, InitializeFails, FailureIsReported,
     UninitializeCom, ComIsUndone, Body, ReturnFromPython, Import, MakeObject, DropObject,
     CallCoInitialize, CallCoUninitialize, com
<1>5. ASSUME NEW t \in Threads, Call(t) PROVE host'[u] =< MaxInits
  <2>1. CASE HostInitializes(t)
    <3>1. host[t] < MaxInits /\ host[t] \in Nat /\ host' = [host EXCEPT ![t] = @ + 1]
      BY <1>1, <2>1 DEF HostInitializes
    <3> QED BY <1>1, <3>1
  <2>2. CASE HostUninitializes(t)
    <3>1. host[t] > 0 /\ host[t] \in Nat /\ host' = [host EXCEPT ![t] = @ - 1]
      BY <1>1, <2>2 DEF HostUninitializes
    <3> QED BY <1>1, <3>1
  <2>3. CASE ThreadEnds(t)
    BY <1>1, <2>3 DEF ThreadEnds
  <2>4. CASE CallCreateInstance(t) \/ CallPython(t) \/ ReleaseGateway(t) \/ CallLockServer(t)
    BY <1>2, <2>4 DEF CallCreateInstance, CallPython, ReleaseGateway, CallLockServer, com
  <2> QED BY <1>5, <2>1, <2>2, <2>3, <2>4 DEF Call
<1> QED BY <1>2, <1>3, <1>4, <1>5 DEF Next

\* The state of the locks, of the count, of the start of Python and of the apartments has its
\* type; above all the lock count is never below zero.
THEOREM SpecTypeOK == Spec => []TypeOK
<1>1. Init => Unstarted /\ HostBound
  BY ThreadsAssumption DEF Init, Unstarted, Early, HostBound
<1>2. LockInv /\ CountInv /\ Unstarted /\ ComInv /\ HostBound => TypeOK
  <2> SUFFICES ASSUME LockInv, CountInv, Unstarted, ComInv, HostBound PROVE TypeOK
    OBVIOUS
  <2>1. todo \in [Threads -> Seq(Steps)] /\ gil \in Threads \cup {None}
        /\ framework \in [owner : Threads \cup {None}, depth : Nat]
    BY DEF LockInv
  <2>2. lockCount \in Nat /\ objects \in Nat /\ imported \in BOOLEAN /\ hasInitialized \in BOOLEAN
    <3>1. lockCount >= objects /\ objects \in Nat /\ lockCount \in Int
      BY CountKept DEF CountInv
    <3>2. lockCount \in Nat
      BY <3>1
    <3> QED BY <3>1, <3>2 DEF CountInv
  <2>3. host \in [Threads -> 0 .. MaxInits]
    <3>1. \A t \in Threads : host[t] \in 0 .. MaxInits
      BY ThreadsAssumption DEF ComInv, ComTypes, HostBound
    <3> QED BY <3>1 DEF ComInv, ComTypes
  <2>4. /\ initThread \in Threads \cup {None} /\ hasInit \in BOOLEAN /\ sameThread \in BOOLEAN
        /\ ole \in [Threads -> [mode : Modes \cup {"none"}, count : Nat]]
        /\ mine \in [Threads -> Nat] /\ overdrawn \in SUBSET Threads
        /\ ready \in [Threads -> {"no", "borrowed", "entered"}]
    BY DEF ComInv, ComTypes
  <2>5. python \in {"down", "starting", "up"}
    BY DEF Unstarted
  <2> QED BY <2>1, <2>2, <2>3, <2>4, <2>5 DEF TypeOK
<1>3. ComInv => ComTypes
  BY DEF ComInv
<1> QED BY <1>1, <1>2, <1>3, LockAlways, CountAlways, ComAlways, UnstartedStep, HostStep, PTL DEF Spec
=============================================================================
