--------------------------- MODULE TraceMapProofs ---------------------------
(***************************************************************************)
(* Proofs about TraceMap, for any number of processes and handle values.   *)
(* They are about the processes that use win32trace from one thread, next  *)
(* to others that may use it from several: with two threads the checks     *)
(* that open a call are stale by the time its system calls are made, and   *)
(* every property here fails, but for that process only.                   *)
(***************************************************************************)
EXTENDS TraceMap, FiniteSetTheorems, TLAPS

\* Process p uses win32trace from one thread at most.
Alone(p) == \A t, u \in Threads : ProcOf[t] = p /\ ProcOf[u] = p => t = u

OneThread == \A p \in Procs : Alone(p)

\* A call about side s of process p is at one of these points.
Busy(p, s, where) ==
  \E t \in Threads : ProcOf[t] = p /\ side[t] = s /\ pc[t] \in where

\* A view the trace object has is mapped, except just after its unmapping,
\* and every view of a section is that of one side.
ViewInv(p) ==
  /\ \A s \in Sides : pMapBase[p][s] # Null =>
       IF Busy(p, s, {"clearView"}) THEN views[p][pMapBase[p][s]] = Free
                                    ELSE views[p][pMapBase[p][s]] \in Sections
  /\ \A v \in Values : views[p][v] \in Sections => \E s \in Sides : pMapBase[p][s] = v
  /\ pMapBase[p]["read"] # Null => pMapBase[p]["read"] # pMapBase[p]["write"]

HandleInv(p) ==
  \A v \in Values : handles[p][v] \in Sections => \E s \in Sides : hMapFile[p][s] = v

\* Where no system call fails the handles are as good as the views: each is
\* open until it is closed, a view has one, and they are of one section.
RichInv(p) ==
  /\ \A s \in Sides : hMapFile[p][s] # Null /\ ~Busy(p, s, {"clearHandle"}) =>
                        handles[p][hMapFile[p][s]] \in Sections
  /\ \A s \in Sides : pMapBase[p][s] # Null => hMapFile[p][s] # Null
  /\ \A s \in Sides : hMapFile[p][s] # Null /\ pMapBase[p][s] = Null =>
                        Busy(p, s, {"map", "close", "clearHandle"})
  /\ hMapFile[p]["read"] # Null => hMapFile[p]["read"] # hMapFile[p]["write"]
  /\ \A s \in Sides : pMapBase[p][s] # Null /\ ~Busy(p, s, {"clearView"}) =>
                        handles[p][hMapFile[p][s]] = views[p][pMapBase[p][s]]

\* What a thread may rely on, at each point of a call.
PcInv(t) ==
  /\ pc[t] = "create" => HandleOf(t) = Null
  /\ pc[t] \in {"create", "map", "close", "clearHandle"} => ViewOf(t) = Null
  /\ pc[t] \in {"unmap", "clearView", "use"} => ViewOf(t) # Null
  /\ pc[t] = "map" => HandleOf(t) # Null /\ handles[ProcOf[t]][HandleOf(t)] \in Sections
  /\ pc[t] = "clearHandle" =>
       HandleOf(t) # Null /\ handles[ProcOf[t]][HandleOf(t)] \notin Sections

ProcInv(p) == /\ \A t \in Threads : ProcOf[t] = p => PcInv(t)
              /\ ViewInv(p)
              /\ HandleInv(p)
              /\ p \notin poor => RichInv(p)

\* At most one section has the name.
NamedOne == \A r, u \in Named : r = u

MapInv == TypeOK /\ NamedOne /\ \A p \in Procs : Alone(p) => ProcInv(p)

(***************************************************************************)
(* Types                                                                   *)
(***************************************************************************)
LEMMA OpenedIsSection ==
  ASSUME Named # {} \/ Mapped # Sections PROVE Opened \in Sections
BY DEF Opened, Named, Mapped

LEMMA TypeStep == TypeOK /\ [Next]_vars => TypeOK'
<1> SUFFICES ASSUME TypeOK, [Next]_vars PROVE TypeOK'
  OBVIOUS
<1> USE MapAssumption DEF TypeOK, Goto, SetHandle, SetView, HandleOf, ViewOf,
        object, system, Sides
<1>1. ASSUME NEW t \in Threads, NEW s \in Sides, InitCall(t, s) PROVE TypeOK'
  BY <1>1 DEF InitCall
<1>2. ASSUME NEW t \in Threads, NEW s \in Sides, TermCall(t, s) PROVE TypeOK'
  BY <1>2 DEF TermCall
<1>3. ASSUME NEW t \in Threads, NEW s \in Sides, UseCall(t, s) PROVE TypeOK'
  BY <1>3 DEF UseCall
<1>4. ASSUME NEW t \in Threads, OpenSection(t) PROVE TypeOK'
  BY <1>4, OpenedIsSection DEF OpenSection, CreateFileMapping
<1>5. ASSUME NEW t \in Threads, OpenFails(t) PROVE TypeOK'
  BY <1>5 DEF OpenFails
<1>6. ASSUME NEW t \in Threads, MapView(t) PROVE TypeOK'
  BY <1>6 DEF MapView, MapViewOfFile
<1>7. ASSUME NEW t \in Threads, MapViewFails(t) PROVE TypeOK'
  <2>1. handles' \in [Procs -> [Values -> Sections \cup {Free, Alien}]]
    <3>1. CASE HandleOf(t) = Null
      BY <1>7, <3>1 DEF MapViewFails
    <3>2. CASE HandleOf(t) # Null
      <4>1. HandleOf(t) \in Values /\ ProcOf[t] \in Procs
        BY <3>2
      <4>2. handles' = [handles EXCEPT ![ProcOf[t]][HandleOf(t)] = Free]
        BY <1>7, <3>2 DEF MapViewFails, CloseHandle
      <4> QED BY <4>1, <4>2
    <3> QED BY <3>1, <3>2
  <2> QED BY <1>7, <2>1 DEF MapViewFails
<1>8. ASSUME NEW t \in Threads, UnmapView(t) PROVE TypeOK'
  <2>1. CASE ViewOf(t) = Null
    BY <1>8, <2>1 DEF UnmapView
  <2>2. CASE ViewOf(t) # Null
    <3>1. ViewOf(t) \in Values /\ ProcOf[t] \in Procs
      BY <2>2
    <3>2. views' = [views EXCEPT ![ProcOf[t]][ViewOf(t)] = Free]
      BY <1>8, <2>2 DEF UnmapView, UnmapViewOfFile
    <3>3. views' \in [Procs -> [Values -> Sections \cup {Free}]]
      BY <3>1, <3>2
    <3> QED BY <1>8, <3>3 DEF UnmapView
  <2> QED BY <2>1, <2>2
<1>9. ASSUME NEW t \in Threads, ClearView(t) PROVE TypeOK'
  BY <1>9 DEF ClearView
<1>10. ASSUME NEW t \in Threads, CloseSection(t) PROVE TypeOK'
  BY <1>10 DEF CloseSection, CloseHandle
<1>11. ASSUME NEW t \in Threads, NothingToClose(t) PROVE TypeOK'
  BY <1>11 DEF NothingToClose
<1>12. ASSUME NEW t \in Threads, ClearHandle(t) PROVE TypeOK'
  BY <1>12 DEF ClearHandle
<1>13. ASSUME NEW t \in Threads, Access(t) PROVE TypeOK'
  BY <1>13 DEF Access
<1>14. ASSUME NEW p \in Procs, OtherOpen(p) PROVE TypeOK'
  BY <1>14 DEF OtherOpen
<1>15. ASSUME NEW p \in Procs, OtherClose(p) PROVE TypeOK'
  BY <1>15 DEF OtherClose, CloseHandle
<1>16. ASSUME NEW p \in Procs, Exit(p) PROVE TypeOK'
  BY <1>16 DEF Exit
<1>17. CASE UNCHANGED vars
  BY <1>17 DEF vars
<1> QED BY <1>1, <1>2, <1>3, <1>4, <1>5, <1>6, <1>7, <1>8, <1>9, <1>10, <1>11,
           <1>12, <1>13, <1>14, <1>15, <1>16, <1>17 DEF Next

(***************************************************************************)
(* What a step leaves alone                                                *)
(***************************************************************************)

\* A process whose tables, sides and threads stay as they are keeps ProcInv.
LEMMA Undisturbed ==
  ASSUME NEW p \in Procs, ProcInv(p),
         hMapFile'[p] = hMapFile[p], pMapBase'[p] = pMapBase[p],
         handles'[p] = handles[p], views'[p] = views[p], poor' = poor,
         \A t \in Threads : ProcOf[t] = p => pc'[t] = pc[t] /\ side'[t] = side[t]
  PROVE ProcInv(p)'
<1>1. ASSUME NEW s, NEW where PROVE Busy(p, s, where)' <=> Busy(p, s, where)
  BY DEF Busy
<1>2. ViewInv(p)'
  BY <1>1 DEF ProcInv, ViewInv
<1>3. HandleInv(p)'
  BY DEF ProcInv, HandleInv
<1>4. (p \notin poor => RichInv(p))'
  BY <1>1 DEF ProcInv, RichInv
<1>5. ASSUME NEW t \in Threads, ProcOf[t] = p PROVE PcInv(t)'
  BY <1>5 DEF ProcInv, PcInv, HandleOf, ViewOf
<1> QED BY <1>2, <1>3, <1>4, <1>5 DEF ProcInv

\* No step but OpenSection gives a handle a section.
LEMMA FewerNamed ==
  ASSUME NamedOne,
         \A p \in Procs, v \in Values :
           handles'[p][v] \in Sections => handles'[p][v] = handles[p][v]
  PROVE NamedOne'
BY DEF NamedOne, Named

LEMMA NamedAfterOpen ==
  ASSUME TypeOK, NamedOne, NEW p \in Procs, NEW h \in Values, CreateFileMapping(p, h)
  PROVE NamedOne'
<1>1. \A r \in Named' : r \in Named \/ r = Opened
  BY DEF Named, CreateFileMapping, TypeOK
<1>2. Named # {} => Opened \in Named
  BY DEF Opened
<1> QED BY <1>1, <1>2 DEF NamedOne

\* ProcInv of the process of thread t, which has no other: what the points
\* of t say takes the place of Busy.
MyView(t) ==
  LET p == ProcOf[t] IN
  /\ \A s \in Sides : pMapBase[p][s] # Null =>
       IF side[t] = s /\ pc[t] = "clearView" THEN views[p][pMapBase[p][s]] = Free
                                            ELSE views[p][pMapBase[p][s]] \in Sections
  /\ \A v \in Values : views[p][v] \in Sections => \E s \in Sides : pMapBase[p][s] = v
  /\ pMapBase[p]["read"] # Null => pMapBase[p]["read"] # pMapBase[p]["write"]

MyRich(t) ==
  LET p == ProcOf[t] IN
  /\ \A s \in Sides : hMapFile[p][s] # Null /\ ~(side[t] = s /\ pc[t] = "clearHandle") =>
                        handles[p][hMapFile[p][s]] \in Sections
  /\ \A s \in Sides : pMapBase[p][s] # Null => hMapFile[p][s] # Null
  /\ \A s \in Sides : hMapFile[p][s] # Null /\ pMapBase[p][s] = Null =>
                        side[t] = s /\ pc[t] \in {"map", "close", "clearHandle"}
  /\ hMapFile[p]["read"] # Null => hMapFile[p]["read"] # hMapFile[p]["write"]
  /\ \A s \in Sides : pMapBase[p][s] # Null /\ ~(side[t] = s /\ pc[t] = "clearView") =>
                        handles[p][hMapFile[p][s]] = views[p][pMapBase[p][s]]

MyInv(t) == /\ PcInv(t)
            /\ MyView(t)
            /\ HandleInv(ProcOf[t])
            /\ ProcOf[t] \notin poor => MyRich(t)

LEMMA MyInvIsProcInv ==
  ASSUME NEW t \in Threads, Alone(ProcOf[t])
  PROVE /\ ProcInv(ProcOf[t]) <=> MyInv(t)
        /\ ProcInv(ProcOf[t])' <=> MyInv(t)'
<1> DEFINE p == ProcOf[t]
<1>1. \A u \in Threads : ProcOf[u] = p <=> u = t
  BY DEF Alone
<1>2. \A s \in Sides :
        /\ Busy(p, s, {"clearView"}) <=> side[t] = s /\ pc[t] = "clearView"
        /\ Busy(p, s, {"clearHandle"}) <=> side[t] = s /\ pc[t] = "clearHandle"
        /\ Busy(p, s, {"map", "close", "clearHandle"}) <=>
             side[t] = s /\ pc[t] \in {"map", "close", "clearHandle"}
  BY <1>1 DEF Busy
<1>3. \A s \in Sides :
        /\ Busy(p, s, {"clearView"})' <=> side'[t] = s /\ pc'[t] = "clearView"
        /\ Busy(p, s, {"clearHandle"})' <=> side'[t] = s /\ pc'[t] = "clearHandle"
        /\ Busy(p, s, {"map", "close", "clearHandle"})' <=>
             side'[t] = s /\ pc'[t] \in {"map", "close", "clearHandle"}
  BY <1>1 DEF Busy
<1>4. ViewInv(p) <=> MyView(t)
  BY <1>2 DEF ViewInv, MyView
<1>5. ViewInv(p)' <=> MyView(t)'
  BY <1>3 DEF ViewInv, MyView
<1>6. RichInv(p) <=> MyRich(t)
  BY <1>2 DEF RichInv, MyRich
<1>7. RichInv(p)' <=> MyRich(t)'
  BY <1>3 DEF RichInv, MyRich
<1> QED BY <1>1, <1>4, <1>5, <1>6, <1>7 DEF ProcInv, MyInv

(***************************************************************************)
(* The steps of a thread keep the invariant of its process                 *)
(***************************************************************************)
LEMMA CallsKeepMine ==
  ASSUME TypeOK, NEW t \in Threads, MyInv(t), NEW s \in Sides,
         InitCall(t, s) \/ TermCall(t, s) \/ UseCall(t, s)
  PROVE MyInv(t)'
<1> USE MapAssumption DEF TypeOK, Goto, object, system
<1> DEFINE p == ProcOf[t]
<1>1. /\ pc[t] = "idle" /\ side'[t] = s
      /\ UNCHANGED <<hMapFile, pMapBase, handles, views, poor>>
  BY DEF InitCall, TermCall, UseCall
<1>2. pc'[t] \in {"create", "unmap", "close", "use"}
  BY DEF InitCall, TermCall, UseCall
<1>3. /\ pc'[t] = "create" => hMapFile[p][s] = Null /\ pMapBase[p][s] = Null
      /\ pc'[t] = "close" => pMapBase[p][s] = Null
      /\ pc'[t] \in {"unmap", "use"} => pMapBase[p][s] # Null
  BY DEF InitCall, TermCall, UseCall
<1>4. PcInv(t)'
  BY <1>1, <1>2, <1>3 DEF PcInv, HandleOf, ViewOf
<1>5. MyView(t)'
  BY <1>1, <1>2 DEF MyInv, MyView
<1>6. HandleInv(p)'
  BY <1>1 DEF MyInv, HandleInv
<1>7. ASSUME p \notin poor PROVE MyRich(t)'
  BY <1>1, <1>2, <1>3, <1>7 DEF MyInv, MyRich
<1> QED BY <1>1, <1>4, <1>5, <1>6, <1>7 DEF MyInv

LEMMA OpenKeepsMine ==
  ASSUME TypeOK, NEW t \in Threads, MyInv(t), OpenSection(t)
  PROVE MyInv(t)'
<1> USE MapAssumption DEF TypeOK, Goto
<1> DEFINE p == ProcOf[t]
           s == side[t]
<1>0. p \in Procs /\ s \in Sides
  OBVIOUS
<1>1. PICK h \in Values : CreateFileMapping(p, h) /\ SetHandle(t, h)
  BY DEF OpenSection
<1>2. Opened \in Sections
  BY <1>1, OpenedIsSection DEF CreateFileMapping
<1>3. /\ pc[t] = "create" /\ pc'[t] = "map"
      /\ UNCHANGED <<pMapBase, views, poor, side>>
  BY DEF OpenSection
<1>4. /\ handles[p][h] = Free /\ handles'[p][h] = Opened
      /\ \A v \in Values \ {h} : handles'[p][v] = handles[p][v]
  BY <1>1 DEF CreateFileMapping
<1>5. /\ hMapFile'[p][s] = h
      /\ \A r \in Sides \ {s} : hMapFile'[p][r] = hMapFile[p][r]
  BY <1>0, <1>1 DEF SetHandle
<1>6. hMapFile[p][s] = Null /\ pMapBase[p][s] = Null
  BY <1>3 DEF MyInv, PcInv, HandleOf, ViewOf
<1>7. PcInv(t)'
  BY <1>2, <1>3, <1>4, <1>5, <1>6 DEF PcInv, HandleOf, ViewOf
<1>8. MyView(t)'
  BY <1>3 DEF MyInv, MyView
<1>9. HandleInv(p)'
  <2> SUFFICES ASSUME NEW v \in Values, handles'[p][v] \in Sections
               PROVE \E r \in Sides : hMapFile'[p][r] = v
    BY DEF HandleInv
  <2>1. CASE v = h
    BY <1>0, <1>5, <2>1
  <2>2. CASE v # h
    <3>1. handles[p][v] \in Sections
      BY <1>4, <2>2
    <3>2. PICK r \in Sides : hMapFile[p][r] = v
      BY <3>1 DEF MyInv, HandleInv
    <3> QED BY <1>5, <1>6, <3>2
  <2> QED BY <2>1, <2>2
<1>10. ASSUME p \notin poor PROVE MyRich(t)'
  <2>1. \A r \in Sides \ {s} : hMapFile[p][r] # Null =>
          handles[p][hMapFile[p][r]] \in Sections
    BY <1>3, <1>10 DEF MyInv, MyRich
  <2>2. ASSUME NEW r \in Sides \ {s}, hMapFile[p][r] = h PROVE FALSE
    <3>1. h # Null /\ Free \notin Sections
      BY MapAssumption
    <3>2. handles[p][h] \in Sections
      BY ONLY <2>1, <2>2, <3>1
    <3> QED BY ONLY <1>4, <3>1, <3>2
  <2> QED BY <1>0, <1>2, <1>3, <1>4, <1>5, <1>6, <1>10, <2>1, <2>2 DEF MyInv, MyRich, Sides
<1> QED BY <1>3, <1>7, <1>8, <1>9, <1>10 DEF MyInv

LEMMA OpenFailsKeepsMine ==
  ASSUME TypeOK, NEW t \in Threads, MyInv(t), OpenFails(t)
  PROVE MyInv(t)'
<1> USE MapAssumption DEF TypeOK, Goto, system
<1>1. HandleOf(t) = Null /\ hMapFile' = hMapFile
  <2>1. HandleOf(t) = Null
    BY DEF OpenFails, MyInv, PcInv
  <2>2. hMapFile' = [hMapFile EXCEPT ![ProcOf[t]][side[t]] = Null]
    BY DEF OpenFails, SetHandle
  <2> QED BY <2>1, <2>2 DEF HandleOf
<1>2. /\ pc'[t] = "idle" /\ ProcOf[t] \in poor
      /\ UNCHANGED <<pMapBase, handles, views, poor, side>>
  BY DEF OpenFails
<1>3. MyView(t)'
  <2>1. pc[t] # "clearView"
    BY DEF OpenFails
  <2> QED BY <1>2, <2>1 DEF MyInv, MyView
<1> QED BY <1>1, <1>2, <1>3 DEF MyInv, PcInv, HandleInv

LEMMA MapKeepsMine ==
  ASSUME TypeOK, NEW t \in Threads, MyInv(t), MapView(t)
  PROVE MyInv(t)'
<1> USE MapAssumption DEF TypeOK, Goto
<1> DEFINE p == ProcOf[t]
           s == side[t]
<1>0. p \in Procs /\ s \in Sides
  OBVIOUS
<1>1. PICK a \in Values : MapViewOfFile(p, HandleOf(t), a) /\ SetView(t, a)
  BY DEF MapView
<1>2. /\ pc[t] = "map" /\ pc'[t] = "idle"
      /\ UNCHANGED <<hMapFile, handles, poor, side>>
  BY DEF MapView
<1>3. /\ hMapFile[p][s] # Null /\ handles[p][hMapFile[p][s]] \in Sections
      /\ views[p][a] = Free /\ views'[p][a] = handles[p][hMapFile[p][s]]
      /\ \A v \in Values \ {a} : views'[p][v] = views[p][v]
  BY <1>1 DEF MapViewOfFile, HandleOf
<1>4. /\ pMapBase'[p][s] = a
      /\ \A r \in Sides \ {s} : pMapBase'[p][r] = pMapBase[p][r]
  BY <1>0, <1>1 DEF SetView
<1>5. pMapBase[p][s] = Null
  BY <1>2 DEF MyInv, PcInv, ViewOf
<1>6. \A r \in Sides \ {s} : pMapBase[p][r] # Null =>
          views[p][pMapBase[p][r]] \in Sections /\ pMapBase[p][r] # a
  BY <1>2, <1>3 DEF MyInv, MyView
<1>7. PcInv(t)'
  BY <1>2 DEF PcInv
<1>8. MyView(t)'
  <2>1. ASSUME NEW r \in Sides, pMapBase'[p][r] # Null
        PROVE views'[p][pMapBase'[p][r]] \in Sections
    <3>1. CASE r = s
      BY <1>3, <1>4, <3>1
    <3>2. CASE r # s
      <4>1. pMapBase'[p][r] = pMapBase[p][r] /\ pMapBase[p][r] \in Values
        BY <1>0, <1>4, <2>1, <3>2
      <4> QED BY <1>3, <1>6, <2>1, <3>2, <4>1
    <3> QED BY <3>1, <3>2
  <2>2. ASSUME NEW v \in Values, views'[p][v] \in Sections
        PROVE \E r \in Sides : pMapBase'[p][r] = v
    <3>1. CASE v = a
      BY <1>0, <1>4, <3>1
    <3>2. CASE v # a
      <4>1. PICK r \in Sides : pMapBase[p][r] = v
        BY <1>3, <2>2, <3>2 DEF MyInv, MyView
      <4> QED BY <1>4, <1>5, <4>1
    <3> QED BY <3>1, <3>2
  <2>3. pMapBase'[p]["read"] # Null => pMapBase'[p]["read"] # pMapBase'[p]["write"]
    BY <1>0, <1>4, <1>6 DEF MyInv, MyView, Sides
  <2> QED BY <1>2, <2>1, <2>2, <2>3 DEF MyView
<1>9. HandleInv(p)'
  BY <1>2 DEF MyInv, HandleInv
<1>10. ASSUME p \notin poor PROVE MyRich(t)'
  <2> USE DEF MyInv, MyRich
  <2>1. \A r \in Sides : hMapFile[p][r] # Null => handles[p][hMapFile[p][r]] \in Sections
    BY <1>2, <1>10
  <2>2. ASSUME NEW r \in Sides, pMapBase'[p][r] # Null
        PROVE /\ hMapFile[p][r] # Null
              /\ handles[p][hMapFile[p][r]] = views'[p][pMapBase'[p][r]]
    <3>1. CASE r = s
      BY <1>3, <1>4, <3>1
    <3>2. CASE r # s
      <4>1. pMapBase'[p][r] = pMapBase[p][r] /\ pMapBase[p][r] \in Values
        BY <1>0, <1>4, <2>2, <3>2
      <4>2. views'[p][pMapBase[p][r]] = views[p][pMapBase[p][r]]
        BY <1>3, <1>6, <2>2, <3>2, <4>1
      <4> QED BY <1>2, <1>10, <2>2, <4>1, <4>2
    <3> QED BY <3>1, <3>2
  <2>3. ASSUME NEW r \in Sides, hMapFile[p][r] # Null PROVE pMapBase'[p][r] # Null
    <3>1. CASE r = s
      BY <1>1, <1>4, <3>1
    <3>2. CASE r # s
      BY <1>2, <1>4, <1>10, <2>3, <3>2
    <3> QED BY <3>1, <3>2
  <2> QED BY <1>2, <1>10, <2>1, <2>2, <2>3
<1> QED BY <1>2, <1>7, <1>8, <1>9, <1>10 DEF MyInv

LEMMA MapFailsKeepsMine ==
  ASSUME TypeOK, NEW t \in Threads, MyInv(t), MapViewFails(t)
  PROVE MyInv(t)'
<1> USE MapAssumption DEF TypeOK, Goto
<1> DEFINE p == ProcOf[t]
           s == side[t]
           h == hMapFile[p][s]
<1>0. p \in Procs /\ s \in Sides
  OBVIOUS
<1>1. /\ pc[t] = "map" /\ pc'[t] = "idle"
      /\ UNCHANGED <<hMapFile, views, poor, side>>
  BY DEF MapViewFails
<1>2. h \in Values /\ handles[p][h] \in Sections /\ pMapBase[p][s] = Null
  BY <1>0, <1>1 DEF MyInv, PcInv, HandleOf, ViewOf
<1>3. p \in poor
  BY <1>2 DEF MapViewFails, HandleOf
<1>4. pMapBase' = pMapBase
  <2>1. pMapBase' = [pMapBase EXCEPT ![p][s] = Null]
    BY DEF MapViewFails, SetView
  <2> QED BY <1>0, <1>2, <2>1
<1>5. handles' = [handles EXCEPT ![p][h] = Free]
  BY <1>2 DEF MapViewFails, HandleOf, CloseHandle
<1>6. MyView(t)'
  BY <1>1, <1>4 DEF MyInv, MyView
<1>7. HandleInv(p)'
  BY <1>0, <1>1, <1>2, <1>5 DEF MyInv, HandleInv
<1> QED BY <1>1, <1>3, <1>6, <1>7 DEF MyInv, PcInv

LEMMA UnmapKeepsMine ==
  ASSUME TypeOK, NEW t \in Threads, MyInv(t), UnmapView(t)
  PROVE MyInv(t)'
<1> USE MapAssumption DEF TypeOK, Goto
<1> DEFINE p == ProcOf[t]
           s == side[t]
           a == pMapBase[p][s]
<1>0. p \in Procs /\ s \in Sides
  OBVIOUS
<1>1. /\ pc[t] = "unmap" /\ pc'[t] = "clearView"
      /\ UNCHANGED <<hMapFile, pMapBase, handles, poor, side>>
  BY DEF UnmapView, object
<1>2. a \in Values
  BY <1>0, <1>1 DEF MyInv, PcInv, ViewOf
<1>3. views' = [views EXCEPT ![p][a] = Free]
  BY <1>2 DEF UnmapView, UnmapViewOfFile, ViewOf
<1>4. views'[p][a] = Free /\ \A v \in Values \ {a} : views'[p][v] = views[p][v]
  BY <1>0, <1>2, <1>3
<1>5. \A r \in Sides \ {s} : pMapBase[p][r] # a
  BY <1>0, <1>2 DEF MyInv, MyView, Sides
<1>6. PcInv(t)'
  BY <1>1, <1>2 DEF PcInv, ViewOf
<1>7. MyView(t)'
  <2>1. ASSUME NEW r \in Sides \ {s}, pMapBase[p][r] # Null
        PROVE views'[p][pMapBase[p][r]] \in Sections
    <3>1. pMapBase[p][r] \in Values \ {a}
      BY <1>0, <1>5, <2>1
    <3> QED BY <1>1, <1>4, <2>1, <3>1 DEF MyInv, MyView
  <2> QED BY <1>1, <1>4, <2>1 DEF MyInv, MyView
<1>8. HandleInv(p)'
  BY <1>1 DEF MyInv, HandleInv
<1>9. ASSUME p \notin poor PROVE MyRich(t)'
  <2>1. ASSUME NEW r \in Sides \ {s}, pMapBase[p][r] # Null
        PROVE views'[p][pMapBase[p][r]] = views[p][pMapBase[p][r]]
    <3>1. pMapBase[p][r] \in Values \ {a}
      BY <1>0, <1>5, <2>1
    <3> QED BY <1>4, <3>1
  <2> QED BY <1>1, <1>2, <1>9, <2>1 DEF MyInv, MyRich
<1> QED BY <1>1, <1>6, <1>7, <1>8, <1>9 DEF MyInv

LEMMA ClearViewKeepsMine ==
  ASSUME TypeOK, NEW t \in Threads, MyInv(t), ClearView(t)
  PROVE MyInv(t)'
<1> USE MapAssumption DEF TypeOK, Goto
<1> DEFINE p == ProcOf[t]
           s == side[t]
           a == pMapBase[p][s]
<1>0. p \in Procs /\ s \in Sides
  OBVIOUS
<1>1. /\ pc[t] = "clearView" /\ pc'[t] = "close"
      /\ UNCHANGED <<hMapFile, handles, views, poor, side>>
  BY DEF ClearView, system
<1>2. a # Null /\ views[p][a] = Free
  BY <1>0, <1>1 DEF MyInv, PcInv, MyView, ViewOf
<1>3. /\ pMapBase'[p][s] = Null
      /\ \A r \in Sides \ {s} : pMapBase'[p][r] = pMapBase[p][r]
  BY <1>0 DEF ClearView, SetView
<1>4. PcInv(t)'
  BY <1>1, <1>3 DEF PcInv, ViewOf
<1>5. MyView(t)'
  <2>1. ASSUME NEW r \in Sides, pMapBase'[p][r] # Null
        PROVE views[p][pMapBase'[p][r]] \in Sections
    BY <1>3, <2>1 DEF MyInv, MyView
  <2>2. ASSUME NEW v \in Values, views[p][v] \in Sections
        PROVE \E r \in Sides : pMapBase'[p][r] = v
    BY <1>2, <1>3, <2>2 DEF MyInv, MyView
  <2>3. pMapBase'[p]["read"] # Null => pMapBase'[p]["read"] # pMapBase'[p]["write"]
    BY <1>0, <1>3 DEF MyInv, MyView, Sides
  <2> QED BY <1>1, <2>1, <2>2, <2>3 DEF MyView
<1>6. HandleInv(p)'
  BY <1>1 DEF MyInv, HandleInv
<1>7. ASSUME p \notin poor PROVE MyRich(t)'
  BY <1>0, <1>1, <1>3, <1>7 DEF MyInv, MyRich
<1> QED BY <1>1, <1>4, <1>5, <1>6, <1>7 DEF MyInv

LEMMA CloseKeepsMine ==
  ASSUME TypeOK, NEW t \in Threads, MyInv(t), CloseSection(t)
  PROVE MyInv(t)'
<1> USE MapAssumption DEF TypeOK, Goto
<1> DEFINE p == ProcOf[t]
           s == side[t]
           h == hMapFile[p][s]
<1>0. p \in Procs /\ s \in Sides
  OBVIOUS
<1>1. /\ pc[t] = "close" /\ pc'[t] = "clearHandle" /\ h # Null
      /\ UNCHANGED <<hMapFile, pMapBase, views, poor, side>>
  BY DEF CloseSection, HandleOf, object
<1>2. h \in Values /\ pMapBase[p][s] = Null
  BY <1>0, <1>1 DEF MyInv, PcInv, ViewOf
<1>3. handles' = [handles EXCEPT ![p][h] = Free]
  BY DEF CloseSection, CloseHandle, HandleOf
<1>4. handles'[p][h] = Free /\ \A v \in Values \ {h} : handles'[p][v] = handles[p][v]
  BY <1>0, <1>2, <1>3
<1>5. PcInv(t)'
  BY <1>1, <1>2, <1>4 DEF PcInv, HandleOf, ViewOf
<1>6. MyView(t)'
  BY <1>1 DEF MyInv, MyView
<1>7. HandleInv(p)'
  BY <1>1, <1>4 DEF MyInv, HandleInv
<1>8. ASSUME p \notin poor PROVE MyRich(t)'
  <2>1. ASSUME NEW r \in Sides \ {s}, hMapFile[p][r] # Null
        PROVE handles'[p][hMapFile[p][r]] = handles[p][hMapFile[p][r]]
    <3>1. hMapFile[p][r] \in Values \ {h}
      BY <1>0, <1>1, <1>8, <2>1 DEF MyInv, MyRich, Sides
    <3> QED BY <1>4, <3>1
  <2> QED BY <1>1, <1>2, <1>8, <2>1 DEF MyInv, MyRich
<1> QED BY <1>1, <1>5, <1>6, <1>7, <1>8 DEF MyInv

LEMMA ClearHandleKeepsMine ==
  ASSUME TypeOK, NEW t \in Threads, MyInv(t), ClearHandle(t)
  PROVE MyInv(t)'
<1> USE MapAssumption DEF TypeOK, Goto
<1> DEFINE p == ProcOf[t]
           s == side[t]
           h == hMapFile[p][s]
<1>0. p \in Procs /\ s \in Sides
  OBVIOUS
<1>1. /\ pc[t] = "clearHandle" /\ pc'[t] = "idle"
      /\ UNCHANGED <<pMapBase, handles, views, poor, side>>
  BY DEF ClearHandle, system
<1>2. h # Null /\ handles[p][h] \notin Sections /\ pMapBase[p][s] = Null
  BY <1>0, <1>1 DEF MyInv, PcInv, HandleOf, ViewOf
<1>3. /\ hMapFile'[p][s] = Null
      /\ \A r \in Sides \ {s} : hMapFile'[p][r] = hMapFile[p][r]
  BY <1>0 DEF ClearHandle, SetHandle
<1>4. PcInv(t)'
  BY <1>1 DEF PcInv
<1>5. MyView(t)'
  BY <1>1 DEF MyInv, MyView
<1>6. HandleInv(p)'
  BY <1>1, <1>2, <1>3 DEF MyInv, HandleInv
<1>7. ASSUME p \notin poor PROVE MyRich(t)'
  BY <1>0, <1>1, <1>2, <1>3, <1>7 DEF MyInv, MyRich, Sides
<1> QED BY <1>1, <1>4, <1>5, <1>6, <1>7 DEF MyInv

LEMMA EndKeepsMine ==
  ASSUME TypeOK, NEW t \in Threads, MyInv(t), NothingToClose(t) \/ Access(t)
  PROVE MyInv(t)'
<1> USE MapAssumption DEF TypeOK, Goto, object, system
<1>1. /\ pc[t] \in {"close", "use"} /\ pc'[t] = "idle"
      /\ pc[t] = "close" => HandleOf(t) = Null
      /\ UNCHANGED <<hMapFile, pMapBase, handles, views, poor, side>>
  BY DEF NothingToClose, Access
<1>2. PcInv(t)'
  BY <1>1 DEF PcInv
<1>3. MyView(t)'
  BY <1>1 DEF MyInv, MyView
<1>4. HandleInv(ProcOf[t])'
  BY <1>1 DEF MyInv, HandleInv
<1>5. ASSUME ProcOf[t] \notin poor PROVE MyRich(t)'
  BY <1>1, <1>5 DEF MyInv, MyRich, HandleOf
<1> QED BY <1>1, <1>2, <1>3, <1>4, <1>5 DEF MyInv

\* The rest of a process comes and goes without touching a section.
LEMMA OthersKeep ==
  ASSUME TypeOK, NEW p \in Procs, ProcInv(p), OtherOpen(p) \/ OtherClose(p)
  PROVE ProcInv(p)'
<1> USE MapAssumption DEF TypeOK, object
<1>1. UNCHANGED <<hMapFile, pMapBase, views, poor, pc, side>>
  BY DEF OtherOpen, OtherClose
<1>2. \A v \in Values : handles[p][v] \in Sections \/ handles'[p][v] \in Sections =>
        handles'[p][v] = handles[p][v]
  BY DEF OtherOpen, OtherClose, CloseHandle
<1>3. ASSUME NEW s, NEW where PROVE Busy(p, s, where)' <=> Busy(p, s, where)
  BY <1>1 DEF Busy
<1>4. ViewInv(p)'
  BY <1>1, <1>3 DEF ProcInv, ViewInv
<1>5. HandleInv(p)'
  BY <1>1, <1>2 DEF ProcInv, HandleInv
<1>6. ASSUME p \notin poor PROVE RichInv(p)'
  <2>1. ASSUME NEW s \in Sides, hMapFile[p][s] # Null, ~Busy(p, s, {"clearHandle"})
        PROVE handles'[p][hMapFile[p][s]] \in Sections
    BY <1>2, <1>6, <2>1 DEF ProcInv, RichInv
  <2>2. ASSUME NEW s \in Sides, pMapBase[p][s] # Null, ~Busy(p, s, {"clearView"})
        PROVE handles'[p][hMapFile[p][s]] = views[p][pMapBase[p][s]]
    <3>1. /\ hMapFile[p][s] \in Values
          /\ handles[p][hMapFile[p][s]] = views[p][pMapBase[p][s]]
          /\ views[p][pMapBase[p][s]] \in Sections
      BY <1>6, <2>2 DEF ProcInv, RichInv, ViewInv
    <3> QED BY <1>2, <3>1
  <2> QED BY <1>1, <1>3, <1>6, <2>1, <2>2 DEF ProcInv, RichInv
<1>7. ASSUME NEW t \in Threads, ProcOf[t] = p PROVE PcInv(t)'
  <2>1. PcInv(t)
    BY <1>7 DEF ProcInv
  <2>2. hMapFile[p][side[t]] # Null => hMapFile[p][side[t]] \in Values
    BY <1>7
  <2> QED BY <1>1, <1>2, <1>7, <2>1, <2>2 DEF PcInv, HandleOf, ViewOf
<1> QED BY <1>1, <1>4, <1>5, <1>6, <1>7 DEF ProcInv

\* A process that ends leaves nothing.
LEMMA ExitKeeps ==
  ASSUME TypeOK, NEW p \in Procs, Exit(p)
  PROVE ProcInv(p)'
<1> USE MapAssumption DEF TypeOK
<1>1. /\ \A s \in Sides : hMapFile'[p][s] = Null /\ pMapBase'[p][s] = Null
      /\ \A v \in Values : handles'[p][v] = Free /\ views'[p][v] = Free
      /\ \A t \in Threads : ProcOf[t] = p => pc'[t] = "idle"
  BY DEF Exit
<1>2. "read" \in Sides
  BY DEF Sides
<1> QED BY <1>1, <1>2 DEF ProcInv, PcInv, ViewInv, HandleInv, RichInv

(***************************************************************************)
(* The invariant                                                           *)
(***************************************************************************)
ThreadStep(t) ==
  \/ \E s \in Sides : InitCall(t, s) \/ TermCall(t, s) \/ UseCall(t, s)
  \/ OpenSection(t) \/ OpenFails(t) \/ MapView(t) \/ MapViewFails(t)
  \/ UnmapView(t) \/ ClearView(t) \/ CloseSection(t)
  \/ NothingToClose(t) \/ ClearHandle(t) \/ Access(t)

LEMMA NextIs ==
  Next <=> \/ \E t \in Threads : ThreadStep(t)
           \/ \E p \in Procs : OtherOpen(p) \/ OtherClose(p) \/ Exit(p)
BY DEF Next, ThreadStep

LEMMA ThreadKeepsMine ==
  ASSUME TypeOK, NEW t \in Threads, MyInv(t), ThreadStep(t)
  PROVE MyInv(t)'
BY CallsKeepMine, OpenKeepsMine, OpenFailsKeepsMine, MapKeepsMine, MapFailsKeepsMine,
   UnmapKeepsMine, ClearViewKeepsMine, CloseKeepsMine, ClearHandleKeepsMine,
   EndKeepsMine DEF ThreadStep

\* A thread changes its own process and its own place in a call.
LEMMA ThreadIsLocal ==
  ASSUME TypeOK, NEW t \in Threads, ThreadStep(t)
  PROVE /\ poor' = poor
        /\ \A q \in Procs \ {ProcOf[t]} :
             /\ hMapFile'[q] = hMapFile[q] /\ pMapBase'[q] = pMapBase[q]
             /\ handles'[q] = handles[q] /\ views'[q] = views[q]
        /\ \A u \in Threads \ {t} : pc'[u] = pc[u] /\ side'[u] = side[u]
<1> USE MapAssumption DEF TypeOK, Goto, object, system, SetHandle, SetView
<1>1. ASSUME NEW s \in Sides, InitCall(t, s) \/ TermCall(t, s) \/ UseCall(t, s)
      PROVE /\ UNCHANGED <<hMapFile, pMapBase, handles, views, poor>>
            /\ \A u \in Threads \ {t} : pc'[u] = pc[u] /\ side'[u] = side[u]
  BY <1>1 DEF InitCall, TermCall, UseCall
<1>2. CASE OpenSection(t)
  BY <1>2 DEF OpenSection, CreateFileMapping
<1>3. CASE OpenFails(t)
  BY <1>3 DEF OpenFails
<1>4. CASE MapView(t)
  BY <1>4 DEF MapView, MapViewOfFile
<1>5. CASE MapViewFails(t)
  BY <1>5 DEF MapViewFails, CloseHandle
<1>6. CASE UnmapView(t)
  BY <1>6 DEF UnmapView, UnmapViewOfFile
<1>7. CASE ClearView(t) \/ ClearHandle(t)
  BY <1>7 DEF ClearView, ClearHandle
<1>8. CASE CloseSection(t)
  BY <1>8 DEF CloseSection, CloseHandle
<1>9. CASE NothingToClose(t) \/ Access(t)
  BY <1>9 DEF NothingToClose, Access
<1> QED BY <1>1, <1>2, <1>3, <1>4, <1>5, <1>6, <1>7, <1>8, <1>9 DEF ThreadStep

LEMMA ThreadKeepsNamed ==
  ASSUME TypeOK, NamedOne, NEW t \in Threads, ThreadStep(t)
  PROVE NamedOne'
<1> USE MapAssumption DEF TypeOK, object, system
<1>1. CASE OpenSection(t)
  BY <1>1, NamedAfterOpen DEF OpenSection
<1>2. CASE ~OpenSection(t)
  <2>1. \/ handles' = handles
        \/ handles' = [handles EXCEPT ![ProcOf[t]][HandleOf(t)] = Free]
    BY <1>2 DEF ThreadStep, InitCall, TermCall, UseCall, OpenFails, MapView,
       MapViewFails, UnmapView, ClearView, CloseSection, NothingToClose,
       ClearHandle, Access, CloseHandle
  <2>2. \A p \in Procs, v \in Values :
          handles'[p][v] \in Sections => handles'[p][v] = handles[p][v]
    <3>1. CASE handles' = handles
      BY <3>1
    <3>2. CASE handles' = [handles EXCEPT ![ProcOf[t]][HandleOf(t)] = Free]
      <4> DEFINE h == HandleOf(t)
      <4> HIDE DEF h
      <4>1. \A p \in Procs, v \in Values : handles'[p][v] \in {handles[p][v], Free}
        BY <3>2 DEF h
      <4> QED BY <4>1
    <3> QED BY <2>1, <3>1, <3>2
  <2> QED BY <2>2, FewerNamed
<1> QED BY <1>1, <1>2

LEMMA MapInit == Init => MapInv
<1> SUFFICES ASSUME Init PROVE MapInv
  OBVIOUS
<1> USE MapAssumption DEF Init
<1>1. TypeOK
  BY DEF TypeOK, Sides
<1>2. NamedOne
  BY DEF NamedOne, Named
<1>3. ASSUME NEW p \in Procs PROVE ProcInv(p)
  BY DEF ProcInv, PcInv, ViewInv, HandleInv, RichInv, Sides
<1> QED BY <1>1, <1>2, <1>3 DEF MapInv

LEMMA MapStep ==
  ASSUME MapInv, [Next]_vars
  PROVE MapInv'
<1> USE MapAssumption DEF MapInv
<1>1. TypeOK'
  BY TypeStep
<1>2. ASSUME NEW t \in Threads, ThreadStep(t) PROVE MapInv'
  <2>1. ProcOf[t] \in Procs
    OBVIOUS
  <2>2. ASSUME Alone(ProcOf[t]) PROVE ProcInv(ProcOf[t])'
    BY <1>2, <2>1, <2>2, MyInvIsProcInv, ThreadKeepsMine
  <2>3. ASSUME NEW q \in Procs \ {ProcOf[t]}, Alone(q) PROVE ProcInv(q)'
    <3>1. \A u \in Threads : ProcOf[u] = q => u \in Threads \ {t}
      OBVIOUS
    <3> QED BY <1>2, <2>3, <3>1, ThreadIsLocal, Undisturbed
  <2>4. NamedOne'
    BY <1>2, ThreadKeepsNamed
  <2> QED BY <1>1, <2>2, <2>3, <2>4
<1>3. ASSUME NEW p \in Procs, OtherOpen(p) \/ OtherClose(p) \/ Exit(p) PROVE MapInv'
  <2> USE DEF TypeOK, object
  <2>1. ASSUME Alone(p) PROVE ProcInv(p)'
    BY <1>3, <2>1, OthersKeep, ExitKeeps
  <2>2. poor' = poor
    BY <1>3 DEF OtherOpen, OtherClose, Exit, CloseHandle
  <2>3. ASSUME NEW q \in Procs \ {p}, Alone(q) PROVE ProcInv(q)'
    <3>1. /\ hMapFile'[q] = hMapFile[q] /\ pMapBase'[q] = pMapBase[q]
          /\ handles'[q] = handles[q] /\ views'[q] = views[q]
      BY <1>3 DEF OtherOpen, OtherClose, Exit, CloseHandle
    <3>2. \A t \in Threads : ProcOf[t] = q => pc'[t] = pc[t] /\ side'[t] = side[t]
      BY <1>3 DEF OtherOpen, OtherClose, Exit
    <3> QED BY <2>2, <2>3, <3>1, <3>2, Undisturbed
  <2>4. \A q \in Procs, v \in Values :
          handles'[q][v] \in Sections => handles'[q][v] = handles[q][v]
    <3>1. CASE OtherOpen(p)
      BY <3>1 DEF OtherOpen
    <3>2. CASE OtherClose(p)
      BY <3>2 DEF OtherClose, CloseHandle
    <3>3. CASE Exit(p)
      BY <3>3 DEF Exit
    <3> QED BY <1>3, <3>1, <3>2, <3>3
  <2>5. NamedOne'
    BY <2>4, FewerNamed
  <2> QED BY <1>1, <2>1, <2>3, <2>5
<1>4. CASE UNCHANGED vars
  <2>1. NamedOne'
    BY <1>4, FewerNamed DEF vars, system
  <2>2. ASSUME NEW q \in Procs, Alone(q) PROVE ProcInv(q)'
    BY <1>4, <2>2, Undisturbed DEF vars, object, system
  <2> QED BY <1>1, <2>1, <2>2
<1> QED BY <1>2, <1>3, <1>4, NextIs

LEMMA SpecMapInv == Spec => []MapInv
<1>1. Init => MapInv
  BY MapInit
<1>2. MapInv /\ [Next]_vars => MapInv'
  BY MapStep
<1> QED BY <1>1, <1>2, PTL DEF Spec

(***************************************************************************)
(* The properties                                                          *)
(***************************************************************************)
LEMMA BusyIsNotIdle ==
  ASSUME NEW p \in Procs, Idle(p), NEW s, NEW where, "idle" \notin where
  PROVE ~Busy(p, s, where)
BY DEF Idle, Busy

LEMMA AllIsFound ==
  ASSUME NEW p \in Procs, ProcInv(p) PROVE NothingLeaked(p)
<1>1. ASSUME NEW v \in Values, views[p][v] \in Sections
      PROVE Cardinality({s \in Sides : pMapBase[p][s] = v}) = 1
  <2>1. PICK s \in Sides : pMapBase[p][s] = v
    BY <1>1 DEF ProcInv, ViewInv
  <2>2. v # Null
    BY MapAssumption
  <2>3. {r \in Sides : pMapBase[p][r] = v} = {s}
    BY <2>1, <2>2 DEF ProcInv, ViewInv, Sides
  <2> QED BY <2>3, FS_Singleton
<1> QED BY <1>1 DEF NothingLeaked, ProcInv, HandleInv

LEMMA AllAgrees ==
  ASSUME NEW p \in Procs, ProcInv(p), Idle(p), p \notin poor PROVE SidesAgree(p)
<1>1. \A s \in Sides : /\ ~Busy(p, s, {"clearView"}) /\ ~Busy(p, s, {"clearHandle"})
                       /\ ~Busy(p, s, {"map", "close", "clearHandle"})
  BY BusyIsNotIdle
<1>2. ViewInv(p) /\ RichInv(p)
  BY DEF ProcInv
<1> QED BY <1>1, <1>2 DEF SidesAgree, ViewInv, RichInv

LEMMA NoFaultOf ==
  ASSUME TypeOK, NEW t \in Threads, Alone(ProcOf[t]), ProcInv(ProcOf[t]), pc[t] = "use"
  PROVE ~Faults(t)
<1>1. MyInv(t)
  BY MyInvIsProcInv
<1>2. side[t] \in Sides
  BY DEF TypeOK
<1> QED BY <1>1, <1>2 DEF MyInv, PcInv, MyView, Faults, ViewOf

\* A view of a process whose system calls succeed is of a section with a name.
LEMMA ViewIsNamed ==
  ASSUME TypeOK, NEW p \in Procs \ poor, ProcInv(p), NEW v \in Values, views[p][v] # Free
  PROVE views[p][v] \in Named
<1>1. views[p][v] \in Sections
  BY DEF TypeOK
<1>2. PICK s \in Sides : pMapBase[p][s] = v
  BY <1>1 DEF ProcInv, ViewInv
<1>3. pMapBase[p][s] # Null /\ ~Busy(p, s, {"clearView"})
  BY <1>2, MapAssumption DEF ProcInv, ViewInv
<1>4. hMapFile[p][s] # Null /\ handles[p][hMapFile[p][s]] = views[p][v]
  BY <1>2, <1>3 DEF ProcInv, RichInv
<1>5. hMapFile[p][s] \in Values
  BY <1>4 DEF TypeOK
<1> QED BY <1>1, <1>4, <1>5 DEF Named

\* What a thread alone in its process closes is a handle of the section.
LEMMA AliensKept ==
  ASSUME MapInv, NEW t \in Threads, Alone(ProcOf[t]), CloseSection(t) \/ MapViewFails(t),
         NEW p \in Procs \ poor, NEW h \in Values, handles[p][h] = Alien
  PROVE handles'[p][h] = Alien
<1> USE MapAssumption DEF MapInv, TypeOK
<1>1. MyInv(t)
  BY MyInvIsProcInv
<1>2. CASE p # ProcOf[t]
  BY <1>2, ThreadIsLocal DEF ThreadStep
<1>3. CASE p = ProcOf[t]
  <2>1. HandleOf(t) # Null /\ handles[p][HandleOf(t)] \in Sections
    <3>1. CASE CloseSection(t)
      BY <1>1, <1>3, <3>1 DEF CloseSection, Goto, MyInv, MyRich, HandleOf
    <3>2. CASE MapViewFails(t)
      BY <1>1, <1>3, <3>2 DEF MapViewFails, Goto, MyInv, PcInv
    <3> QED BY <3>1, <3>2
  <2>2. h # HandleOf(t)
    BY <2>1
  <2>3. handles' = [handles EXCEPT ![p][HandleOf(t)] = Free]
    BY <1>3, <2>1 DEF CloseSection, MapViewFails, CloseHandle
  <2> QED BY <2>2, <2>3
<1> QED BY <1>2, <1>3

\* The properties for the processes that use win32trace from one thread,
\* whatever the threads of the other processes do to theirs.
SafeAlone(p) ==
  /\ Idle(p) => NothingLeaked(p) /\ (p \in poor \/ SidesAgree(p))
  /\ \A t \in Threads : ProcOf[t] = p /\ pc[t] = "use" => ~Faults(t)

AllSafeAlone == \A p \in Procs : Alone(p) => SafeAlone(p)

OneSectionAlone ==
  \A p, q \in {r \in Procs \ poor : Alone(r)} : \A v, w \in Values :
    views[p][v] # Free /\ views[q][w] # Free => views[p][v] = views[q][w]

AliensKeptAlone ==
  [][\A t \in Threads : Alone(ProcOf[t]) /\ (CloseSection(t) \/ MapViewFails(t)) =>
       \A p \in Procs \ poor, h \in Values :
         handles[p][h] = Alien => handles'[p][h] = Alien]_vars

\* A process that uses win32trace from one thread leaks nothing, agrees with
\* its tables and never faults, next to processes whose threads overtake each
\* other in DoOpenMap and DoCloseMap.
THEOREM SpecAllSafeAlone == Spec => []AllSafeAlone
<1>1. MapInv => AllSafeAlone
  <2> SUFFICES ASSUME MapInv, NEW p \in Procs, Alone(p) PROVE SafeAlone(p)
    BY DEF AllSafeAlone
  <2>1. TypeOK /\ ProcInv(p)
    BY DEF MapInv
  <2> QED BY <2>1, AllIsFound, AllAgrees, NoFaultOf DEF SafeAlone
<1> QED BY <1>1, SpecMapInv, PTL

\* Such processes meet in one section, whatever sections the others have been
\* left with.
THEOREM SpecOneSectionAlone == Spec => []OneSectionAlone
<1>1. MapInv => OneSectionAlone
  BY ViewIsNamed DEF MapInv, NamedOne, OneSectionAlone
<1> QED BY <1>1, SpecMapInv, PTL

\* Such a thread closes no handle of somebody else, while system calls succeed.
THEOREM SpecAliensKeptAlone == Spec => AliensKeptAlone
<1>1. MapInv /\ [Next]_vars =>
        [\A t \in Threads : Alone(ProcOf[t]) /\ (CloseSection(t) \/ MapViewFails(t)) =>
           \A p \in Procs \ poor, h \in Values :
             handles[p][h] = Alien => handles'[p][h] = Alien]_vars
  BY AliensKept
<1> QED BY <1>1, SpecMapInv, PTL DEF Spec, AliensKeptAlone

(***************************************************************************)
(* The properties of the run, where every process has one thread           *)
(***************************************************************************)

\* While no call is under way in a process, the trace object knows every
\* handle and view the process has, each for one side, and where no system
\* call fails a side is closed or fully open (DoOpenMap, DoCloseMap).
THEOREM SpecNothingAdrift == ASSUME OneThread PROVE Spec => []NothingAdrift
<1>1. MapInv => NothingAdrift
  <2> SUFFICES ASSUME MapInv PROVE NothingAdrift
    OBVIOUS
  <2> QED BY AllIsFound, AllAgrees DEF NothingAdrift, MapInv, OneThread
<1> QED BY <1>1, SpecMapInv, PTL

\* All views of the processes whose system calls succeed are of one section,
\* the one that has the name.
THEOREM SpecOneSection == ASSUME OneThread PROVE Spec => []OneSection
<1>1. ASSUME MapInv PROVE OneSection
  <2> DEFINE Seen == {views[p][v] : p \in Procs \ poor, v \in Values} \ {Free}
  <2>1. \A p \in Procs : ProcInv(p)
    BY <1>1 DEF MapInv, OneThread
  <2>2. \A r, u \in Seen : r = u
    BY <1>1, <2>1, ViewIsNamed DEF MapInv, NamedOne
  <2> HIDE DEF Seen
  <2>3. CASE Seen = {}
    <3>1. Cardinality(Seen) = 0
      BY <2>3, FS_EmptySet
    <3> QED BY <3>1 DEF OneSection, Seen
  <2>4. CASE Seen # {}
    <3>1. PICK r \in Seen : Seen = {r}
      BY <2>2, <2>4
    <3>2. Cardinality(Seen) = 1
      BY <3>1, FS_Singleton
    <3> QED BY <3>2 DEF OneSection, Seen
  <2> QED BY <2>3, <2>4
<1> QED BY <1>1, SpecMapInv, PTL

\* What DoCloseMap and a failed DoOpenMap close is a handle of the section,
\* never one the rest of the process was given.
THEOREM SpecAlienHandlesKept == ASSUME OneThread PROVE Spec => AlienHandlesKept
<1>1. \A t \in Threads : Alone(ProcOf[t])
  BY MapAssumption DEF OneThread
<1>2. MapInv /\ [Next]_vars =>
        [\A t \in Threads : CloseSection(t) \/ MapViewFails(t) =>
           \A p \in Procs \ poor, h \in Values :
             handles[p][h] = Alien => handles'[p][h] = Alien]_vars
  BY <1>1, AliensKept
<1> QED BY <1>2, SpecMapInv, PTL DEF Spec, AlienHandlesKept
=============================================================================
