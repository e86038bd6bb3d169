---------------------------- MODULE LoopLifeProofs ----------------------------
(***************************************************************************)
(* Proofs about the loops of WorkShare: every loop is measured once and    *)
(* from its own beginning, and the loops live the life that LoopLife       *)
(* describes, for every team and sequence of loops.                        *)
(***************************************************************************)
EXTENDS SharesProofs, SequenceTheorems

\* The loop that thread t, or the one that opened it for t, has stored the start of.
Begun(t) == IF pc[t] \in Starting \cup {"begin"} THEN k[t] - 1 ELSE k[t]

\* On the way to bo_schedule_end as the last thread of a loop.
Recording == Freeing \cup {"record"}

\* Everybody has finished loop i, and the last one has been to bo_schedule_end.
Done(i) == Left(i) = Threads /\ \A u \in Threads : pc[u] \in Recording => k[u] # i

-----------------------------------------------------------------------------
(* The inductive invariant of the measurements, on top of TeamInv.         *)

Measures ==
  /\ started \in [Regions -> 0 .. Last]
  /\ measured \in [1 .. Last -> Nat]
  /\ origin \in [1 .. Last -> 0 .. Last]

\* One thread at a time reports a loop, and all have finished that loop.
Recorders ==
  \A t \in Threads :
    /\ pc[t] \in Recording =>
         /\ Left(k[t]) = Threads
         /\ prog.kind = "combined" => prog.loops[k[t]].end = "wait"
         /\ \A u \in Threads : pc[u] \in Recording => u = t
    /\ pc[t] = "joined" => k[t] = Last

\* start is that of the latest loop of the region that anybody has begun.
Times ==
  \A r \in Regions :
    /\ started[r] # 0 =>
         prog.loops[started[r]].region = r /\ \E t \in Threads : Begun(t) >= started[r]
    /\ \A j \in 1 .. Last :
         prog.loops[j].region = r /\ (\E t \in Threads : Begun(t) >= j) => started[r] >= j

\* The team reports a loop once, the master a combined one (again) when it leaves the region.
Counts ==
  \A i \in 1 .. Last :
    measured[i] = (IF prog.kind = "combined" /\ pc[Master] = "joined" THEN 1 ELSE 0)
                + (IF (prog.kind = "combined" => prog.loops[i].end = "wait") /\ Done(i)
                   THEN 1 ELSE 0)

Origins ==
  \A i \in 1 .. Last :
    measured[i] > 0 => origin[i] >= i /\ (~Overtaken(i) => origin[i] = i)

TeamMeasures == TeamInv /\ Measures /\ Recorders /\ Times /\ Counts /\ Origins

-----------------------------------------------------------------------------
\* What the program says of its loops.
LEMMA LoopFacts ==
  ASSUME prog \in Programs
  PROVE  /\ Last \in Nat
         /\ \A i \in 1 .. Last : prog.loops[i].region \in Regions /\ prog.loops[i].end \in Ends
<1>1. prog.loops \in Seq([region : Regions, end : Ends])
  BY WorkShareAssumption
<1>2. Len(prog.loops) \in Nat
  BY <1>1
<1>3. \A i \in 1 .. Len(prog.loops) : prog.loops[i] \in [region : Regions, end : Ends]
  BY <1>1, ElementOfSeq
<1> QED
  BY <1>2, <1>3 DEF Last

\* A step of t takes no other thread past the beginning of a loop.
LEMMA BegunNext ==
  ASSUME TeamInv, NEW t \in Threads, Step(t), NEW u \in Threads
  PROVE  /\ Begun(u) \in 0 .. Last /\ Begun(u)' \in 0 .. Last /\ Entered(u) <= Begun(u)
         /\ Begun(u)' # Begun(u) =>
              /\ u = t /\ Begun(t)' = Begun(t) + 1
              /\ StartKnown(t) \/ StopWaiting(t) \/ Begin(t)
<1>0. /\ pc \in [Threads -> Labels] /\ k \in [Threads -> 0 .. Last] /\ Last \in Nat
      /\ pc[u] \in Starting \cup {"begin"} => k[u] # 0
      /\ Last' = Last /\ k' \in [Threads -> 0 .. Last]
      /\ pc'[u] \in Starting \cup {"begin"} => k'[u] # 0
  <2>1. Types' /\ Places'
    BY TypesNext, PlacesNext
  <2> QED
    BY <2>1, Basics, ProgStays DEF TeamInv, Types, Places, Place, Starting
<1>1. Begun(u) \in 0 .. Last /\ Begun(u)' \in 0 .. Last /\ Entered(u) <= Begun(u)
  BY <1>0 DEF Begun, Entered, Starting
<1>2. CASE u # t
  BY <1>0, <1>1, <1>2, OthersPlaces DEF TeamInv, Begun, Labels
<1>3. ASSUME u = t, Begun(t)' # Begun(t)
      PROVE  Begun(t)' = Begun(t) + 1 /\ (StartKnown(t) \/ StopWaiting(t) \/ Begin(t))
  <2>0. pc \in [Threads -> Labels] /\ k \in [Threads -> 0 .. Last] /\ k[t] \in Int
    BY <1>0
  <2>1. CASE StartKnown(t) \/ StartFirst(t) \/ StartLater(t)
    BY <1>3, <2>0, <2>1 DEF StartKnown, StartFirst, StartLater, Starts, At, Goto, Begun, Starting
  <2>2. CASE MarkWaited(t) \/ FutexWait(t) \/ StopWaiting(t)
    BY <1>3, <2>0, <2>2 DEF MarkWaited, FutexWait, StopWaiting, At, Goto, Begun, Starting
  <2>3. CASE AllocCached(t) \/ AllocFreed(t) \/ AllocFresh(t)
    BY <1>3, <2>0, <2>3
       DEF AllocCached, AllocFreed, AllocFresh, InitShare, At, Goto, Begun, Starting
  <2>4. CASE LoadFree(t) \/ Begin(t) \/ Publish(t) \/ Wake(t)
    BY <1>3, <2>0, <2>4 DEF LoadFree, Begin, Publish, Wake, At, Goto, Begun, Starting
  <2>5. CASE LeaveNowait(t) \/ LastNowait(t) \/ Arrive(t) \/ Release(t) \/ PassBarrier(t)
    BY <1>3, <2>0, <2>5
       DEF LeaveNowait, LastNowait, Arrive, Release, PassBarrier, At, Goto, Begun, Starting
  <2>6. CASE FreeShare(t) \/ Push(t) \/ Record(t) \/ ParallelEnd(t) \/ Join(t)
    BY <1>3, <2>0, <2>6 DEF FreeShare, Push, Record, ParallelEnd, Join, At, Goto, Begun, Starting
  <2> QED
    BY <2>1, <2>2, <2>3, <2>4, <2>5, <2>6, TeamStep DEF TeamInv
<1> QED
  BY <1>1, <1>2, <1>3

\* Once next_ws leads on from a share, the next loop is under way.
LEMMA Followed ==
  ASSUME TeamInv, NEW s \in Shares, serves[s] # Null, nextWs[s] \in Shares
  PROVE  serves[s] \in Nat /\ \E u \in Threads : Entered(u) >= serves[s] + 1
<1>0. /\ serves[s] \in 0 .. Last /\ Last \in Nat /\ Null = -1 /\ Owned \notin Shares
      /\ Waited \notin Shares
  BY Basics DEF TeamInv, Types, Null
<1>1. serves[nextWs[s]] = serves[s] + 1 /\ serves[nextWs[s]] # Null
  BY <1>0 DEF TeamInv, Chain
<1>2. PICK u \in Threads : Cur(u) >= serves[s] + 1
  BY <1>1 DEF TeamInv, Chain
<1>3. k[u] \in 0 .. Last
  BY ThreadTypes DEF TeamInv
<1>4. CASE pc[u] \in {"begin", "publish"}
  <2>1. last[u] \in Shares /\ serves[last[u]] = k[u] - 1 /\ nextWs[last[u]] \in {Owned, Waited}
    BY <1>4, InUse DEF Unfinished, Opening, TeamInv, OneOpens
  <2>2. k[u] # serves[s] + 1
    BY <1>0, <1>3, <2>1 DEF TeamInv, Chain
  <2> QED
    BY <1>0, <1>2, <1>3, <1>4, <2>2 DEF Cur, Entered, Starting
<1>5. CASE pc[u] \notin {"begin", "publish"}
  BY <1>0, <1>2, <1>5 DEF Cur, Entered
<1> QED
  BY <1>0, <1>4, <1>5

-----------------------------------------------------------------------------
(* Recorders.                                                              *)

\* Which steps lead to bo_schedule_end.
LEMMA RecordingNext ==
  ASSUME TeamInv, NEW t \in Threads, Step(t)
  PROVE  /\ pc'[t] \in Recording =>
              \/ pc[t] \in Recording /\ ~Record(t) /\ k'[t] = k[t]
              \/ /\ Leaves(t) /\ k'[t] = k[t] /\ Left(k[t]) = Threads \ {t}
                 /\ prog.kind = "combined" => prog.loops[k[t]].end = "wait"
         /\ pc[t] \in Recording /\ ~Record(t) => pc'[t] \in Recording
         /\ Record(t) => pc[t] = "record" /\ k' = k
         /\ Leaves(t) /\ Left(k[t]) = Threads \ {t}
              /\ (prog.kind = "combined" => prog.loops[k[t]].end = "wait") =>
                pc'[t] \in Recording
<1>0. pc \in [Threads -> Labels] /\ k[t] \in Nat
  BY ThreadTypes DEF TeamInv, Types
<1>1. CASE Leaves(t)
  <2>1. pc[t] = "inside" /\ k' = k /\ ~Record(t)
    BY <1>1 DEF Leaves, LeaveNowait, LastNowait, Arrive, Record, At
  <2>2. pc'[t] \in Recording => LastNowait(t) \/ (Arrive(t) /\ awaited = 1)
    BY <1>0, <1>1, <2>1 DEF Leaves, LeaveNowait, LastNowait, Arrive, Goto, Recording, Freeing
  <2>3. pc'[t] \in Recording => Left(k[t]) = Threads \ {t}
    BY <1>1, <2>2, LastOut
  <2>4. prog.kind = "combined" => last[t] = Null
    BY DEF TeamInv, Places, Place
  <2>5. ASSUME pc'[t] \in Recording, prog.kind = "combined"
        PROVE  prog.loops[k[t]].end = "wait"
    <3>1. Arrive(t) /\ End(t) # "cancel" /\ End(t) # "nowait"
      BY <1>0, <2>2, <2>4, <2>5 DEF LastNowait, Arrive, Goto, Recording, Freeing
    <3>2. k[t] \in 1 .. Last /\ prog \in Programs
      BY <2>1, <2>5, ThreadTypes DEF TeamInv, Types, Places, Place
    <3> QED
      BY <3>1, <3>2, LoopFacts DEF End, Ends
  <2>6. ASSUME Left(k[t]) = Threads \ {t},
               prog.kind = "combined" => prog.loops[k[t]].end = "wait"
        PROVE  pc'[t] \in Recording
    <3>1. CASE prog.kind = "plain"
      BY <1>1, <2>6, <3>1, FreeingNext DEF Recording
    <3>2. CASE prog.kind = "combined"
      <4>1. Arrive(t) /\ End(t) = "wait"
        BY <1>1, <2>6, <3>2 DEF Leaves, LeaveNowait, LastNowait, End
      <4>2. awaited = 1
        BY <1>1, <2>6, <4>1, LastOut
      <4> QED
        BY <1>0, <2>4, <3>2, <4>1, <4>2 DEF Arrive, Goto, Recording
    <3> QED
      BY <3>1, <3>2 DEF TeamInv, Types
  <2> QED
    BY <1>1, <2>1, <2>3, <2>5, <2>6 DEF Recording, Freeing
<1>2. CASE ~Leaves(t)
  <2>1. CASE StartKnown(t) \/ StartFirst(t) \/ StartLater(t) \/ MarkWaited(t) \/ FutexWait(t)
    BY <1>0, <1>2, <2>1 DEF StartKnown, StartFirst, StartLater, Starts, MarkWaited, FutexWait,
       Record, At, Goto, Recording, Freeing
  <2>2. CASE StopWaiting(t) \/ LoadFree(t) \/ Begin(t) \/ Publish(t) \/ Wake(t)
    BY <1>0, <1>2, <2>2 DEF StopWaiting, LoadFree, Begin, Publish, Wake, Record, At, Goto,
       Recording, Freeing
  <2>3. CASE AllocCached(t) \/ AllocFreed(t) \/ AllocFresh(t)
    BY <1>0, <1>2, <2>3 DEF AllocCached, AllocFreed, AllocFresh, InitShare, Record, At, Goto,
       Recording, Freeing
  <2>4. CASE Release(t) \/ PassBarrier(t) \/ ParallelEnd(t) \/ Join(t)
    BY <1>0, <1>2, <2>4
       DEF Release, PassBarrier, ParallelEnd, Join, Record, At, Goto, Recording, Freeing
  <2>5. CASE Record(t)
    BY <1>0, <1>2, <2>5 DEF Record, At, Goto, Recording, Freeing
  <2>6. CASE FreeShare(t) \/ Push(t)
    BY <1>0, <1>2, <2>6 DEF FreeShare, Push, Record, At, Goto, Recording, Freeing
  <2> QED
    BY <1>2, <2>1, <2>2, <2>3, <2>4, <2>5, <2>6, TeamStep DEF TeamInv, Leaves
<1> QED
  BY <1>1, <1>2

\* The loops that have been finished stay finished.
LEMMA LeftGrows ==
  ASSUME TeamInv, NEW t \in Threads, Step(t), NEW j \in Int
  PROVE  Left(j) \subseteq Left(j)' /\ Left(j)' \subseteq Threads
BY LeftNext DEF Left

\* The two threads that are to report a loop would each have to be in the other one's past.
LEMMA OneRecorder ==
  ASSUME TeamInv, Recorders, NEW t \in Threads, NEW u \in Threads, pc[t] = "inside",
         Left(k[t]) = Threads \ {t}
  PROVE  pc[u] \notin Recording
<1>0. k[t] \in Nat /\ k[u] \in Nat
  BY ThreadTypes DEF TeamInv
<1> SUFFICES ASSUME pc[u] \in Recording PROVE FALSE
  OBVIOUS
<1>1. u # t
  BY DEF Recording, Freeing
<1>2. t \in Left(k[u])
  BY DEF Recorders
<1>3. k[t] > k[u]
  BY <1>0, <1>2 DEF Left, Unfinished
<1>4. u \in Left(k[t])
  BY <1>1
<1> QED
  BY <1>0, <1>3, <1>4 DEF Left

LEMMA RecordersNext ==
  ASSUME TeamInv, Recorders, NEW t \in Threads, Step(t)
  PROVE  Recorders'
<1>0. /\ prog' = prog /\ Last' = Last /\ pc \in [Threads -> Labels]
      /\ \A u \in Threads : k[u] \in Nat
  BY ProgStays, ThreadTypes DEF TeamInv, Types
<1>1. ASSUME NEW u \in Threads, u # t
      PROVE  /\ pc'[u] \in Recording <=> pc[u] \in Recording
             /\ pc'[u] = "joined" <=> pc[u] = "joined"
             /\ k'[u] = k[u]
  BY <1>1, OthersPlaces DEF TeamInv, Recording, Labels
<1>2. ASSUME NEW u \in Threads, pc'[u] \in Recording
      PROVE  /\ \A v \in Threads : k'[v] > k'[u] \/ (k'[v] = k'[u] /\ pc'[v] \notin Unfinished)
             /\ prog.kind = "combined" => prog.loops[k'[u]].end = "wait"
  <2>1. CASE pc[u] \in Recording /\ k'[u] = k[u]
    <3>1. Left(k[u]) = Threads
      BY <2>1 DEF Recorders
    <3>2. PICK j \in Nat : j = k[u]
      BY <1>0
    <3>3. Left(j)' = Threads
      BY <3>1, <3>2, LeftGrows
    <3>4. \A v \in Threads : k'[v] > j \/ (k'[v] = j /\ pc'[v] \notin Unfinished)
      BY <3>3 DEF Left
    <3> QED
      BY <2>1, <3>2, <3>4 DEF Recorders
  <2>2. CASE ~(pc[u] \in Recording /\ k'[u] = k[u])
    <3>1. /\ u = t /\ Leaves(t) /\ k'[t] = k[t] /\ Left(k[t]) = Threads \ {t}
          /\ prog.kind = "combined" => prog.loops[k[t]].end = "wait"
      BY <1>1, <1>2, <2>2, RecordingNext
    <3>2. PICK j \in Nat : j = k[t]
      BY <1>0
    <3>3. Left(j)' = Threads
      BY <3>1, <3>2, LeftNext
    <3>4. \A v \in Threads : k'[v] > j \/ (k'[v] = j /\ pc'[v] \notin Unfinished)
      BY <3>3 DEF Left
    <3> QED
      BY <3>1, <3>2, <3>4
  <2> QED
    BY <2>1, <2>2
<1>3. ASSUME NEW u \in Threads, NEW v \in Threads, pc'[u] \in Recording, pc'[v] \in Recording
      PROVE  u = v
  <2>1. CASE Leaves(t) /\ Left(k[t]) = Threads \ {t}
    <3>1. pc[t] = "inside"
      BY <2>1 DEF Leaves, LeaveNowait, LastNowait, Arrive, At
    <3> QED
      BY <1>1, <1>3, <2>1, <3>1, OneRecorder
  <2>2. CASE ~(Leaves(t) /\ Left(k[t]) = Threads \ {t})
    <3>1. pc[u] \in Recording /\ pc[v] \in Recording
      BY <1>1, <1>3, <2>2, RecordingNext
    <3> QED
      BY <3>1 DEF Recorders
  <2> QED
    BY <2>1, <2>2
<1>4. ASSUME pc'[t] = "joined"
      PROVE  k'[t] = Last
  <2>1. ParallelEnd(t) \/ Join(t)
    <3>1. CASE StartKnown(t) \/ StartFirst(t) \/ StartLater(t) \/ MarkWaited(t) \/ FutexWait(t)
               \/ StopWaiting(t) \/ LoadFree(t)
      BY <1>0, <1>4, <3>1
         DEF StartKnown, StartFirst, StartLater, MarkWaited, FutexWait, StopWaiting, LoadFree, Goto
    <3>2. CASE AllocCached(t) \/ AllocFreed(t) \/ AllocFresh(t) \/ Begin(t) \/ Publish(t)
               \/ Wake(t)
      BY <1>0, <1>4, <3>2
         DEF AllocCached, AllocFreed, AllocFresh, InitShare, Begin, Publish, Wake, Goto
    <3>3. CASE LeaveNowait(t) \/ LastNowait(t) \/ Arrive(t) \/ Release(t) \/ PassBarrier(t)
               \/ FreeShare(t) \/ Push(t) \/ Record(t)
      BY <1>0, <1>4, <3>3 DEF LeaveNowait, LastNowait, Arrive, Release, PassBarrier, FreeShare,
         Push, Record, Goto
    <3> QED
      BY <3>1, <3>2, <3>3, TeamStep DEF TeamInv
  <2>2. k' = k
    BY <2>1 DEF ParallelEnd, Join
  <2>3. ParallelEnd(t) => k[t] = 1 /\ Last = 1
    BY Basics DEF ParallelEnd, TeamInv, Places, Place
  <2> QED
    BY <2>1, <2>2, <2>3 DEF Join
<1>5. ASSUME NEW u \in Threads, pc'[u] = "joined"
      PROVE  k'[u] = Last
  BY <1>1, <1>4, <1>5 DEF Recorders
<1> QED
  <2>1. \A u \in Threads : pc'[u] \in Recording => Left(k[u])' = Threads
    BY <1>2 DEF Left
  <2> QED
    BY <1>0, <1>2, <1>3, <1>5, <2>1 DEF Recorders

-----------------------------------------------------------------------------
(* Counts.                                                                 *)

\* Of the loops that the team reports, Record is the only step that finishes one for good.
LEMMA DoneNext ==
  ASSUME TeamInv, Recorders, NEW t \in Threads, Step(t), NEW i \in 1 .. Last,
         prog.kind = "combined" => prog.loops[i].end = "wait"
  PROVE  /\ ~(Record(t) /\ k[t] = i) => (Done(i)' <=> Done(i))
         /\ Record(t) /\ k[t] = i => ~Done(i) /\ Done(i)'
<1>0. i \in Int /\ \A u \in Threads : k[u] \in Int
  BY Basics, ThreadTypes DEF TeamInv
<1>1. /\ Leaves(t) /\ i = k[t] => Left(i)' = Left(i) \cup {t} /\ t \notin Left(i)
      /\ ~(Leaves(t) /\ i = k[t]) => Left(i)' = Left(i)
  BY <1>0, LeftNext
<1>2. ASSUME NEW u \in Threads, u # t
      PROVE  (pc'[u] \in Recording <=> pc[u] \in Recording) /\ k'[u] = k[u]
  BY <1>2, OthersPlaces DEF TeamInv, Recording, Labels
<1>3. CASE Leaves(t) /\ k[t] = i
  <2>1. pc[t] = "inside" /\ ~Record(t)
    BY <1>3 DEF Leaves, LeaveNowait, LastNowait, Arrive, Record, At
  <2>2. ~Done(i)
    BY <1>1, <1>3 DEF Done
  <2>3. ~Done(i)'
    <3>1. CASE Left(i) = Threads \ {t}
      <4>1. pc'[t] \in Recording
        BY <1>3, <3>1, RecordingNext
      <4>2. k'[t] = i
        BY <1>3 DEF Leaves, LeaveNowait, LastNowait, Arrive
      <4> QED
        BY <4>1, <4>2 DEF Done
    <3>2. CASE Left(i) # Threads \ {t}
      BY <1>1, <1>3, <3>2 DEF Done
    <3> QED
      BY <3>1, <3>2
  <2> QED
    BY <2>1, <2>2, <2>3
<1>4. CASE Record(t) /\ k[t] = i
  <2>1. pc[t] = "record" /\ k' = k /\ pc'[t] \notin Recording
    <3>1. pc'[t] \in {"between", "release"}
      BY <1>4 DEF Record, Goto, TeamInv, Types
    <3> QED
      BY <1>4, <3>1 DEF Record, At, Recording, Freeing
  <2>2. ~Leaves(t)
    BY <2>1 DEF Leaves, LeaveNowait, LastNowait, Arrive, At
  <2>3. Left(i) = Threads /\ \A u \in Threads : pc[u] \in Recording => u = t
    BY <1>4, <2>1 DEF Recorders, Recording
  <2>4. ~Done(i)
    BY <1>4, <2>1 DEF Done, Recording
  <2>5. Done(i)'
    BY <1>1, <1>2, <2>1, <2>2, <2>3 DEF Done
  <2> QED
    BY <1>4, <2>4, <2>5
<1>5. CASE ~(Leaves(t) /\ k[t] = i) /\ ~(Record(t) /\ k[t] = i)
  <2>1. pc'[t] \in Recording /\ k'[t] = i <=> pc[t] \in Recording /\ k[t] = i
    BY <1>5, RecordingNext
  <2> QED
    BY <1>1, <1>2, <1>5, <2>1 DEF Done
<1> QED
  BY <1>3, <1>4, <1>5

\* How a step changes the measurements.
LEMMA MeasuresStep ==
  ASSUME TeamInv, NEW t \in Threads, Step(t)
  PROVE  /\ \/ measured' = measured /\ origin' = origin
            \/ k[t] \in 1 .. Last /\ Observe(t) /\ (Record(t) \/ ParallelEnd(t))
         /\ \/ started' = started
            \/ Begin(t) /\ started' = [started EXCEPT ![Region(t)] = k[t]]
         /\ Record(t) \/ ParallelEnd(t) => Observe(t)
         /\ Begin(t) => started' = [started EXCEPT ![Region(t)] = k[t]]
<1>1. CASE Record(t) \/ ParallelEnd(t)
  <2>1. k[t] \in 1 .. Last
    <3>1. k[t] # 0
      BY <1>1, Basics DEF ParallelEnd, Record, At, TeamInv, Places, Place
    <3> QED
      BY <3>1, ThreadTypes DEF TeamInv
  <2>2. Observe(t) /\ started' = started
    BY <1>1 DEF ParallelEnd, Record
  <2>3. pc[t] # "begin"
    BY <1>1 DEF ParallelEnd, Record, At
  <2> QED
    BY <1>1, <2>1, <2>2, <2>3 DEF Begin, At
<1>2. CASE Begin(t)
  BY <1>2 DEF Begin, Record, ParallelEnd, At
<1>3. CASE ~(Record(t) \/ ParallelEnd(t)) /\ ~Begin(t)
  <2>1. CASE StartKnown(t) \/ StartFirst(t) \/ StartLater(t) \/ MarkWaited(t) \/ FutexWait(t)
             \/ StopWaiting(t) \/ LoadFree(t)
    BY <2>1, <1>3 DEF StartKnown, StartFirst, StartLater, MarkWaited, FutexWait, StopWaiting,
       LoadFree, timing
  <2>2. CASE AllocCached(t) \/ AllocFreed(t) \/ AllocFresh(t) \/ Publish(t) \/ Wake(t)
    BY <2>2, <1>3 DEF AllocCached, AllocFreed, AllocFresh, InitShare, Publish, Wake, timing
  <2>3. CASE LeaveNowait(t) \/ LastNowait(t) \/ Arrive(t) \/ Release(t) \/ PassBarrier(t)
             \/ FreeShare(t) \/ Push(t) \/ Join(t)
    BY <2>3, <1>3 DEF LeaveNowait, LastNowait, Arrive, Release, PassBarrier, FreeShare, Push,
       Join, timing
  <2> QED
    BY <1>3, <2>1, <2>2, <2>3, TeamStep DEF TeamInv
<1> QED
  BY <1>1, <1>2, <1>3

LEMMA CountsNext ==
  ASSUME TeamMeasures, NEW t \in Threads, Step(t)
  PROVE  Counts'
<1> USE DEF TeamMeasures
<1>0. /\ prog' = prog /\ Last' = Last /\ Last \in Nat
      /\ measured \in [1 .. Last -> Nat] /\ pc \in [Threads -> Labels] /\ Master \in Threads
      /\ prog.kind \in {"plain", "combined"} /\ prog.kind = "combined" => Last = 1
  BY ProgStays, Basics, WorkShareAssumption DEF Measures, TeamInv, Types
<1> SUFFICES ASSUME NEW i \in 1 .. Last
             PROVE  measured'[i] =
                        (IF prog.kind = "combined" /\ pc'[Master] = "joined" THEN 1 ELSE 0)
                      + (IF (prog.kind = "combined" => prog.loops[i].end = "wait") /\ Done(i)'
                         THEN 1 ELSE 0)
  BY <1>0 DEF Counts
<1> DEFINE reports == prog.kind = "combined" => prog.loops[i].end = "wait"
<1>1. /\ measured[i] \in Nat
      /\ measured[i] = (IF prog.kind = "combined" /\ pc[Master] = "joined" THEN 1 ELSE 0)
                     + (IF reports /\ Done(i) THEN 1 ELSE 0)
  BY <1>0 DEF Counts
<1>2. ~(Record(t) /\ k[t] = i) /\ reports => (Done(i)' <=> Done(i))
  BY DoneNext
<1>3. CASE Record(t) /\ k[t] = i
  <2>1. reports
    BY <1>3 DEF Record, At, Recorders, Recording
  <2>2. ~Done(i) /\ Done(i)'
    BY <1>3, <2>1, DoneNext
  <2>3. measured'[i] = measured[i] + 1
    BY <1>0, <1>3, MeasuresStep DEF Observe
  <2>4. pc'[Master] = "joined" <=> pc[Master] = "joined"
    <3>1. pc[t] = "record" /\ pc'[t] \in {"between", "release"}
      BY <1>0, <1>3 DEF Record, At, Goto
    <3> QED
      BY <1>0, <3>1, OthersPlaces DEF TeamInv, Labels
  <2>5. /\ (IF reports /\ Done(i) THEN 1 ELSE 0) = 0
        /\ (IF reports /\ Done(i)' THEN 1 ELSE 0) = 1
    BY <2>1, <2>2
  <2> QED
    BY <1>1, <2>3, <2>4, <2>5
<1>4. CASE ParallelEnd(t)
  <2>1. /\ pc[t] = "between" /\ t = Master /\ prog.kind = "combined" /\ pc'[t] = "joined"
        /\ ~Record(t) /\ k[t] = i
    BY <1>0, <1>4 DEF ParallelEnd, Record, At, Goto, TeamInv, Places, Place
  <2>2. measured'[i] = measured[i] + 1
    BY <1>0, <1>4, <2>1, MeasuresStep DEF Observe
  <2>3. (IF reports /\ Done(i) THEN 1 ELSE 0) = (IF reports /\ Done(i)' THEN 1 ELSE 0)
    BY <1>2, <2>1
  <2>4. /\ (IF prog.kind = "combined" /\ pc[Master] = "joined" THEN 1 ELSE 0) = 0
        /\ (IF prog.kind = "combined" /\ pc'[Master] = "joined" THEN 1 ELSE 0) = 1
    BY <2>1
  <2> QED
    BY <1>1, <2>2, <2>3, <2>4
<1>5. CASE ~ParallelEnd(t) /\ ~(Record(t) /\ k[t] = i)
  <2>1. measured'[i] = measured[i]
    BY <1>0, <1>5, MeasuresStep DEF Observe
  <2>2. prog.kind = "combined" => (pc'[Master] = "joined" <=> pc[Master] = "joined")
    <3>1. CASE t # Master
      BY <1>0, <3>1, OthersPlaces DEF TeamInv, Labels
    <3>2. CASE t = Master /\ prog.kind = "combined"
      <4>1. pc[t] # "joined" /\ pc'[t] # "joined"
        <5>1. CASE StartKnown(t) \/ StartFirst(t) \/ StartLater(t) \/ MarkWaited(t)
                   \/ FutexWait(t) \/ StopWaiting(t) \/ LoadFree(t)
          BY <1>0, <5>1 DEF StartKnown, StartFirst, StartLater, Starts, MarkWaited, FutexWait,
             StopWaiting, LoadFree, At, Goto
        <5>2. CASE AllocCached(t) \/ AllocFreed(t) \/ AllocFresh(t) \/ Begin(t) \/ Publish(t)
                   \/ Wake(t)
          BY <1>0, <5>2
             DEF AllocCached, AllocFreed, AllocFresh, InitShare, Begin, Publish, Wake, At, Goto
        <5>3. CASE LeaveNowait(t) \/ LastNowait(t) \/ Arrive(t) \/ Release(t) \/ PassBarrier(t)
                   \/ FreeShare(t) \/ Push(t) \/ Record(t)
          BY <1>0, <5>3 DEF LeaveNowait, LastNowait, Arrive, Release, PassBarrier, FreeShare,
             Push, Record, At, Goto
        <5>4. ~Join(t)
          BY <3>2 DEF Join
        <5> QED
          BY <1>5, <5>1, <5>2, <5>3, <5>4, TeamStep DEF TeamInv
      <4> QED
        BY <3>2, <4>1
    <3> QED
      BY <3>1, <3>2
  <2> HIDE DEF reports
  <2> QED
    BY <1>1, <1>2, <1>5, <2>1, <2>2 DEF reports
<1> QED
  BY <1>3, <1>4, <1>5

-----------------------------------------------------------------------------
(* Measures, Times and Origins.                                            *)

LEMMA MeasuresNext ==
  ASSUME TeamInv, Measures, NEW t \in Threads, Step(t)
  PROVE  Measures'
<1>0. /\ prog' = prog /\ Last' = Last /\ k[t] \in 0 .. Last
      /\ k[t] \in 1 .. Last => Region(t) \in Regions
  <2>1. k[t] \in 1 .. Last => Region(t) \in Regions
    BY LoopFacts DEF TeamInv, Types, Region
  <2> QED
    BY <2>1, ProgStays, ThreadTypes DEF TeamInv
<1>1. started' \in [Regions -> 0 .. Last]
  BY <1>0, MeasuresStep DEF Measures
<1>2. measured' \in [1 .. Last -> Nat] /\ origin' \in [1 .. Last -> 0 .. Last]
  <2>1. CASE k[t] \in 1 .. Last /\ Observe(t)
    <3>1. started[Region(t)] \in 0 .. Last /\ measured[k[t]] + 1 \in Nat
      BY <1>0, <2>1 DEF Measures
    <3> QED
      BY <2>1, <3>1 DEF Measures, Observe
  <2>2. CASE measured' = measured /\ origin' = origin
    BY <2>2 DEF Measures
  <2> QED
    BY <2>1, <2>2, MeasuresStep
<1> QED
  BY <1>0, <1>1, <1>2 DEF Measures

\* A thread that finds the next loop begun is not the first to get there.
LEMMA NotFirst ==
  ASSUME TeamInv, NEW t \in Threads, StartKnown(t) \/ StopWaiting(t)
  PROVE  /\ Begun(t) = Entered(t)
         /\ \E u \in Threads : Entered(u) >= Entered(t) + 1
<1>0. k[t] \in Nat /\ Place(t) /\ Types
  BY ThreadTypes DEF TeamInv, Places
<1>1. CASE StartKnown(t)
  <2>1. pc[t] = "between" /\ nextWs[ws[t]] \in Shares
    BY <1>1 DEF StartKnown, Starts, At
  <2>2. serves[ws[t]] = k[t] /\ serves[ws[t]] # Null /\ ws[t] \in Shares
    BY <1>0, <2>1, InUse, ThreadTypes DEF Place, Cur, Starting
  <2>3. \E u \in Threads : Entered(u) >= k[t] + 1
    BY <2>1, <2>2, Followed
  <2> QED
    BY <2>1, <2>3 DEF Begun, Entered, Starting
<1>2. CASE StopWaiting(t)
  <2>1. pc[t] = "sleep" /\ nextWs[last[t]] \in Shares
    BY <1>0, <1>2 DEF StopWaiting, At, Place
  <2>2. serves[last[t]] = k[t] - 1 /\ serves[last[t]] # Null /\ last[t] \in Shares
    BY <2>1, InUse DEF Unfinished, Starting
  <2>3. \E u \in Threads : Entered(u) >= (k[t] - 1) + 1
    BY <2>1, <2>2, Followed
  <2> QED
    BY <2>1, <2>3 DEF Begun, Entered, Starting
<1> QED
  BY <1>1, <1>2

LEMMA TimesNext ==
  ASSUME TeamInv, Measures, Times, NEW t \in Threads, Step(t)
  PROVE  Times'
<1>0. /\ prog' = prog /\ Last' = Last /\ started \in [Regions -> 0 .. Last] /\ Last \in Nat
      /\ k[t] \in Nat /\ pc \in [Threads -> Labels]
  BY ProgStays, Basics, ThreadTypes DEF Measures, TeamInv, Types
<1>1. \A u \in Threads : Begun(u) \in Int /\ Begun(u)' \in Int /\ Begun(u)' >= Begun(u)
  BY <1>0, BegunNext
<1>2. ASSUME Begin(t)
      PROVE  /\ k[t] \in 1 .. Last /\ Begun(t)' = k[t]
             /\ \A u \in Threads : Begun(u) <= k[t]
  <2>1. pc[t] = "begin" /\ pc'[t] = "publish" /\ k' = k
    BY <1>0, <1>2 DEF Begin, At, Goto
  <2>2. k[t] \in 1 .. Last
    BY <2>1, ThreadTypes DEF TeamInv, Places, Place
  <2>3. ASSUME NEW u \in Threads
        PROVE  Begun(u) <= k[t]
    <3>1. Entered(u) < k[t] /\ k[u] \in Nat
      BY <2>1, ThreadTypes DEF TeamInv, OneOpens, Opening
    <3>2. Begun(u) <= Entered(u) + 1
      BY <3>1 DEF Begun, Entered
    <3> QED
      BY <1>0, <1>1, <3>1, <3>2 DEF Entered
  <2> QED
    BY <2>1, <2>2, <2>3 DEF Begun, Starting
<1>3. ASSUME NEW r \in Regions, started'[r] # 0
      PROVE  /\ prog.loops[started'[r]].region = r
             /\ \E u \in Threads : Begun(u)' >= started'[r]
  <2>1. CASE started'[r] = started[r]
    <3>1. PICK u \in Threads : Begun(u) >= started[r]
      BY <1>3, <2>1 DEF Times
    <3>2. Begun(u)' >= started[r]
      BY <1>0, <1>1, <3>1
    <3> QED
      BY <1>3, <2>1, <3>2 DEF Times
  <2>2. CASE started'[r] # started[r]
    <3>1. Begin(t) /\ r = Region(t) /\ started'[r] = k[t]
      BY <1>0, <2>2, MeasuresStep
    <3> QED
      BY <1>0, <1>2, <3>1 DEF Region
  <2> QED
    BY <2>1, <2>2
<1>4. ASSUME NEW r \in Regions, NEW j \in 1 .. Last, prog.loops[j].region = r,
             NEW u \in Threads, Begun(u)' >= j
      PROVE  started'[r] >= j
  <2>1. CASE \E v \in Threads : Begun(v) >= j
    <3>1. started[r] >= j
      BY <1>4, <2>1 DEF Times
    <3>2. CASE started'[r] = started[r]
      BY <3>1, <3>2
    <3>3. CASE started'[r] # started[r]
      <4>1. Begin(t) /\ started'[r] = k[t]
        BY <1>0, <3>3, MeasuresStep
      <4>2. \A v \in Threads : Begun(v) <= k[t]
        BY <1>2, <4>1
      <4> QED
        BY <1>0, <1>1, <2>1, <4>1, <4>2
    <3> QED
      BY <3>2, <3>3
  <2>2. CASE ~\E v \in Threads : Begun(v) >= j
    <3>1. u = t /\ Begun(t)' = Begun(t) + 1 /\ (StartKnown(t) \/ StopWaiting(t) \/ Begin(t))
      BY <1>4, <2>2, BegunNext
    <3>2. Begin(t)
      <4>1. ASSUME StartKnown(t) \/ StopWaiting(t)
            PROVE  FALSE
        <5>1. PICK v \in Threads : Entered(v) >= Begun(t) + 1
          BY <4>1, NotFirst
        <5>2. Begun(v) >= Entered(v) /\ Entered(v) \in Int
          BY BegunNext, Forward
        <5> QED
          BY <1>1, <1>4, <2>2, <3>1, <5>1, <5>2
      <4> QED
        BY <3>1, <4>1
    <3>3. j = k[t]
      BY <1>0, <1>1, <1>2, <1>4, <2>2, <3>1, <3>2
    <3>4. started' = [started EXCEPT ![Region(t)] = k[t]] /\ r = Region(t)
      BY <1>4, <3>2, <3>3, MeasuresStep DEF Region
    <3> QED
      BY <1>0, <3>3, <3>4
  <2> QED
    BY <2>1, <2>2
<1> QED
  BY <1>0, <1>3, <1>4 DEF Times

\* start is later than the beginning of a loop that is reported only if the loop was overtaken.
LEMMA StartOfReported ==
  ASSUME TeamInv, Measures, Times, NEW t \in Threads, Record(t) \/ ParallelEnd(t),
         k[t] \in 1 .. Last
  PROVE  /\ started[Region(t)] >= k[t]
         /\ started[Region(t)] # k[t] => Overtaken(k[t])
<1> DEFINE i == k[t]
           r == Region(t)
           j == started[r]
<1>0. Last \in Nat /\ i \in 1 .. Last /\ prog \in Programs
  BY Basics DEF TeamInv, Types
<1>1. r \in Regions /\ prog.loops[i].region = r
  BY <1>0, LoopFacts DEF Region
<1>2. Begun(t) = i /\ pc[t] \in {"record", "between"}
  BY DEF Begun, Record, ParallelEnd, At, Starting
<1>3. j \in 0 .. Last /\ j >= i
  <2>1. Begun(t) >= i
    BY <1>0, <1>2
  <2> QED
    BY <1>0, <1>1, <2>1 DEF Measures, Times
<1>4. ASSUME j # i
      PROVE  Overtaken(i)
  <2>1. j \in i + 1 .. Last /\ i < Last /\ Last # 1
    BY <1>0, <1>3, <1>4
  <2>2. pc[t] = "record"
    BY <2>1, Basics DEF Record, ParallelEnd, At, TeamInv
  <2>3. prog.loops[j].region = r
    BY <1>0, <1>1, <2>1 DEF Times
  <2>4. PICK u \in Threads : Begun(u) >= j
    BY <1>0, <1>1, <2>1 DEF Times
  <2>5. k[u] \in Nat /\ k[u] >= j
    <3>1. k[u] \in Nat
      BY ThreadTypes DEF TeamInv
    <3> QED
      BY <1>0, <2>1, <2>4, <3>1 DEF Begun
  <2>6. ASSUME NEW h \in i .. j - 1, prog.loops[h].end # "nowait"
        PROVE  FALSE
    <3>1. h \in 1 .. Last /\ k[u] > h /\ ~(i > h)
      BY <1>0, <2>1, <2>5, <2>6
    <3>2. Out(u, h)
      BY <3>1 DEF Out
    <3>3. Out(t, h)
      BY <2>6, <3>1, <3>2 DEF TeamInv, Barrier, Nowait
    <3> QED
      BY <2>2, <3>1, <3>3 DEF Out
  <2>7. i \in i .. j - 1
    BY <1>0, <2>1
  <2> QED
    BY <1>1, <2>1, <2>3, <2>6, <2>7 DEF Overtaken
<1> QED
  BY <1>3, <1>4

LEMMA OriginsNext ==
  ASSUME TeamInv, Measures, Times, Origins, NEW t \in Threads, Step(t)
  PROVE  Origins'
<1>0. /\ prog' = prog /\ Last' = Last /\ \A i : Overtaken(i)' <=> Overtaken(i)
  BY ProgStays DEF Overtaken
<1> SUFFICES ASSUME NEW i \in 1 .. Last, measured'[i] > 0
             PROVE  origin'[i] >= i /\ (~Overtaken(i) => origin'[i] = i)
  BY <1>0 DEF Origins
<1>1. CASE measured'[i] = measured[i] /\ origin'[i] = origin[i]
  BY <1>1 DEF Origins
<1>2. CASE ~(measured'[i] = measured[i] /\ origin'[i] = origin[i])
  <2>1. /\ k[t] = i /\ (Record(t) \/ ParallelEnd(t))
        /\ origin' = [origin EXCEPT ![i] = started[Region(t)]]
    BY <1>2, MeasuresStep, ZenonT(30) DEF Observe, Measures
  <2>2. origin'[i] = started[Region(t)]
    BY <2>1 DEF Measures
  <2> QED
    BY <2>1, <2>2, StartOfReported
<1> QED
  BY <1>1, <1>2

-----------------------------------------------------------------------------
(* The loops of a team.                                                    *)

LEMMA InitMeasures ==
  ASSUME Init, prog.kind # "orphan"
  PROVE  TeamMeasures
<1>0. TeamInv /\ Last \in Nat /\ (prog.kind = "combined" => Last = 1) /\ Master \in Threads
      /\ prog \in Programs /\ prog.kind \in {"plain", "combined"}
  BY InitInvariant, Basics, WorkShareAssumption DEF TeamInv, Types
<1>1. /\ \A t \in Threads : /\ k[t] = IF prog.kind = "combined" THEN 1 ELSE 0
                            /\ pc[t] = IF prog.kind = "combined" THEN "inside" ELSE "between"
      /\ \A r \in Regions :
           started[r] = IF prog.kind = "combined" /\ r = prog.loops[1].region THEN 1 ELSE 0
      /\ \A i \in 1 .. Last : measured[i] = 0
  BY <1>0 DEF Init, Last
<1>2. Measures
  BY <1>0 DEF Init, Measures, Last
<1>3. Recorders
  BY <1>1 DEF Recorders, Recording, Freeing
<1>4. Times
  <2>1. \A t \in Threads : Begun(t) = IF prog.kind = "combined" THEN 1 ELSE 0
    BY <1>0, <1>1 DEF Begun, Starting
  <2>2. ASSUME NEW r \in Regions, started[r] # 0
        PROVE  prog.loops[started[r]].region = r /\ \E t \in Threads : Begun(t) >= started[r]
    BY <1>0, <1>1, <2>1, <2>2
  <2>3. ASSUME NEW r \in Regions, NEW j \in 1 .. Last, prog.loops[j].region = r,
               NEW t \in Threads, Begun(t) >= j
        PROVE  started[r] >= j
    <3>1. prog.kind = "combined" /\ j = 1
      BY <1>0, <2>1, <2>3
    <3> QED
      BY <1>1, <2>3, <3>1
  <2> QED
    BY <2>2, <2>3 DEF Times
<1>5. Counts
  <2>1. \A i \in 1 .. Last : Master \notin Left(i)
    BY <1>0, <1>1 DEF Left, Unfinished
  <2>2. \A i \in 1 .. Last : ~Done(i)
    BY <1>0, <2>1 DEF Done
  <2>3. ~(prog.kind = "combined" /\ pc[Master] = "joined")
    BY <1>0, <1>1
  <2> QED
    BY <1>1, <2>2, <2>3 DEF Counts
<1>6. Origins
  BY <1>1 DEF Origins
<1> QED
  BY <1>0, <1>2, <1>3, <1>4, <1>5, <1>6 DEF TeamMeasures

LEMMA MeasuresKept ==
  ASSUME TeamMeasures, [Next]_vars
  PROVE  TeamMeasures'
<1>1. TeamInv'
  BY StepInvariant DEF TeamMeasures
<1>2. CASE Next
  <2>1. PICK t \in Threads : Step(t)
    BY <1>2 DEF Next
  <2> QED
    BY <1>1, <2>1, MeasuresNext, RecordersNext, TimesNext, CountsNext, OriginsNext
       DEF TeamMeasures
<1>3. CASE UNCHANGED vars
  <2>1. UNCHANGED <<prog, pc, k, started, measured, origin>>
    BY <1>3 DEF vars, timing
  <2>2. Measures' /\ Recorders' /\ Times' /\ Origins'
    BY <2>1 DEF TeamMeasures, Measures, Recorders, Times, Origins, Begun, Overtaken, Last, Left
  <2>3. Counts'
    BY <2>1 DEF TeamMeasures, Counts, Done, Last, Left
  <2> QED
    BY <1>1, <2>2, <2>3 DEF TeamMeasures
<1> QED
  BY <1>2, <1>3

\* Nobody is counted twice in threads_completed.
Completions == \A s \in Shares : completed[s] <= P

LEMMA CompletionsNext ==
  ASSUME TeamInv, Completions, NEW t \in Threads, Step(t)
  PROVE  Completions'
<1>0. /\ completed \in [Shares -> Nat] /\ P \in Nat \ {0} /\ IsFiniteSet(Threads) /\ P' = P
  BY Basics DEF TeamInv, Types, P
<1>1. CASE LeaveNowait(t) \/ LastNowait(t)
  <2>1. /\ pc[t] = "inside" /\ prog.loops[k[t]].end = "nowait"
        /\ completed' = [completed EXCEPT ![ws[t]] = @ + 1]
    BY <1>1 DEF LeaveNowait, LastNowait, At, End
  <2>2. k[t] # 0 /\ k[t] \in Nat /\ ws[t] \in Shares /\ serves[ws[t]] = k[t]
        /\ serves[ws[t]] # Null
    BY <2>1, ThreadTypes, InUse DEF TeamInv, Places, Place, Cur, Starting
  <2>3. completed[ws[t]] = Cardinality(Left(k[t]))
    BY <2>1, <2>2 DEF TeamInv, Leaving, Nowait
  <2>4. Left(k[t]) \in SUBSET (Threads \ {t})
    BY <2>1, <2>2 DEF Left, Unfinished
  <2>5. IsFiniteSet(Threads \ {t}) /\ Cardinality(Threads \ {t}) = P - 1
    BY <1>0, FS_RemoveElement DEF P
  <2>6. Cardinality(Left(k[t])) <= P - 1
    BY <2>4, <2>5, FS_Subset
  <2>7. completed[ws[t]] + 1 <= P
    BY <1>0, <2>2, <2>3, <2>6
  <2> QED
    BY <1>0, <2>1, <2>2, <2>7 DEF Completions
<1>2. CASE AllocCached(t) \/ AllocFreed(t) \/ AllocFresh(t)
  BY <1>0, <1>2 DEF AllocCached, AllocFreed, AllocFresh, InitShare, Completions
<1>3. CASE ~(LeaveNowait(t) \/ LastNowait(t)) /\ ~(AllocCached(t) \/ AllocFreed(t) \/ AllocFresh(t))
  <2>1. completed' = completed
    BY <1>3, TeamStep DEF TeamInv, StartKnown, StartFirst, StartLater, MarkWaited, FutexWait,
       StopWaiting, LoadFree, Begin, Publish, Wake, Arrive, Release, PassBarrier, FreeShare,
       Push, Record, ParallelEnd, Join
  <2> QED
    BY <1>0, <2>1 DEF Completions
<1> QED
  BY <1>1, <1>2, <1>3

-----------------------------------------------------------------------------
(* Loops outside any parallel region: the master runs them on its own.     *)

\* How often loop i has been reported.
Told(i) ==
  IF Nowait(i) /\ (k[Master] > i \/ (k[Master] = i /\ pc[Master] \notin {"inside", "record"}))
  THEN 1 ELSE 0

Alone ==
  /\ TypeOK /\ prog.kind = "orphan"
  /\ \A t \in Threads \ {Master} : pc[t] = "joined" /\ k[t] = 0
  /\ pc[Master] \in {"between", "inside", "record", "joined"}
  /\ pc[Master] \in {"inside", "record"} =>
       k[Master] # 0 /\ started[Region(Master)] = k[Master]
  /\ pc[Master] = "record" => Nowait(k[Master])
  /\ pc[Master] = "joined" => k[Master] = Last
  /\ \A i \in 1 .. Last : measured[i] = Told(i) /\ (measured[i] > 0 => origin[i] = i)

LEMMA InitTypeOK ==
  ASSUME Init
  PROVE  TypeOK
<1>0. /\ Shares = 0 .. MaxShares - 1 /\ MaxShares \in Nat /\ Inline \in Nat \ {0}
      /\ Inline <= MaxShares /\ Null = -1 /\ Master \in Threads
      /\ prog \in Programs /\ prog.kind \in Kinds /\ Last \in Nat
      /\ (prog.kind = "combined" => Last = 1)
  BY WorkShareAssumption DEF Shares, Null, Init, Last
<1>1. P \in Nat \ {0}
  BY WorkShareAssumption, FS_CardinalityType, FS_EmptySet DEF P
<1>2. /\ pc \in [Threads -> Labels] /\ k \in [Threads -> 0 .. Last]
      /\ ws \in [Threads -> Shares \cup {Null}] /\ last \in [Threads -> Shares \cup {Null}]
      /\ snap \in [Threads -> Int]
  BY <1>0 DEF Init, Labels, Kinds
<1>3. /\ nextWs \in [Shares -> Shares \cup {Null, Owned, Waited}]
      /\ completed \in [Shares -> 0 .. P]
      /\ nextFree \in [Shares -> Shares \cup {Null}]
      /\ listAlloc \in Shares \cup {Null} /\ listFree \in Shares \cup {Null}
      /\ chunk \in Nat /\ made \in 0 .. MaxShares
      /\ awaited \in 0 .. P /\ gen \in Nat
  BY <1>0, <1>1 DEF Init
<1>4. /\ started \in [Regions -> 0 .. Last] /\ measured \in [1 .. Last -> Nat]
      /\ origin \in [1 .. Last -> 0 .. Last]
  BY <1>0 DEF Init, Last
<1>5. serves \in [Shares -> (0 .. Last) \cup {Null}]
  BY <1>0, <1>2 DEF Init
<1> QED
  BY <1>0, <1>2, <1>3, <1>4, <1>5 DEF TypeOK

\* The first loop of a thread that is alone is still to come.
LEMMA InitAlone ==
  ASSUME Init, prog.kind = "orphan"
  PROVE  Alone
<1>1. \A t \in Threads : k[t] = 0 /\ pc[t] = IF t = Master THEN "between" ELSE "joined"
  BY DEF Init
<1>2. Last \in Nat /\ \A i \in 1 .. Last : measured[i] = 0
  BY WorkShareAssumption DEF Init, Last
<1>3. Master \in Threads
  BY WorkShareAssumption
<1> QED
  BY <1>1, <1>2, <1>3, InitTypeOK DEF Alone, Told

\* What a loop outside any parallel region can do.
LEMMA AloneStep ==
  ASSUME Alone, NEW t \in Threads, Step(t)
  PROVE  /\ t = Master
         /\ StartOrphan(t) \/ EndOrphan(t) \/ Record(t) \/ Join(t)
<1>0. prog.kind = "orphan" /\ pc[t] \in {"between", "inside", "record", "joined"}
      /\ (t # Master => pc[t] = "joined")
  BY DEF Alone
<1>1. CASE StartKnown(t) \/ StartFirst(t) \/ StartLater(t) \/ MarkWaited(t) \/ FutexWait(t)
           \/ StopWaiting(t) \/ LoadFree(t) \/ Begin(t)
  BY <1>0, <1>1 DEF StartKnown, StartFirst, StartLater, Starts, MarkWaited, FutexWait,
     StopWaiting, LoadFree, Begin, At
<1>2. CASE AllocCached(t) \/ AllocFreed(t) \/ AllocFresh(t) \/ Publish(t) \/ Wake(t)
  BY <1>0, <1>2 DEF AllocCached, AllocFreed, AllocFresh, Publish, Wake, At
<1>3. CASE LeaveNowait(t) \/ LastNowait(t) \/ Arrive(t) \/ Release(t) \/ PassBarrier(t)
           \/ FreeShare(t) \/ Push(t) \/ ParallelEnd(t)
  BY <1>0, <1>3 DEF LeaveNowait, LastNowait, Arrive, Release, PassBarrier, FreeShare, Push,
     ParallelEnd, At
<1>4. StartOrphan(t) \/ EndOrphan(t) \/ Record(t) \/ Join(t)
  BY <1>1, <1>2, <1>3 DEF Step
<1> QED
  BY <1>0, <1>4 DEF StartOrphan, EndOrphan, Record, Join, At

LEMMA AloneNext ==
  ASSUME Alone, NEW t \in Threads, Step(t)
  PROVE  Alone'
<1>0. /\ t = Master /\ prog' = prog /\ Last' = Last /\ Last \in Nat /\ prog.kind = "orphan"
      /\ prog \in Programs /\ \A j : Nowait(j)' <=> Nowait(j)
  BY AloneStep, ProgStays, LoopFacts DEF Alone, TypeOK
<1>a. /\ pc \in [Threads -> Labels] /\ k \in [Threads -> 0 .. Last] /\ k[t] \in 0 .. Last
      /\ last \in [Threads -> Shares \cup {Null}]
      /\ started \in [Regions -> 0 .. Last] /\ measured \in [1 .. Last -> Nat]
      /\ origin \in [1 .. Last -> 0 .. Last]
      /\ \A i \in 1 .. Last : prog.loops[i].region \in Regions
  BY <1>0, LoopFacts DEF Alone, TypeOK
<1>b. /\ pc[t] \in {"between", "inside", "record", "joined"}
      /\ pc[t] \in {"inside", "record"} => k[t] # 0 /\ started[Region(t)] = k[t]
      /\ pc[t] = "record" => Nowait(k[t])
      /\ \A i \in 1 .. Last :
           /\ measured[i] = IF /\ Nowait(i)
                               /\ \/ k[t] > i
                                  \/ k[t] = i /\ pc[t] \notin {"inside", "record"}
                            THEN 1 ELSE 0
           /\ measured[i] > 0 => origin[i] = i
  BY <1>0 DEF Alone, Told
<1> DEFINE Goal ==
  /\ pc' \in [Threads -> Labels] /\ \A u \in Threads \ {t} : pc'[u] = pc[u]
  /\ k' \in [Threads -> 0 .. Last] /\ \A u \in Threads \ {t} : k'[u] = k[u]
  /\ last' \in [Threads -> Shares \cup {Null}]
  /\ started' \in [Regions -> 0 .. Last] /\ measured' \in [1 .. Last -> Nat]
  /\ origin' \in [1 .. Last -> 0 .. Last]
  /\ pc'[t] \in {"between", "inside", "record", "joined"}
  /\ pc'[t] \in {"inside", "record"} => k'[t] # 0 /\ started'[prog.loops[k'[t]].region] = k'[t]
  /\ pc'[t] = "record" => Nowait(k'[t])
  /\ pc'[t] = "joined" => k'[t] = Last
  /\ \A i \in 1 .. Last :
       /\ measured'[i] = IF /\ Nowait(i)
                            /\ \/ k'[t] > i
                               \/ k'[t] = i /\ pc'[t] \notin {"inside", "record"}
                         THEN 1 ELSE 0
       /\ measured'[i] > 0 => origin'[i] = i
  /\ UNCHANGED <<nextWs, completed, lists, bar, ws, snap, serves>>
<1>1. ASSUME StartOrphan(t) PROVE Goal
  <2>1. /\ pc[t] = "between" /\ pc' = [pc EXCEPT ![t] = "inside"]
        /\ k' = [k EXCEPT ![t] = k[t] + 1] /\ k[t] + 1 \in 1 .. Last
        /\ started' = [started EXCEPT ![prog.loops[k'[t]].region] = k'[t]]
        /\ UNCHANGED <<measured, origin, last>>
        /\ UNCHANGED <<nextWs, completed, lists, bar, ws, snap, serves>>
    BY <1>0, <1>a, <1>1 DEF StartOrphan, At, Goto
  <2>2. k'[t] = k[t] + 1 /\ pc'[t] = "inside" /\ prog.loops[k'[t]].region \in Regions
    BY <1>a, <2>1
  <2>3. started' \in [Regions -> 0 .. Last] /\ started'[prog.loops[k'[t]].region] = k'[t]
    BY <1>a, <2>1, <2>2
  <2>4. pc' \in [Threads -> Labels] /\ k' \in [Threads -> 0 .. Last]
        /\ \A u \in Threads \ {t} : pc'[u] = pc[u]
    BY <1>a, <2>1 DEF Labels
  <2>5. \A i \in 1 .. Last :
          k'[t] > i <=> (k[t] > i \/ (k[t] = i /\ pc[t] \notin {"inside", "record"}))
    BY <1>a, <2>1, <2>2
  <2> QED
    BY <1>a, <1>b, <2>1, <2>2, <2>3, <2>4, <2>5
<1>2. ASSUME EndOrphan(t) PROVE Goal
  <2>1. /\ pc[t] = "inside" /\ k' = k /\ started' = started
        /\ pc' = [pc EXCEPT ![t] = IF Nowait(k[t]) THEN "record" ELSE "between"]
        /\ UNCHANGED <<measured, origin, last>>
        /\ UNCHANGED <<nextWs, completed, lists, bar, ws, snap, serves>>
    BY <1>2 DEF EndOrphan, At, Goto, End, Nowait, timing
  <2>2. /\ pc' \in [Threads -> Labels] /\ \A u \in Threads \ {t} : pc'[u] = pc[u]
        /\ pc'[t] = IF Nowait(k[t]) THEN "record" ELSE "between"
    BY <1>a, <2>1 DEF Labels
  <2> QED
    BY <1>a, <1>b, <2>1, <2>2 DEF Region
<1>3. ASSUME Record(t) PROVE Goal
  <2>1. /\ pc[t] = "record" /\ k' = k /\ started' = started /\ Nowait(k[t])
        /\ measured' = [measured EXCEPT ![k[t]] = measured[k[t]] + 1]
        /\ origin' = [origin EXCEPT ![k[t]] = k[t]]
        /\ pc' = [pc EXCEPT ![t] = "between"]
        /\ last' = [last EXCEPT ![t] = Null]
        /\ UNCHANGED <<nextWs, completed, lists, bar, ws, snap, serves>>
    BY <1>b, <1>3 DEF Record, Observe, At, Goto, End, Nowait
  <2>2. k[t] \in 1 .. Last /\ measured[k[t]] = 0
    BY <1>a, <1>b, <2>1
  <2>3. /\ pc' \in [Threads -> Labels] /\ \A u \in Threads \ {t} : pc'[u] = pc[u]
        /\ pc'[t] = "between" /\ last' \in [Threads -> Shares \cup {Null}]
    BY <1>a, <2>1 DEF Labels
  <2>4. /\ measured' \in [1 .. Last -> Nat] /\ origin' \in [1 .. Last -> 0 .. Last]
        /\ measured'[k[t]] = 1 /\ origin'[k[t]] = k[t]
        /\ \A i \in 1 .. Last : i # k[t] => measured'[i] = measured[i] /\ origin'[i] = origin[i]
    BY <1>a, <2>1, <2>2
  <2>5. ASSUME NEW i \in 1 .. Last
        PROVE  /\ measured'[i] = IF /\ Nowait(i)
                                    /\ \/ k'[t] > i
                                       \/ k'[t] = i /\ pc'[t] \notin {"inside", "record"}
                                 THEN 1 ELSE 0
               /\ measured'[i] > 0 => origin'[i] = i
    <3>1. CASE i = k[t]
      BY <2>1, <2>3, <2>4, <3>1
    <3>2. CASE i # k[t]
      BY <1>b, <2>1, <2>3, <2>4, <3>2
    <3> QED
      BY <3>1, <3>2
  <2> QED
    BY <1>a, <2>1, <2>3, <2>4, <2>5
<1>4. ASSUME Join(t) PROVE Goal
  <2>1. /\ pc[t] = "between" /\ k' = k /\ k[t] = Last
        /\ pc' = [pc EXCEPT ![t] = "joined"]
        /\ UNCHANGED <<started, measured, origin, last>>
        /\ UNCHANGED <<nextWs, completed, lists, bar, ws, snap, serves>>
    BY <1>4 DEF Join, At, Goto, timing
  <2>2. /\ pc' \in [Threads -> Labels] /\ \A u \in Threads \ {t} : pc'[u] = pc[u]
        /\ pc'[t] = "joined"
    BY <1>a, <2>1 DEF Labels
  <2> QED
    BY <1>a, <1>b, <2>1, <2>2
<1>5. Goal
  BY <1>1, <1>2, <1>3, <1>4, AloneStep
<1>6. TypeOK'
  BY <1>0, <1>5 DEF Alone, TypeOK, lists, bar, P
<1> QED
  BY <1>0, <1>5, <1>6, ZenonT(30) DEF Alone, Told, Region

-----------------------------------------------------------------------------
(* The loops of every program.                                             *)

LoopInv == Alone \/ (TeamMeasures /\ Completions)

LEMMA LoopInvHolds == Spec => []LoopInv
<1>1. ASSUME Init
      PROVE  LoopInv
  <2>1. CASE prog.kind = "orphan"
    BY <1>1, <2>1, InitAlone DEF LoopInv
  <2>2. CASE prog.kind # "orphan"
    <3>1. P \in Nat \ {0}
      BY WorkShareAssumption, FS_CardinalityType, FS_EmptySet DEF P
    <3>2. Completions
      BY <1>1, <3>1 DEF Init, Completions
    <3> QED
      BY <1>1, <2>2, <3>2, InitMeasures DEF LoopInv
  <2> QED
    BY <2>1, <2>2
<1>2. ASSUME LoopInv, [Next]_vars
      PROVE  LoopInv'
  <2>1. CASE Alone
    <3>1. CASE UNCHANGED vars
      BY <2>1, <3>1
         DEF LoopInv, Alone, Told, TypeOK, vars, lists, bar, timing, P, Region, Nowait, Last
    <3> QED
      BY <1>2, <2>1, <3>1, AloneNext DEF LoopInv, Next
  <2>2. CASE TeamMeasures /\ Completions
    <3>1. TeamMeasures'
      BY <1>2, <2>2, MeasuresKept
    <3>2. Completions'
      <4>1. CASE UNCHANGED vars
        BY <2>2, <4>1 DEF Completions, vars, P
      <4> QED
        BY <1>2, <2>2, <4>1, CompletionsNext DEF Next, TeamMeasures
    <3> QED
      BY <3>1, <3>2 DEF LoopInv
  <2> QED
    BY <1>2, <2>1, <2>2 DEF LoopInv
<1> QED
  BY <1>1, <1>2, PTL DEF Spec

(***************************************************************************)
(* Every variable of the life cycle stays in its range: the counters       *)
(* threads_completed of a share and awaited of the barrier never pass the  *)
(* size of the team, and every pointer leads to a work share that exists.  *)
(***************************************************************************)
THEOREM WorkShareTypes == Spec => []TypeOK
<1>1. ASSUME TeamMeasures, Completions
      PROVE  TypeOK
  <2>1. Types /\ Measures /\ P \in Nat /\ Shares \subseteq Nat
    BY <1>1, Basics DEF TeamMeasures, TeamInv
  <2>2. completed \in [Shares -> 0 .. P]
    BY <1>1, <2>1 DEF Types, Completions
  <2>3. awaited \in 0 .. P
    <3>1. Cardinality(Arrived) \in Nat
      <4>1. Arrived \in SUBSET Threads
        BY DEF Arrived
      <4> QED
        BY <2>1, <4>1, Basics, FS_Subset, FS_CardinalityType
    <3>2. awaited + Cardinality(Arrived) = P /\ awaited \in Nat
      BY <1>1, <2>1 DEF TeamMeasures, TeamInv, Barrier, Types
    <3> QED
      BY <2>1, <3>1, <3>2
  <2> QED
    BY <2>1, <2>2, <2>3 DEF Types, Measures, TypeOK
<1>2. LoopInv => TypeOK
  BY <1>1 DEF LoopInv, Alone
<1> QED
  BY <1>2, LoopInvHolds, PTL

(***************************************************************************)
(* One observation per loop, for every team and every sequence of loops:   *)
(* bo_schedule_end is called once for a loop, by the last thread that      *)
(* leaves it, and not before all have; twice for a combined loop with a    *)
(* barrier, never for an orphaned loop that gomp_work_share_end ends.  The *)
(* time it takes starts at bo_schedule_begin of that loop, or of a later   *)
(* one of the region if the loop was overtaken.                            *)
(***************************************************************************)
THEOREM EveryLoopMeasured == Spec => []OneObservationPerLoop
<1>1. ASSUME Alone
      PROVE  OneObservationPerLoop
  <2> SUFFICES ASSUME NEW i \in 1 .. Last
               PROVE  /\ measured[i] <= Reports(i)
                      /\ (\A t \in Threads : pc[t] = "joined") => measured[i] = Reports(i)
                      /\ measured[i] > 0 =>
                           origin[i] >= i /\ (~Overtaken(i) => origin[i] = i)
    BY DEF OneObservationPerLoop
  <2>1. prog \in Programs /\ prog.kind = "orphan" /\ Master \in Threads
    BY <1>1, WorkShareAssumption DEF Alone, TypeOK
  <2>2. prog.loops[i].end \in {"wait", "nowait"} /\ Last \in Nat
    BY <2>1, LoopFacts, OrphanAssumption DEF Ends, Last
  <2>3. Reports(i) = IF Nowait(i) THEN 1 ELSE 0
    BY <2>1, <2>2 DEF Reports, Nowait
  <2>4. measured[i] = Told(i)
    BY <1>1 DEF Alone
  <2>5. pc[Master] = "joined" => k[Master] > i \/ k[Master] = i
    BY <1>1, <2>2 DEF Alone
  <2>6. measured[i] > 0 => origin[i] = i
    BY <1>1 DEF Alone
  <2> QED
    BY <2>1, <2>3, <2>4, <2>5, <2>6 DEF Told
<1>2. ASSUME TeamMeasures
      PROVE  OneObservationPerLoop
  <2> SUFFICES ASSUME NEW i \in 1 .. Last
               PROVE  /\ measured[i] <= Reports(i)
                      /\ (\A t \in Threads : pc[t] = "joined") => measured[i] = Reports(i)
                      /\ measured[i] > 0 =>
                           origin[i] >= i /\ (~Overtaken(i) => origin[i] = i)
    BY DEF OneObservationPerLoop
  <2>1. /\ prog.kind \in {"plain", "combined"} /\ Master \in Threads /\ Last \in Nat
        /\ measured[i] =
             (IF prog.kind = "combined" /\ pc[Master] = "joined" THEN 1 ELSE 0)
           + (IF (prog.kind = "combined" => prog.loops[i].end = "wait") /\ Done(i) THEN 1 ELSE 0)
    BY <1>2, Basics, WorkShareAssumption DEF TeamMeasures, TeamInv, Types, Counts
  <2>2. Reports(i) = IF prog.kind = "combined" /\ prog.loops[i].end = "wait" THEN 2 ELSE 1
    BY <2>1 DEF Reports
  <2>3. (\A t \in Threads : pc[t] = "joined") => Done(i)
    <3>1. ASSUME \A t \in Threads : pc[t] = "joined"
          PROVE  Done(i)
      <4>1. \A t \in Threads : k[t] = Last
        BY <1>2, <3>1 DEF TeamMeasures, Recorders
      <4>2. Left(i) = Threads
        BY <2>1, <3>1, <4>1 DEF Left, Unfinished, Starting
      <4> QED
        BY <3>1, <4>2 DEF Done, Recording, Freeing
    <3> QED
      BY <3>1
  <2>4. measured[i] <= Reports(i)
    BY <2>1, <2>2
  <2>5. (\A t \in Threads : pc[t] = "joined") => measured[i] = Reports(i)
    BY <2>1, <2>2, <2>3
  <2>6. measured[i] > 0 => origin[i] >= i /\ (~Overtaken(i) => origin[i] = i)
    BY <1>2 DEF TeamMeasures, Origins
  <2> QED
    BY <2>4, <2>5, <2>6
<1>3. LoopInv => OneObservationPerLoop
  BY <1>1, <1>2 DEF LoopInv
<1> QED
  BY <1>3, LoopInvHolds, PTL

-----------------------------------------------------------------------------
(* The loops live the life described in LoopLife.  The variables of        *)
(* LoopLife, as WorkShare maps them:                                       *)

Opened    == Cardinality({i \in 1 .. Last : \E t \in Threads : Entered(t) >= i})
Positions == [t \in Threads |-> Entered(t)]
Finishes  == [t \in Threads |-> Finished(t)]
Recorded  == {i \in 1 .. Last : measured[i] > 0}

\* Some thread is the furthest.
LEMMA Furthest ==
  ASSUME NEW n \in Nat, NEW e \in [Threads -> 0 .. n]
  PROVE  \E m \in 0 .. n : (\A t \in Threads : e[t] <= m) /\ (\E t \in Threads : e[t] = m)
<1>0. PICK R : /\ IsWellFoundedOn(R, Nat)
               /\ R = {ss \in Nat \X Nat : ss[1] < ss[2]}
  BY NatLessThanWellFounded DEF OpToRel
<1> DEFINE T == {m \in 0 .. n : \A t \in Threads : e[t] <= m}
<1>1. T \subseteq Nat /\ n \in T
  OBVIOUS
<1>2. PICK x \in T : \A y \in T : ~(<<y, x>> \in R)
  BY <1>0, <1>1, WFMin
<1>3. x \in 0 .. n /\ \A t \in Threads : e[t] <= x
  BY <1>2
<1>4. \E t \in Threads : e[t] = x
  <2>1. CASE x = 0
    BY <1>3, <2>1, WorkShareAssumption
  <2>2. CASE x # 0
    <3>1. x - 1 \in 0 .. n /\ <<x - 1, x>> \in R
      BY <1>0, <1>3, <2>2
    <3>2. x - 1 \notin T
      BY <1>2, <3>1
    <3>3. PICK t \in Threads : ~(e[t] <= x - 1)
      BY <3>1, <3>2
    <3>4. e[t] \in 0 .. n /\ e[t] <= x
      BY <1>3
    <3> QED
      BY <1>3, <3>3, <3>4
  <2> QED
    BY <2>1, <2>2
<1> QED
  BY <1>3, <1>4

\* So many loops have been opened.
LEMMA OpenedIs ==
  ASSUME Last \in Nat, \A u \in Threads : Entered(u) \in 0 .. Last,
         NEW m \in 0 .. Last, \A u \in Threads : Entered(u) <= m,
         \E u \in Threads : Entered(u) = m
  PROVE  Opened = m
<1>1. {i \in 1 .. Last : \E t \in Threads : Entered(t) >= i} = 1 .. m
  OBVIOUS
<1>2. 1 \in Int /\ m \in Int /\ (IF 1 > m THEN 0 ELSE m - 1 + 1) = m
  OBVIOUS
<1> QED
  BY <1>1, <1>2, FS_Interval DEF Opened

LEMMA OpenedIsNext ==
  ASSUME Last' \in Nat, \A u \in Threads : Entered(u)' \in 0 .. Last',
         NEW m \in 0 .. Last', \A u \in Threads : Entered(u)' <= m,
         \E u \in Threads : Entered(u)' = m
  PROVE  Opened' = m
<1>1. {i \in 1 .. Last' : \E t \in Threads : Entered(t)' >= i} = 1 .. m
  OBVIOUS
<1>2. 1 \in Int /\ m \in Int /\ (IF 1 > m THEN 0 ELSE m - 1 + 1) = m
  OBVIOUS
<1> QED
  BY <1>1, <1>2, FS_Interval DEF Opened

\* Where the threads of a team are.
LEMMA EnteredTypes ==
  ASSUME TeamInv, NEW u \in Threads
  PROVE  /\ Entered(u) \in 0 .. Last /\ Finished(u) \in 0 .. Last
         /\ Finished(u) = Entered(u) \/ Finished(u) + 1 = Entered(u)
         /\ \A j \in Int : Finished(u) >= j <=> u \in Left(j)
<1>1. k[u] \in 0 .. Last /\ Last \in Nat /\ (pc[u] \in Unfinished => k[u] # 0)
  BY ThreadTypes, Basics DEF TeamInv, Places, Place, Unfinished, Starting
<1> QED
  BY <1>1 DEF Entered, Finished, Left, Unfinished, Starting

LEMMA OpenedNow ==
  ASSUME TeamInv
  PROVE  /\ Opened \in 0 .. Last /\ \A u \in Threads : Entered(u) <= Opened
         /\ \E u \in Threads : Entered(u) = Opened
<1>1. Last \in Nat /\ \A u \in Threads : Entered(u) \in 0 .. Last
  BY Basics, EnteredTypes DEF TeamInv
<1>2. Positions \in [Threads -> 0 .. Last] /\ \A u \in Threads : Positions[u] = Entered(u)
  BY <1>1 DEF Positions
<1>3. PICK m \in 0 .. Last : /\ \A t \in Threads : Positions[t] <= m
                             /\ \E t \in Threads : Positions[t] = m
  BY <1>1, <1>2, Furthest
<1>4. Opened = m
  BY <1>1, <1>2, <1>3, OpenedIs
<1> QED
  BY <1>2, <1>3, <1>4

\* Publish is the step that opens a loop: the others find it open.
LEMMA OpenedNext ==
  ASSUME TeamInv, NEW t \in Threads, Step(t)
  PROVE  /\ Publish(t) => /\ Opened = Entered(t) /\ Opened < Last
                          /\ Opened' = Opened + 1 /\ Entered(t)' = Entered(t) + 1
         /\ ~Publish(t) => Opened' = Opened
<1>0. /\ Last' = Last /\ Last \in Nat /\ TeamInv'
      /\ \A u \in Threads : Entered(u) \in 0 .. Last
      /\ \A u \in Threads : Entered(u)' \in 0 .. Last
  <2>1. TeamInv'
    BY StepInvariant DEF Next
  <2>2. \A u \in Threads : Entered(u)' \in 0 .. Last'
    <3>1. /\ k' \in [Threads -> 0 .. Last'] /\ Last' \in Nat
          /\ \A u \in Threads : pc'[u] \in Starting \cup {"begin", "publish"} => k'[u] # 0
      BY <2>1, ProgStays, Basics DEF TeamInv, Types, Places, Place, Starting
    <3> QED
      BY <3>1 DEF Entered
  <2> QED
    BY <2>1, <2>2, ProgStays, Basics, EnteredTypes DEF TeamInv
<1>1. PICK m \in 0 .. Last : m = Opened /\ \A u \in Threads : Entered(u) <= m
  BY OpenedNow
<1>2. PICK v \in Threads : Entered(v) = m
  BY <1>1, OpenedNow
<1>3. CASE Publish(t)
  <2>1. pc[t] = "publish" /\ pc'[t] \in {"inside", "wake"} /\ k' = k
    BY <1>3 DEF Publish, At, Goto, TeamInv, Types
  <2>2. /\ k[t] \in 1 .. Last /\ Entered(t) = k[t] - 1 /\ Entered(t)' = k[t]
        /\ \A u \in Threads : Entered(u) < k[t]
    BY <2>1, ThreadTypes DEF Entered, Starting, TeamInv, Places, Place, OneOpens, Opening
  <2>3. m = Entered(t) /\ m + 1 \in 0 .. Last /\ Entered(t)' = m + 1
    BY <1>0, <1>1, <1>2, <2>2
  <2>4. \A u \in Threads : Entered(u)' <= m + 1
    <3> SUFFICES ASSUME NEW u \in Threads PROVE Entered(u)' <= m + 1
      OBVIOUS
    <3>1. Entered(u)' = Entered(u) \/ Entered(u)' = Entered(t) + 1
      BY Forward
    <3> QED
      BY <1>0, <1>1, <2>3, <3>1
  <2>5. Opened' = m + 1
    <3>1. PICK n \in 0 .. Last : n = m + 1
      BY <2>3
    <3>2. /\ \A u \in Threads : Entered(u)' <= n
          /\ \E u \in Threads : Entered(u)' = n
      BY <2>3, <2>4, <3>1
    <3> QED
      BY <1>0, <3>1, <3>2, OpenedIsNext
  <2> QED
    BY <1>0, <1>1, <1>3, <2>3, <2>5
<1>4. CASE ~Publish(t)
  <2>1. ASSUME NEW u \in Threads
        PROVE  Entered(u)' <= m
    <3>1. CASE Entered(u)' = Entered(u)
      BY <1>1, <3>1
    <3>2. CASE Entered(u)' # Entered(u)
      <4>1. u = t /\ Entered(t)' = Entered(t) + 1 /\ (StartKnown(t) \/ StopWaiting(t))
        BY <1>4, <3>2, Forward
      <4>2. PICK w \in Threads : Entered(w) >= Entered(t) + 1
        BY <4>1, NotFirst
      <4> QED
        BY <1>0, <1>1, <4>1, <4>2
    <3> QED
      BY <3>1, <3>2
  <2>2. Entered(v)' = m
    <3>1. CASE Entered(v)' # Entered(v)
      <4>1. Entered(v)' = Entered(v) + 1
        BY <3>1, Forward
      <4> QED
        BY <1>0, <1>2, <2>1, <4>1
    <3> QED
      BY <1>2, <3>1
  <2>3. Opened' = m
    BY <1>0, <2>1, <2>2, OpenedIsNext
  <2> QED
    BY <1>1, <1>4, <2>3
<1> QED
  BY <1>3, <1>4

\* Leaving a loop is the only step that finishes it.
LEMMA FinishedNext ==
  ASSUME TeamInv, NEW t \in Threads, Step(t), NEW u \in Threads
  PROVE  /\ ~(Leaves(t) /\ u = t) => Finished(u)' = Finished(u)
         /\ Leaves(t) => /\ Finished(t) + 1 = Entered(t) /\ Finished(t)' = Finished(t) + 1
                         /\ pc[t] = "inside"
<1>0. pc \in [Threads -> Labels] /\ k \in [Threads -> 0 .. Last] /\ k[t] \in Int
  BY ThreadTypes DEF TeamInv, Types
<1>1. ASSUME u # t PROVE Finished(u)' = Finished(u)
  <2>1. pc'[u] \in Unfinished <=> pc[u] \in Unfinished
    BY <1>1, OthersPlaces DEF TeamInv
  <2>2. k'[u] = k[u]
    BY <1>1, OthersPlaces DEF TeamInv
  <2>3. Finished(u) = IF pc[u] \in Unfinished THEN k[u] - 1 ELSE k[u]
    BY DEF Finished, Unfinished, Starting
  <2>4. Finished(u)' = IF pc'[u] \in Unfinished THEN k'[u] - 1 ELSE k'[u]
    BY DEF Finished, Unfinished, Starting
  <2> QED
    BY <2>1, <2>2, <2>3, <2>4
<1>2. CASE Leaves(t)
  <2>1. /\ pc[t] = "inside" /\ k' = k
        /\ pc'[t] \in {"between", "free", "barrier", "release", "record"}
    BY <1>0, <1>2 DEF Leaves, LeaveNowait, LastNowait, Arrive, At, Goto
  <2> QED
    BY <1>0, <1>1, <1>2, <2>1 DEF Finished, Entered, Starting
<1>3. CASE ~Leaves(t)
  <2>1. CASE StartKnown(t) \/ StartFirst(t) \/ StartLater(t)
    BY <1>0, <1>1, <1>3, <2>1
       DEF StartKnown, StartFirst, StartLater, Starts, At, Goto, Finished, Starting
  <2>2. CASE MarkWaited(t) \/ FutexWait(t) \/ StopWaiting(t)
    BY <1>0, <1>1, <1>3, <2>2
       DEF MarkWaited, FutexWait, StopWaiting, At, Goto, Finished, Starting
  <2>3. CASE AllocCached(t) \/ AllocFreed(t) \/ AllocFresh(t)
    BY <1>0, <1>1, <1>3, <2>3
       DEF AllocCached, AllocFreed, AllocFresh, InitShare, At, Goto, Finished, Starting
  <2>4. CASE LoadFree(t) \/ Begin(t) \/ Publish(t) \/ Wake(t)
    BY <1>0, <1>1, <1>3, <2>4
       DEF LoadFree, Begin, Publish, Wake, At, Goto, Finished, Starting
  <2>5. CASE Release(t) \/ PassBarrier(t)
    BY <1>0, <1>1, <1>3, <2>5 DEF Release, PassBarrier, At, Goto, Finished, Starting
  <2>6. CASE FreeShare(t) \/ Push(t) \/ Record(t) \/ ParallelEnd(t) \/ Join(t)
    BY <1>0, <1>1, <1>3, <2>6
       DEF FreeShare, Push, Record, ParallelEnd, Join, At, Goto, Finished, Starting
  <2> QED
    BY <1>3, <2>1, <2>2, <2>3, <2>4, <2>5, <2>6, TeamStep DEF TeamInv, Leaves
<1> QED
  BY <1>2, <1>3

\* The barrier of its last loop holds no thread that goes on to the next.
LEMMA GoesOn ==
  ASSUME TeamMeasures, NEW t \in Threads, prog.kind = "plain",
         pc[t] \in Starting \cup {"between", "begin", "publish"}
  PROVE  Finished(t) = Entered(t) /\ Life!MayGoOn(Entered(t))
<1> DEFINE a == Entered(t)
<1>0. /\ k[t] \in Nat /\ Finished(t) = a /\ Last \in Nat /\ a \in 0 .. Last
      /\ pc[t] # "between" => a = k[t] - 1
      /\ pc[t] = "between" => a = k[t]
  BY ThreadTypes, EnteredTypes, Basics
     DEF TeamMeasures, TeamInv, Finished, Entered, Starting
<1>1. CASE a = 0 \/ prog.loops[a].end = "nowait"
  BY <1>0, <1>1 DEF Life!MayGoOn, Life!Nowait
<1>2. CASE ~(a = 0 \/ prog.loops[a].end = "nowait")
  <2>1. a \in 1 .. Last
    BY <1>0, <1>2
  <2>2. Out(t, a)
    BY <1>0 DEF Out
  <2>3. ASSUME NEW u \in Threads
        PROVE  /\ Out(u, a) /\ u \in Left(a) /\ Finished(u) >= a
               /\ pc[u] \in Recording => k[u] # a
    <3>1. Out(u, a)
      BY <1>2, <2>1, <2>2 DEF TeamMeasures, TeamInv, Barrier, Nowait
    <3>2. k[u] \in Nat
      BY ThreadTypes DEF TeamMeasures, TeamInv
    <3>3. u \in Left(a)
      BY <3>1 DEF Out, Left, Unfinished, Starting
    <3>4. Finished(u) >= a
      BY <1>0, <3>3, EnteredTypes DEF TeamMeasures
    <3>5. pc[u] \in Recording => k[u] # a
      BY <1>0, <3>1, <3>2 DEF Out, Recording, Freeing
    <3> QED
      BY <3>1, <3>3, <3>4, <3>5
  <2>4. Left(a) = Threads
    BY <2>3 DEF Left
  <2>5. Done(a)
    BY <2>3, <2>4 DEF Done
  <2>6. measured[a] = 1
    BY <2>1, <2>5 DEF TeamMeasures, Counts
  <2>7. a \in {i \in 1 .. Last : measured[i] > 0}
    BY <2>1, <2>6
  <2>8. \A u \in Threads : [v \in Threads |-> Finished(v)][u] >= a
    BY <2>3
  <2> QED
    BY <1>0, <2>7, <2>8 DEF Life!MayGoOn, Life!Crew
<1> QED
  BY <1>1, <1>2

-----------------------------------------------------------------------------
(* The actions of LoopLife, in terms of the mapped variables.              *)

LEMMA LifeOpen ==
  ASSUME NEW t \in Threads, t \in Life!Crew, Finished(t) = Opened, Opened < Last,
         Life!MayGoOn(Opened), Opened' = Opened + 1,
         Positions' = [Positions EXCEPT ![t] = @ + 1],
         UNCHANGED <<prog, Finishes, Recorded>>
  PROVE  Life!Next
<1>1. Life!Open(t)
  BY DEF Life!Open, Opened, Positions, Finishes, Recorded, Last
<1> QED
  BY <1>1 DEF Life!Next

LEMMA LifeEnter ==
  ASSUME NEW t \in Threads, t \in Life!Crew, Finished(t) = Entered(t), Entered(t) < Opened,
         Life!MayGoOn(Entered(t)),
         Positions' = [Positions EXCEPT ![t] = @ + 1],
         UNCHANGED <<prog, Opened, Finishes, Recorded>>
  PROVE  Life!Next
<1>1. Life!Enter(t)
  BY DEF Life!Enter, Opened, Positions, Finishes, Recorded
<1> QED
  BY <1>1 DEF Life!Next

LEMMA LifeFinish ==
  ASSUME NEW t \in Threads, t \in Life!Crew, Finished(t) < Entered(t),
         Finishes' = [Finishes EXCEPT ![t] = @ + 1],
         UNCHANGED <<prog, Opened, Positions, Recorded>>
  PROVE  Life!Next
<1>1. Life!Finish(t)
  BY DEF Life!Finish, Opened, Positions, Finishes, Recorded
<1> QED
  BY <1>1 DEF Life!Next

LEMMA LifeRecord ==
  ASSUME NEW i \in 1 .. Last, i \notin Recorded, Life!Measured \subseteq Threads,
         \A t \in Life!Measured : Finished(t) >= i,
         Recorded' = Recorded \cup {i},
         UNCHANGED <<prog, Opened, Positions, Finishes>>
  PROVE  Life!Next
<1>1. Life!Record(i)
  BY DEF Life!Record, Opened, Positions, Finishes, Recorded
<1>2. i \in Life!LoopsOf(prog)
  BY DEF Life!LoopsOf, Last
<1> QED
  BY <1>1, <1>2 DEF Life!Next

LEMMA LifeStutter ==
  ASSUME UNCHANGED <<prog, Opened, Positions, Finishes, Recorded>>
  PROVE  UNCHANGED Life!vars
BY DEF Life!vars, Opened, Positions, Finishes, Recorded

\* What a step of a team changes in the mapped variables.
LEMMA MappedNext ==
  ASSUME TeamMeasures, NEW t \in Threads, Step(t)
  PROVE  /\ prog' = prog
         /\ Entered(t)' = Entered(t) => Positions' = Positions
         /\ Entered(t)' = Entered(t) + 1 => Positions' = [Positions EXCEPT ![t] = @ + 1]
         /\ ~Leaves(t) => Finishes' = Finishes
         /\ Leaves(t) => Finishes' = [Finishes EXCEPT ![t] = @ + 1]
         /\ ~Record(t) /\ ~ParallelEnd(t) => Recorded' = Recorded
         /\ Record(t) \/ ParallelEnd(t) =>
              /\ k[t] \in 1 .. Last
              /\ Recorded' = Recorded \cup {k[t]}
<1>0. TeamInv /\ prog' = prog /\ Last' = Last /\ measured \in [1 .. Last -> Nat]
  BY ProgStays DEF TeamMeasures, Measures
<1>1. \A u \in Threads : u # t => Entered(u)' = Entered(u)
  BY <1>0, OthersPlaces DEF TeamInv
<1>2. /\ Entered(t)' = Entered(t) => Positions' = Positions
      /\ Entered(t)' = Entered(t) + 1 => Positions' = [Positions EXCEPT ![t] = @ + 1]
  BY <1>1 DEF Positions
<1>3. /\ \A u \in Threads : u # t => Finished(u)' = Finished(u)
      /\ ~Leaves(t) => Finished(t)' = Finished(t)
      /\ Leaves(t) => Finished(t)' = Finished(t) + 1
  BY <1>0, FinishedNext
<1>4. ~Leaves(t) => Finishes' = Finishes
  BY <1>3 DEF Finishes
<1>5. Leaves(t) => Finishes' = [Finishes EXCEPT ![t] = @ + 1]
  BY <1>3 DEF Finishes
<1>6. ~Record(t) /\ ~ParallelEnd(t) => Recorded' = Recorded
  <2>1. ~Record(t) /\ ~ParallelEnd(t) => measured' = measured
    BY <1>0, MeasuresStep
  <2> QED
    BY <1>0, <2>1 DEF Recorded
<1>7. ASSUME Record(t) \/ ParallelEnd(t)
      PROVE  k[t] \in 1 .. Last /\ Recorded' = Recorded \cup {k[t]}
  <2>1. Observe(t)
    BY <1>0, <1>7, MeasuresStep
  <2>2. k[t] \in 1 .. Last
    <3>1. k[t] # 0
      BY <1>0, <1>7, Basics DEF ParallelEnd, Record, At, TeamInv, Places, Place
    <3> QED
      BY <1>0, <3>1, ThreadTypes DEF TeamInv
  <2>3. /\ measured'[k[t]] = measured[k[t]] + 1 /\ measured[k[t]] \in Nat
        /\ \A i \in 1 .. Last : i # k[t] => measured'[i] = measured[i]
    BY <1>0, <2>1, <2>2 DEF Observe
  <2>4. \A i \in 1 .. Last : measured'[i] > 0 <=> measured[i] > 0 \/ i = k[t]
    BY <2>2, <2>3
  <2> QED
    BY <1>0, <2>2, <2>4 DEF Recorded
<1> QED
  BY <1>0, <1>2, <1>4, <1>5, <1>6, <1>7

\* Where a step of a team leads in the life of the loops.
LEMMA TeamLives ==
  ASSUME TeamMeasures, NEW t \in Threads, Step(t)
  PROVE  [Life!Next]_Life!vars
<1>0. /\ TeamInv /\ prog.kind \in {"plain", "combined"} /\ Life!Crew = Threads
      /\ \A u \in Threads : Entered(u) \in 0 .. Last /\ Finished(u) \in 0 .. Last
      /\ Opened \in 0 .. Last /\ Last \in Nat
  BY EnteredTypes, OpenedNow, Basics DEF TeamMeasures, TeamInv, Types, Life!Crew
<1>1. CASE Publish(t)
  <2>1. pc[t] = "publish" /\ ~Leaves(t) /\ ~Record(t) /\ ~ParallelEnd(t)
    BY <1>1 DEF Publish, At, Leaves, LeaveNowait, LastNowait, Arrive, Record, ParallelEnd
  <2>2. /\ Opened = Entered(t) /\ Opened < Last /\ Opened' = Opened + 1
        /\ Entered(t)' = Entered(t) + 1
    BY <1>0, <1>1, OpenedNext
  <2>3. prog.kind = "plain"
    BY <1>0, <2>1, InUse DEF Opening
  <2>4. Finished(t) = Entered(t) /\ Life!MayGoOn(Entered(t))
    BY <2>1, <2>3, GoesOn
  <2> QED
    BY <1>0, <2>1, <2>2, <2>4, MappedNext, LifeOpen
<1>2. CASE StartKnown(t) \/ StopWaiting(t)
  <2>1. /\ pc[t] \in {"between", "sleep"} /\ prog.kind = "plain" /\ ~Leaves(t)
        /\ ~Record(t) /\ ~ParallelEnd(t) /\ ~Publish(t)
    <3>1. StartKnown(t) => pc[t] = "between" /\ prog.kind = "plain"
      BY DEF StartKnown, Starts, At
    <3>2. StopWaiting(t) => pc[t] = "sleep" /\ prog.kind = "plain"
      BY <1>0, InUse DEF StopWaiting, At, Starting
    <3> QED
      BY <1>2, <3>1, <3>2
         DEF At, Leaves, LeaveNowait, LastNowait, Arrive, Record, ParallelEnd, Publish
  <2>2. Finished(t) = Entered(t) /\ Life!MayGoOn(Entered(t))
    BY <2>1, GoesOn DEF Starting
  <2>3. Entered(t)' = Entered(t) + 1
    <3>1. k[t] \in Int /\ pc \in [Threads -> Labels] /\ k \in [Threads -> 0 .. Last]
      BY <1>0, ThreadTypes DEF TeamInv, Types
    <3> QED
      BY <1>2, <3>1 DEF StartKnown, StopWaiting, Starts, At, Goto, Entered, Starting
  <2>4. PICK u \in Threads : Entered(u) >= Entered(t) + 1
    BY <1>0, <1>2, NotFirst
  <2>5. Entered(t) < Opened
    BY <1>0, <2>4, OpenedNow
  <2>6. Opened' = Opened
    BY <1>0, <2>1, OpenedNext
  <2> QED
    BY <1>0, <2>1, <2>2, <2>3, <2>5, <2>6, MappedNext, LifeEnter
<1>3. CASE ~Publish(t) /\ ~(StartKnown(t) \/ StopWaiting(t))
  <2>1. Entered(t)' = Entered(t) /\ Opened' = Opened
    BY <1>0, <1>3, Forward, OpenedNext
  <2>2. CASE Leaves(t)
    <3>1. Finished(t) < Entered(t) /\ pc[t] = "inside"
      BY <1>0, <2>2, FinishedNext
    <3>2. ~Record(t) /\ ~ParallelEnd(t)
      BY <3>1 DEF Record, ParallelEnd, At
    <3> QED
      BY <1>0, <2>1, <2>2, <3>1, <3>2, MappedNext, LifeFinish
  <2>3. CASE Record(t) \/ ParallelEnd(t)
    <3>1. ~Leaves(t)
      BY <2>3 DEF Leaves, LeaveNowait, LastNowait, Arrive, Record, ParallelEnd, At
    <3>2. PICK i \in 1 .. Last : i = k[t]
      BY <2>3, MappedNext
    <3>3. Recorded' = Recorded \cup {i} /\ UNCHANGED <<prog, Opened, Positions, Finishes>>
      BY <2>1, <2>3, <3>1, <3>2, MappedNext
    <3>4. CASE i \in Recorded
      BY <3>3, <3>4, LifeStutter
    <3>5. CASE i \notin Recorded
      <4>1. Life!Measured = IF prog.kind = "combined" THEN {Master} ELSE Threads
        BY <1>0 DEF Life!Measured
      <4>2. Life!Measured \subseteq Threads
        BY <4>1, WorkShareAssumption
      <4>3. ASSUME NEW u \in Life!Measured
            PROVE  Finished(u) >= i
        <5>1. CASE Record(t)
          <6>1. Left(k[t]) = Threads
            BY <5>1 DEF Record, At, TeamMeasures, Recorders, Recording
          <6>2. u \in Left(i)
            BY <3>2, <4>2, <6>1
          <6> QED
            BY <1>0, <4>2, <6>2, EnteredTypes
        <5>2. CASE ParallelEnd(t)
          <6>1. u = t /\ pc[t] = "between"
            BY <4>1, <5>2 DEF ParallelEnd, At
          <6>2. Finished(t) = k[t]
            BY <6>1 DEF Finished, Starting
          <6> QED
            BY <3>2, <6>1, <6>2
        <5> QED
          BY <2>3, <5>1, <5>2
      <4> QED
        BY <3>3, <3>5, <4>2, <4>3, LifeRecord
    <3> QED
      BY <3>4, <3>5
  <2>4. CASE ~Leaves(t) /\ ~(Record(t) \/ ParallelEnd(t))
    BY <2>1, <2>4, MappedNext, LifeStutter
  <2> QED
    BY <2>2, <2>3, <2>4
<1> QED
  BY <1>1, <1>2, <1>3

\* The master, on its own, goes through its loops in order.
LEMMA AlonePlaces ==
  ASSUME Alone
  PROVE  /\ Master \in Threads /\ Last \in Nat /\ k[Master] \in 0 .. Last
         /\ \A u \in Threads : Entered(u) = (IF u = Master THEN k[Master] ELSE 0)
         /\ Finished(Master) = IF pc[Master] = "inside" THEN k[Master] - 1 ELSE k[Master]
         /\ \A u \in Threads \ {Master} : Finished(u) = 0
         /\ Opened = k[Master]
<1>1. Master \in Threads /\ Last \in Nat /\ k[Master] \in 0 .. Last
  BY WorkShareAssumption, LoopFacts DEF Alone, TypeOK
<1>2. \A u \in Threads : Entered(u) = (IF u = Master THEN k[Master] ELSE 0)
  BY <1>1 DEF Alone, Entered, Starting
<1>3. /\ Finished(Master) = IF pc[Master] = "inside" THEN k[Master] - 1 ELSE k[Master]
      /\ \A u \in Threads \ {Master} : Finished(u) = 0
  BY <1>1 DEF Alone, Finished, Starting
<1>4. PICK m \in 0 .. Last : m = k[Master]
  BY <1>1
<1>5. Opened = m
  BY <1>1, <1>2, <1>4, OpenedIs
<1> QED
  BY <1>1, <1>2, <1>3, <1>4, <1>5

LEMMA AlonePlacesNext ==
  ASSUME Alone', Last' = Last
  PROVE  /\ \A u \in Threads : Entered(u)' = (IF u = Master THEN k'[Master] ELSE 0)
         /\ Finished(Master)' = IF pc'[Master] = "inside" THEN k'[Master] - 1 ELSE k'[Master]
         /\ \A u \in Threads \ {Master} : Finished(u)' = 0
         /\ Opened' = k'[Master]
<1>1. /\ Master \in Threads /\ Last' \in Nat /\ k'[Master] \in 0 .. Last'
      /\ pc'[Master] \in {"between", "inside", "record", "joined"}
      /\ \A u \in Threads \ {Master} : pc'[u] = "joined" /\ k'[u] = 0
  BY WorkShareAssumption DEF Alone, TypeOK, Last
<1>2. \A u \in Threads : Entered(u)' = (IF u = Master THEN k'[Master] ELSE 0)
  BY <1>1 DEF Entered, Starting
<1>3. /\ Finished(Master)' = IF pc'[Master] = "inside" THEN k'[Master] - 1 ELSE k'[Master]
      /\ \A u \in Threads \ {Master} : Finished(u)' = 0
  BY <1>1 DEF Finished, Starting
<1>4. PICK m \in 0 .. Last' : m = k'[Master]
  BY <1>1
<1>5. Opened' = m
  BY <1>1, <1>2, <1>4, OpenedIsNext
<1> QED
  BY <1>2, <1>3, <1>4, <1>5

LEMMA AloneLives ==
  ASSUME Alone, NEW t \in Threads, Step(t)
  PROVE  [Life!Next]_Life!vars
<1>0. /\ t = Master /\ prog' = prog /\ Last' = Last /\ Alone' /\ t \in Life!Crew
      /\ prog.kind = "orphan" /\ Last \in Nat /\ k[t] \in 0 .. Last /\ Opened = k[t]
      /\ Opened' = k'[t]
      /\ pc \in [Threads -> Labels] /\ k \in [Threads -> 0 .. Last]
      /\ Entered(t) = k[t] /\ Entered(t)' = k'[t]
      /\ Finished(t) = (IF pc[t] = "inside" THEN k[t] - 1 ELSE k[t])
      /\ Finished(t)' = (IF pc'[t] = "inside" THEN k'[t] - 1 ELSE k'[t])
  <2>1. t = Master /\ prog' = prog /\ Last' = Last /\ Alone'
    BY AloneStep, ProgStays, AloneNext
  <2>2. prog.kind = "orphan" /\ pc \in [Threads -> Labels] /\ k \in [Threads -> 0 .. Last]
    BY DEF Alone, TypeOK
  <2>3. t \in Life!Crew
    BY <2>1, <2>2 DEF Life!Crew
  <2> QED
    BY <2>1, <2>2, <2>3, AlonePlaces, AlonePlacesNext
<1>1. \A u \in Threads : u # t => Entered(u)' = Entered(u) /\ Finished(u)' = Finished(u)
  BY <1>0, AlonePlaces, AlonePlacesNext
<1>2. /\ Entered(t)' = Entered(t) => Positions' = Positions
      /\ Entered(t)' = Entered(t) + 1 => Positions' = [Positions EXCEPT ![t] = @ + 1]
  BY <1>1 DEF Positions
<1>3. /\ Finished(t)' = Finished(t) => Finishes' = Finishes
      /\ Finished(t)' = Finished(t) + 1 => Finishes' = [Finishes EXCEPT ![t] = @ + 1]
  BY <1>1 DEF Finishes
<1>4. measured' = measured => Recorded' = Recorded
  BY <1>0 DEF Recorded
<1>5. CASE StartOrphan(t)
  <2>1. /\ pc[t] = "between" /\ k[t] < Last /\ k'[t] = k[t] + 1 /\ pc'[t] = "inside"
        /\ measured' = measured
    BY <1>0, <1>5 DEF StartOrphan, At, Goto
  <2>2. Life!MayGoOn(k[t])
    <3>1. CASE k[t] = 0 \/ prog.loops[k[t]].end = "nowait"
      BY <3>1 DEF Life!MayGoOn, Life!Nowait
    <3>2. CASE ~(k[t] = 0 \/ prog.loops[k[t]].end = "nowait")
      <4>1. Life!Crew = {t} /\ ~Life!Due(k[t])
        BY <1>0, <3>2 DEF Life!Crew, Life!Due, Life!Nowait
      <4>2. [u \in Threads |-> Finished(u)][t] >= k[t]
        BY <1>0, <2>1
      <4> QED
        BY <4>1, <4>2 DEF Life!MayGoOn
    <3> QED
      BY <3>1, <3>2
  <2>3. /\ Finished(t) = Opened /\ Opened < Last /\ Opened' = Opened + 1
        /\ Finished(t)' = Finished(t) /\ Entered(t)' = Entered(t) + 1
    BY <1>0, <2>1
  <2>4. Life!MayGoOn(Opened)
    BY <1>0, <2>2
  <2> QED
    BY <1>0, <1>2, <1>3, <1>4, <2>1, <2>3, <2>4, LifeOpen
<1>6. CASE EndOrphan(t)
  <2>1. /\ pc[t] = "inside" /\ pc'[t] \in {"between", "record"} /\ k' = k
        /\ measured' = measured
    BY <1>0, <1>6 DEF EndOrphan, At, Goto, timing
  <2>2. /\ Finished(t) < Entered(t) /\ Finished(t)' = Finished(t) + 1
        /\ Entered(t)' = Entered(t) /\ Opened' = Opened
    BY <1>0, <2>1
  <2> QED
    BY <1>0, <1>2, <1>3, <1>4, <2>1, <2>2, LifeFinish
<1>7. CASE Record(t)
  <2>1. /\ pc[t] = "record" /\ k' = k /\ Observe(t) /\ pc'[t] \in {"between", "release"}
    BY <1>0, <1>7 DEF Record, At, Goto
  <2>2. /\ Finished(t) = k[t] /\ Finished(t)' = Finished(t)
        /\ Entered(t)' = Entered(t) /\ Opened' = Opened
    BY <1>0, <2>1
  <2>3. k[t] \in 1 .. Last /\ measured[k[t]] = 0
    BY <1>0, <2>1 DEF Alone, Told
  <2>4. PICK i \in 1 .. Last : i = k[t]
    BY <2>3
  <2>5. i \notin Recorded
    BY <2>3, <2>4 DEF Recorded
  <2>6. Recorded' = Recorded \cup {i}
    <3>1. measured \in [1 .. Last -> Nat]
      BY DEF Alone, TypeOK
    <3>2. measured'[i] = 1 /\ \A j \in 1 .. Last : j # i => measured'[j] = measured[j]
      BY <2>1, <2>3, <2>4, <3>1 DEF Observe
    <3> QED
      BY <1>0, <3>2 DEF Recorded
  <2>7. Life!Measured = {t}
    BY <1>0 DEF Life!Measured, Life!Crew
  <2> QED
    BY <1>0, <1>2, <1>3, <2>2, <2>4, <2>5, <2>6, <2>7, LifeRecord
<1>8. CASE Join(t)
  <2>1. pc[t] = "between" /\ pc'[t] = "joined" /\ k' = k /\ measured' = measured
    BY <1>0, <1>8 DEF Join, At, Goto, timing
  <2>2. Finished(t)' = Finished(t) /\ Entered(t)' = Entered(t) /\ Opened' = Opened
    BY <1>0, <2>1
  <2> QED
    BY <1>0, <1>2, <1>3, <1>4, <2>1, <2>2, LifeStutter
<1> QED
  BY <1>5, <1>6, <1>7, <1>8, AloneStep

LEMMA InitLives ==
  ASSUME Init
  PROVE  Life!Init
<1>0. /\ Last \in Nat /\ (prog.kind = "combined" => Last = 1) /\ Master \in Threads
      /\ prog.kind \in Kinds
  BY WorkShareAssumption DEF Init, Last
<1> DEFINE m == IF prog.kind = "combined" THEN 1 ELSE 0
<1>1. /\ \A t \in Threads : k[t] = m /\ pc[t] \in {"between", "inside", "joined"}
                            /\ (pc[t] = "inside" <=> prog.kind = "combined")
      /\ \A i \in 1 .. Last : measured[i] = 0
  BY <1>0 DEF Init, Kinds, Last
<1>2. \A t \in Threads : Entered(t) = m /\ Finished(t) = 0
  BY <1>1 DEF Entered, Finished, Starting
<1>3. PICK n \in 0 .. Last : n = m
  BY <1>0
<1>4. Opened = n
  BY <1>0, <1>2, <1>3, OpenedIs
<1>5. Positions = [t \in Threads |-> Opened]
  BY <1>2, <1>3, <1>4 DEF Positions
<1>6. Finishes = [t \in Threads |-> 0] /\ Recorded = {}
  BY <1>1, <1>2 DEF Finishes, Recorded
<1>7. Opened = IF prog.kind = "combined" THEN 1 ELSE 0
  BY <1>3, <1>4
<1> QED
  BY <1>5, <1>6, <1>7 DEF Life!Init, Opened, Positions, Finishes, Recorded

(***************************************************************************)
(* The work shares, pointer locks and barriers implement the life of loops *)
(* that LoopLife promises, for every team and every program: a loop is     *)
(* opened once, when gomp_work_share_init_done publishes its share; the    *)
(* threads enter the loops in order; nobody passes a loop with a barrier   *)
(* before the team has finished it and bo_schedule_end has been called;    *)
(* and it is called when those who are measured have finished.             *)
(***************************************************************************)
THEOREM LoopsLiveAsPromised == Spec => ImplementsLoopLife
<1>1. Init => Life!Init
  BY InitLives
<1>2. LoopInv /\ [Next]_vars => [Life!Next]_Life!vars
  <2> SUFFICES ASSUME LoopInv, [Next]_vars PROVE [Life!Next]_Life!vars
    OBVIOUS
  <2>1. CASE UNCHANGED vars
    <3>1. UNCHANGED <<prog, k, pc, measured>>
      BY <2>1 DEF vars, timing
    <3>2. UNCHANGED <<prog, Opened, Positions, Finishes, Recorded>>
      BY <3>1 DEF Opened, Positions, Finishes, Recorded, Last, Entered, Finished
    <3> QED
      BY <3>2, LifeStutter
  <2>2. CASE Next
    <3>1. PICK t \in Threads : Step(t)
      BY <2>2 DEF Next
    <3> QED
      BY <3>1, AloneLives, TeamLives DEF LoopInv
  <2> QED
    BY <2>1, <2>2
<1> QED
  BY <1>1, <1>2, LoopInvHolds, PTL DEF Spec, ImplementsLoopLife, Life!Spec

-----------------------------------------------------------------------------
(* Nobody waits for a wake-up that does not come.                          *)

\* Who has yet to publish the share behind s.
Opener(s) == \E u \in Threads : pc[u] \in Opening /\ last[u] = s

Wakers ==
  /\ \A s \in Shares : serves[s] # Null /\ nextWs[s] \in {Owned, Waited} => Opener(s)
  /\ \A t \in Threads : pc[t] = "asleep" /\ nextWs[last[t]] \in Shares =>
       \E u \in Threads : pc[u] = "wake" /\ last[u] = last[t]
  /\ Arrived = Threads => \E u \in Threads : pc[u] \in Closing

\* The thread that opens a loop stays there until it publishes the share.
LEMMA OpenerGoesOn ==
  ASSUME TeamInv, NEW t \in Threads, Step(t), pc[t] \in Opening, ~Publish(t)
  PROVE  pc'[t] \in Opening /\ last' = last
<1>0. pc \in [Threads -> Labels]
  BY DEF TeamInv, Types
<1>1. CASE LoadFree(t) \/ Begin(t)
  BY <1>0, <1>1 DEF LoadFree, Begin, Goto, Opening
<1>2. CASE \E s \in Shares : Allocates(t, s)
  BY <1>0, <1>2 DEF Allocates, InitShare, Goto, Opening
<1>3. CASE StartKnown(t) \/ StartFirst(t) \/ StartLater(t) \/ MarkWaited(t) \/ FutexWait(t)
           \/ StopWaiting(t) \/ Wake(t)
  BY <1>3 DEF StartKnown, StartFirst, StartLater, Starts, MarkWaited, FutexWait, StopWaiting,
     Wake, At, Opening
<1>4. CASE LeaveNowait(t) \/ LastNowait(t) \/ Arrive(t) \/ Release(t) \/ PassBarrier(t)
  BY <1>4 DEF LeaveNowait, LastNowait, Arrive, Release, PassBarrier, At, Opening
<1>5. CASE FreeShare(t) \/ Push(t) \/ Record(t) \/ ParallelEnd(t) \/ Join(t)
  BY <1>5 DEF FreeShare, Push, Record, ParallelEnd, Join, At, Opening
<1> QED
  BY <1>1, <1>2, <1>3, <1>4, <1>5, TeamStep, AllocStep DEF TeamInv

LEMMA OpenersNext ==
  ASSUME TeamInv, Wakers, NEW t \in Threads, Step(t), NEW s \in Shares,
         serves'[s] # Null, nextWs'[s] \in {Owned, Waited}
  PROVE  \E u \in Threads : pc'[u] \in Opening /\ last'[u] = s
<1>0. /\ nextWs \in [Shares -> Shares \cup {Null, Owned, Waited}]
      /\ serves \in [Shares -> (0 .. Last) \cup {Null}]
      /\ last \in [Threads -> Shares \cup {Null}] /\ ws[t] \in Shares
      /\ pc \in [Threads -> Labels]
      /\ Null \notin Shares /\ Owned \notin Shares /\ Waited \notin Shares
      /\ Null # Owned /\ Null # Waited /\ Owned # Waited
  BY Basics, ThreadTypes DEF TeamInv, Types
<1>1. CASE StartFirst(t) /\ s = ws[t]
  BY <1>0, <1>1 DEF StartFirst, Starts, Goto, Opening
<1>2. CASE ~(StartFirst(t) /\ s = ws[t])
  <2>1. serves[s] # Null /\ nextWs[s] \in {Owned, Waited} /\ ~(Publish(t) /\ last[t] = s)
    <3>1. CASE \E x \in Shares : Allocates(t, x)
      <4>1. PICK x \in Shares : Allocates(t, x)
        BY <3>1
      <4>2. /\ nextWs' = [nextWs EXCEPT ![x] = Null] /\ serves' = [serves EXCEPT ![x] = k[t]]
            /\ pc[t] \in {"alloc", "refill"}
        BY <4>1 DEF Allocates, InitShare
      <4> QED
        BY <1>0, <4>2 DEF Publish, At
    <3>2. CASE Push(t) /\ listFree = snap[t]
      BY <1>0, <3>2 DEF Push, Publish, At
    <3>3. CASE serves' = serves
      <4>1. CASE StartFirst(t)
        BY <1>0, <1>2, <3>3, <4>1 DEF StartFirst, Starts, Publish, At
      <4>2. CASE MarkWaited(t)
        BY <1>0, <3>3, <4>2 DEF MarkWaited, Publish, At
      <4>3. CASE Publish(t)
        BY <1>0, <3>3, <4>3 DEF Publish
      <4>4. CASE nextWs' = nextWs /\ ~Publish(t)
        BY <3>3, <4>4
      <4> QED
        BY <3>1, <3>3, <4>1, <4>2, <4>3, <4>4, LocksNext
    <3> QED
      BY <3>1, <3>2, <3>3, ServesNext
  <2>2. PICK u \in Threads : pc[u] \in Opening /\ last[u] = s
    BY <2>1 DEF Wakers, Opener
  <2>3. CASE u = t
    BY <2>1, <2>2, <2>3, OpenerGoesOn
  <2>4. CASE u # t
    BY <2>2, <2>4, OthersPlaces DEF TeamInv
  <2> QED
    BY <2>3, <2>4
<1> QED
  BY <1>1, <1>2

\* A sleeper whose share has been published is about to be woken.
LEMMA SleepersNext ==
  ASSUME TeamInv, Wakers, NEW t \in Threads, Step(t), NEW v \in Threads,
         pc'[v] = "asleep", nextWs'[last'[v]] \in Shares
  PROVE  \E u \in Threads : pc'[u] = "wake" /\ last'[u] = last'[v]
<1>0. /\ nextWs \in [Shares -> Shares \cup {Null, Owned, Waited}]
      /\ last \in [Threads -> Shares \cup {Null}] /\ ws[t] \in Shares
      /\ pc \in [Threads -> Labels]
      /\ Null \notin Shares /\ Owned \notin Shares /\ Waited \notin Shares
      /\ Null # Owned /\ Null # Waited /\ Owned # Waited
  BY Basics, ThreadTypes DEF TeamInv, Types
<1>1. pc[v] = "asleep" /\ last'[v] = last[v] /\ v # t
  <2>1. CASE v = t
    <3>1. FutexWait(t)
      <4>1. CASE StartKnown(t) \/ StartFirst(t) \/ StartLater(t) \/ MarkWaited(t)
                 \/ StopWaiting(t) \/ LoadFree(t)
        BY <1>0, <2>1, <4>1
           DEF StartKnown, StartFirst, StartLater, MarkWaited, StopWaiting, LoadFree, Goto
      <4>2. CASE AllocCached(t) \/ AllocFreed(t) \/ AllocFresh(t) \/ Begin(t) \/ Publish(t)
                 \/ Wake(t)
        BY <1>0, <2>1, <4>2
           DEF AllocCached, AllocFreed, AllocFresh, InitShare, Begin, Publish, Wake, Goto
      <4>3. CASE LeaveNowait(t) \/ LastNowait(t) \/ Arrive(t) \/ Release(t) \/ PassBarrier(t)
        BY <1>0, <2>1, <4>3 DEF LeaveNowait, LastNowait, Arrive, Release, PassBarrier, Goto
      <4>4. CASE FreeShare(t) \/ Push(t) \/ Record(t) \/ ParallelEnd(t) \/ Join(t)
        BY <1>0, <2>1, <4>4 DEF FreeShare, Push, Record, ParallelEnd, Join, Goto
      <4> QED
        BY <4>1, <4>2, <4>3, <4>4, TeamStep DEF TeamInv
    <3> QED
      BY <1>0, <2>1, <3>1 DEF FutexWait
  <2>2. CASE v # t
    BY <2>2, Others DEF TeamInv
  <2> QED
    BY <2>1, <2>2
<1>2. last[v] \in Shares /\ serves[last[v]] # Null /\ nextWs[last[v]] \in Shares \cup {Waited}
  BY <1>1, InUse DEF Starting, Unfinished, TeamInv, Places, Place
<1>3. CASE nextWs[last[v]] \in Shares
  <2>1. PICK u \in Threads : pc[u] = "wake" /\ last[u] = last[v]
    BY <1>1, <1>3 DEF Wakers
  <2>2. CASE u = t
    <3>1. Wake(t)
      BY <2>1, <2>2, TeamStep DEF TeamInv, StartKnown, StartFirst, StartLater, Starts,
         MarkWaited, FutexWait, StopWaiting, AllocCached, LoadFree, AllocFreed, AllocFresh,
         Begin, Publish, LeaveNowait, LastNowait, Arrive, Release, PassBarrier, FreeShare,
         Push, Record, ParallelEnd, Join, At
    <3> QED
      BY <1>1, <2>1, <2>2, <3>1 DEF Wake
  <2>3. CASE u # t
    <3>1. pc'[u] = "wake" /\ last'[u] = last[u]
      BY <2>1, <2>3, Others DEF TeamInv
    <3> QED
      BY <1>1, <2>1, <3>1
  <2> QED
    BY <2>2, <2>3
<1>4. CASE nextWs[last[v]] = Waited
  <2>1. Publish(t) /\ last[t] = last[v]
    <3>1. CASE \E x \in Shares : Allocates(t, x)
      BY <1>0, <1>1, <1>2, <1>4, <3>1 DEF Allocates, InitShare
    <3>2. CASE StartFirst(t)
      BY <1>0, <1>1, <1>2, <1>4, <3>2 DEF StartFirst
    <3>3. CASE MarkWaited(t)
      BY <1>0, <1>1, <1>2, <1>4, <3>3 DEF MarkWaited
    <3>4. CASE Publish(t)
      BY <1>0, <1>1, <1>2, <1>4, <3>4 DEF Publish
    <3>5. CASE nextWs' = nextWs
      BY <1>0, <1>1, <1>4, <3>5
    <3> QED
      BY <3>1, <3>2, <3>3, <3>4, <3>5, LocksNext
  <2>2. pc'[t] = "wake" /\ last'[t] = last[t]
    BY <1>0, <1>4, <2>1 DEF Publish, Goto
  <2> QED
    BY <1>1, <2>1, <2>2
<1> QED
  BY <1>2, <1>3, <1>4

\* When all have arrived, the last of them is on its way to release the team.
LEMMA ClosersNext ==
  ASSUME TeamInv, Wakers, NEW t \in Threads, Step(t), Arrived' = Threads
  PROVE  \E u \in Threads : pc'[u] \in Closing
<1>0. /\ pc \in [Threads -> Labels] /\ P \in Nat /\ IsFiniteSet(Threads)
      /\ awaited \in Nat
  BY Basics DEF TeamInv, Types
<1>1. CASE Arrive(t)
  <2>1. awaited' + P = P /\ awaited' = awaited - 1
    BY <1>1, BarrierNext DEF Barrier, Arrive, P
  <2>2. awaited = 1
    BY <1>0, <2>1
  <2> QED
    BY <1>0, <1>1, <2>2 DEF Arrive, Goto, Closing
<1>2. CASE Release(t)
  <2>1. pc'[t] = "between"
    BY <1>0, <1>2 DEF Release, Goto
  <2> QED
    BY <2>1 DEF Arrived, Closing
<1>3. CASE ~Arrive(t) /\ ~Release(t)
  <2>1. \A u \in Threads : u \in Arrived
    BY <1>3, QuietOwn, OthersBarrier
  <2>2. Arrived = Threads
    BY <2>1 DEF Arrived
  <2>3. PICK u \in Threads : pc[u] \in Closing
    BY <2>2 DEF Wakers
  <2>4. ~Nowait(k[u])
    BY <2>1 DEF Arrived
  <2>5. CASE u = t
    <3>1. FreeShare(t) \/ Push(t) \/ Record(t)
      BY <1>3, <2>3, <2>5, TeamStep DEF TeamInv, StartKnown, StartFirst, StartLater, Starts,
         MarkWaited, FutexWait, StopWaiting, AllocCached, LoadFree, AllocFreed, AllocFresh,
         Begin, Publish, Wake, LeaveNowait, LastNowait, PassBarrier, ParallelEnd, Join, At,
         Closing
    <3>2. pc'[t] \in Closing
      BY <1>0, <2>4, <2>5, <3>1 DEF FreeShare, Push, Record, Goto, Closing, Nowait, End
    <3> QED
      BY <3>2
  <2>6. CASE u # t
    BY <2>3, <2>6, OthersPlaces DEF TeamInv
  <2> QED
    BY <2>5, <2>6
<1> QED
  BY <1>1, <1>2, <1>3

LEMMA WakersNext ==
  ASSUME TeamInv, Wakers, NEW t \in Threads, Step(t)
  PROVE  Wakers'
BY OpenersNext, SleepersNext, ClosersNext DEF Wakers, Opener, Opening, Closing

\* Whom a thread that the barrier holds is waiting for.
LEMMA BarrierHolds ==
  ASSUME TeamInv, Wakers, NEW t \in Threads, pc[t] = "barrier", snap[t] = gen
  PROVE  \E u \in Threads :
           \/ k[u] < k[t]
           \/ k[u] = k[t] /\ pc[u] \in Labels \ {"between", "barrier", "joined"}
<1>1. /\ \A u \in Threads : pc[u] \in Labels /\ k[u] \in 0 .. Last /\ snap[u] \in Int
      /\ Last \in Nat /\ k[t] # 0 /\ ~Nowait(k[t])
  BY Basics, ThreadTypes DEF TeamInv, Places, Place
<1>2. k[t] \in 1 .. Last /\ ~Out(t, k[t])
  BY <1>1 DEF Out
<1>3. \A u \in Threads : ~Out(u, k[t])
  BY <1>1, <1>2 DEF TeamInv, Barrier
<1>4. \A u \in Threads : k[u] <= k[t]
  BY <1>1, <1>2, <1>3 DEF Out
<1>5. PICK u \in Threads : k[u] < k[t] \/ (k[u] = k[t] /\ ~(pc[u] = "barrier" /\ snap[u] = gen))
  <2>1. CASE Arrived = Threads
    <3>1. PICK u \in Threads : pc[u] \in Closing
      BY <2>1 DEF Wakers
    <3> QED
      BY <1>1, <1>4, <3>1 DEF Closing
  <2>2. CASE Arrived # Threads
    <3>1. PICK u \in Threads : u \notin Arrived
      BY <2>2 DEF Arrived
    <3>2. k[u] = k[t] => ~(pc[u] = "barrier" /\ snap[u] = gen)
      BY <1>1, <3>1 DEF Arrived
    <3> QED
      BY <1>1, <1>4, <3>2
  <2> QED
    BY <2>1, <2>2
<1>6. k[u] = k[t] => pc[u] \notin {"between", "joined", "barrier"}
  BY <1>3, <1>5 DEF Out
<1> QED
  BY <1>1, <1>5, <1>6

\* Where a thread waits, there is one that will wake it.
LEMMA WakersWake ==
  ASSUME TeamInv, Wakers
  PROVE  NoWakeUpLost
<1>1. ASSUME NEW t \in Threads, pc[t] = "asleep"
      PROVE  \E u \in Threads :
               /\ last[u] = last[t]
               /\ \/ pc[u] \in {"alloc", "refill", "begin", "publish"} /\ nextWs[last[t]] = Waited
                  \/ pc[u] = "wake"
  <2>1. last[t] \in Shares /\ serves[last[t]] # Null /\ nextWs[last[t]] \in Shares \cup {Waited}
    BY <1>1, InUse DEF Starting, Unfinished, TeamInv, Places, Place
  <2>2. CASE nextWs[last[t]] \in Shares
    BY <1>1, <2>2 DEF Wakers
  <2>3. CASE nextWs[last[t]] = Waited
    <3>1. Opener(last[t])
      BY <2>1, <2>3 DEF Wakers
    <3> QED
      BY <2>3, <3>1 DEF Opener, Opening
  <2> QED
    BY <2>1, <2>2, <2>3
<1> QED
  BY <1>1, BarrierHolds DEF NoWakeUpLost

WakeInv == Alone \/ (TeamInv /\ Wakers)

LEMMA WakeInvHolds == Spec => []WakeInv
<1>1. ASSUME Init PROVE WakeInv
  <2>1. CASE prog.kind = "orphan"
    BY <1>1, <2>1, InitAlone DEF WakeInv
  <2>2. CASE prog.kind # "orphan"
    <3>1. TeamInv
      BY <1>1, <2>2, InitInvariant
    <3>2. \A s \in Shares : nextWs[s] = Null
      BY <1>1 DEF Init
    <3>3. \A t \in Threads : pc[t] \in {"between", "inside"}
      BY <1>1, <3>1 DEF Init, TeamInv, Types
    <3>4. Arrived = {} /\ Master \in Threads /\ Null # Owned /\ Null # Waited
      BY <3>1, <3>3, Basics, WorkShareAssumption DEF Arrived, Closing, TeamInv
    <3> QED
      BY <3>1, <3>2, <3>3, <3>4 DEF WakeInv, Wakers
  <2> QED
    BY <2>1, <2>2
<1>2. ASSUME WakeInv, [Next]_vars PROVE WakeInv'
  <2>1. CASE Alone
    <3>1. CASE UNCHANGED vars
      BY <2>1, <3>1
         DEF WakeInv, Alone, Told, TypeOK, vars, lists, bar, timing, P, Region, Nowait, Last
    <3> QED
      BY <1>2, <2>1, <3>1, AloneNext DEF WakeInv, Next
  <2>2. CASE TeamInv /\ Wakers
    <3>1. TeamInv'
      BY <1>2, <2>2, StepInvariant
    <3>2. CASE UNCHANGED vars
      <4>1. UNCHANGED <<prog, nextWs, gen, pc, k, last, snap, serves>>
        BY <3>2 DEF vars, bar
      <4>2. Arrived' = Arrived /\ \A s : Opener(s)' <=> Opener(s)
        BY <4>1 DEF Arrived, Nowait, Opener
      <4>3. Wakers'
        BY <2>2, <4>1, <4>2 DEF Wakers
      <4> QED
        BY <3>1, <4>3 DEF WakeInv
    <3> QED
      BY <1>2, <2>2, <3>1, <3>2, WakersNext DEF WakeInv, Next
  <2> QED
    BY <1>2, <2>1, <2>2 DEF WakeInv
<1> QED
  BY <1>1, <1>2, PTL DEF Spec

(***************************************************************************)
(* No wake-up is lost, in any team: a thread in gomp_ptrlock_get_slow      *)
(* sleeps only while another one is on its way to gomp_ptrlock_set and     *)
(* will find the 2 in the word, or is about to futex_wake; a thread in     *)
(* gomp_team_barrier_wait_end only while another one has not arrived or    *)
(* has not changed the generation.                                         *)
(***************************************************************************)
THEOREM EverySleeperIsWoken == Spec => []NoWakeUpLost
<1>1. Alone => NoWakeUpLost
  BY DEF Alone, NoWakeUpLost
<1>2. WakeInv => NoWakeUpLost
  BY <1>1, WakersWake DEF WakeInv
<1> QED
  BY <1>2, WakeInvHolds, PTL

-----------------------------------------------------------------------------
(* No deadlock.                                                            *)

(***************************************************************************)
(* The guards of the actions of thread t, by its label.  malloc is taken   *)
(* to succeed: the bound MaxShares does not keep a thread in refill.       *)
(***************************************************************************)
CanGoOn(t) ==
  \/ /\ pc[t] = "between" /\ prog.kind = "plain" /\ k[t] < Last
     /\ nextWs[ws[t]] \in Shares \cup {Null, Owned, Waited}
  \/ pc[t] = "between" /\ prog.kind = "combined" /\ t = Master
  \/ pc[t] = "between" /\ prog.kind = "orphan" /\ k[t] < Last
  \/ pc[t] = "between" /\ k[t] = Last /\ ~(prog.kind = "combined" /\ t = Master)
  \/ pc[t] \in {"slow", "sleep", "alloc", "refill", "begin", "publish", "wake", "inside",
                "free", "push", "record", "release"}
  \/ pc[t] = "barrier" /\ gen # snap[t]

SomeoneGoesOn ==
  (\A t \in Threads : pc[t] = "joined") \/ \E t \in Threads : CanGoOn(t)

\* A thread of a team goes on unless it sleeps, or the barrier holds it.
LEMMA TeamGoesOn ==
  ASSUME TeamInv, NEW t \in Threads, pc[t] \notin {"joined", "asleep"},
         ~(pc[t] = "barrier" /\ snap[t] = gen)
  PROVE  CanGoOn(t)
<1>1. /\ pc[t] \in Labels /\ k[t] \in 0 .. Last /\ Last \in Nat
      /\ nextWs[ws[t]] \in Shares \cup {Null, Owned, Waited}
      /\ prog.kind \in {"plain", "combined"} /\ (prog.kind = "combined" => k[t] = 1 /\ Last = 1)
  BY Basics, ThreadTypes DEF TeamInv, Types, Places, Place
<1> QED
  BY <1>1 DEF CanGoOn, Labels

(***************************************************************************)
(* No deadlock, in any team: until all threads have reached the end of the *)
(* region, one of them is neither asleep on a pointer lock nor held by the *)
(* barrier, and can take its next step.                                    *)
(***************************************************************************)
THEOREM NoDeadlock == Spec => []SomeoneGoesOn
<1>1. ASSUME Alone PROVE SomeoneGoesOn
  <2>1. /\ Master \in Threads /\ Last \in Nat /\ k[Master] \in 0 .. Last
        /\ prog.kind = "orphan" /\ pc[Master] \in {"between", "inside", "record", "joined"}
        /\ \A t \in Threads \ {Master} : pc[t] = "joined"
    BY <1>1, AlonePlaces DEF Alone
  <2> QED
    BY <2>1 DEF SomeoneGoesOn, CanGoOn
<1>2. ASSUME TeamInv, Wakers, Recorders PROVE SomeoneGoesOn
  <2> SUFFICES ASSUME NEW t \in Threads, pc[t] # "joined", \A u \in Threads : ~CanGoOn(u)
               PROVE  FALSE
    BY DEF SomeoneGoesOn
  <2>1. \A u \in Threads : pc[u] \in {"joined", "asleep"} \/ (pc[u] = "barrier" /\ snap[u] = gen)
    BY <1>2, TeamGoesOn
  <2>2. \A u \in Threads : pc[u] # "asleep"
    BY <1>2, <2>1, WakersWake DEF NoWakeUpLost
  <2>3. pc[t] = "barrier" /\ snap[t] = gen
    BY <2>1, <2>2
  <2>4. PICK u \in Threads :
          \/ k[u] < k[t]
          \/ k[u] = k[t] /\ pc[u] \in Labels \ {"between", "barrier", "joined"}
    BY <1>2, <2>3, BarrierHolds
  <2>5. k[u] < k[t] /\ pc[u] \in {"joined", "barrier"}
    BY <2>1, <2>2, <2>4 DEF Labels
  <2>6. k[t] \in 1 .. Last /\ k[u] \in 0 .. Last /\ ~Nowait(k[t]) /\ Last \in Nat
    BY <1>2, <2>3, ThreadTypes, Basics DEF TeamInv, Places, Place
  <2>7. CASE pc[u] = "joined"
    <3>1. k[u] = Last
      BY <1>2, <2>7 DEF Recorders
    <3> QED
      BY <2>5, <2>6, <3>1
  <2>8. CASE pc[u] = "barrier"
    <3>1. k[u] \in 1 .. Last /\ ~Nowait(k[u]) /\ snap[u] = gen
      BY <1>2, <2>1, <2>6, <2>8 DEF TeamInv, Places, Place
    <3>2. Out(t, k[u]) /\ ~Out(u, k[u])
      BY <2>5, <2>6, <2>8, <3>1 DEF Out
    <3> QED
      BY <1>2, <3>1, <3>2 DEF TeamInv, Barrier
  <2> QED
    BY <2>5, <2>7, <2>8
<1>3. LoopInv /\ WakeInv => SomeoneGoesOn
  <2>1. Alone => ~TeamInv
    BY DEF Alone, TeamInv, Types
  <2> QED
    BY <1>1, <1>2, <2>1 DEF LoopInv, WakeInv, TeamMeasures
<1> QED
  BY <1>3, LoopInvHolds, WakeInvHolds, PTL
=============================================================================
