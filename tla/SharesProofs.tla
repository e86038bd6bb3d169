----------------------------- MODULE SharesProofs -----------------------------
(***************************************************************************)
(* Proofs about WorkShare: no thread is ever in a work share that has been *)
(* freed or given to a later loop, and no free share is lost, for every    *)
(* team, every sequence of loops and every way the threads drift apart.    *)
(***************************************************************************)
EXTENDS WorkShare, FiniteSetTheorems, WellFoundedInduction, TLAPS

\* The thread has not finished the loop it has started.
Unfinished == Starting \cup {"begin", "publish", "wake", "inside"}
\* It opens the loop, and nobody else can.
Opening == {"alloc", "refill", "begin", "publish"}
\* It frees the share of the loop before.
Freeing == {"free", "push"}
\* It was the last one at the barrier.
Closing == {"free", "push", "record", "release"}

\* The loop whose share the thread is in.
Cur(t) == IF pc[t] \in Starting THEN k[t] - 1 ELSE k[t]

\* The threads that have finished loop j.
Left(j) == {u \in Threads : k[u] > j \/ (k[u] = j /\ pc[u] \notin Unfinished)}

Nowait(j) == prog.loops[j].end = "nowait"

\* The threads the barrier has counted in this generation.
Arrived ==
  {u \in Threads : /\ k[u] # 0 /\ ~Nowait(k[u])
                   /\ pc[u] \in Closing \/ (pc[u] = "barrier" /\ snap[u] = gen)}

\* The barrier of loop j does not hold thread u back, or no longer.
Out(u, j) ==
  \/ k[u] > j
  \/ k[u] = j /\ (pc[u] \in {"between", "joined"} \/ (pc[u] = "barrier" /\ snap[u] # gen))

\* The shares on the two lists.
Free == {s \in Shares : s < made /\ serves[s] = Null}

-----------------------------------------------------------------------------
(* The inductive invariant, for teams.                                     *)

Types ==
  /\ prog \in Programs /\ prog.kind \in {"plain", "combined"}
  /\ nextWs \in [Shares -> Shares \cup {Null, Owned, Waited}]
  /\ completed \in [Shares -> Nat]
  /\ nextFree \in [Shares -> Shares \cup {Null}]
  /\ listAlloc \in Shares \cup {Null} /\ listFree \in Shares \cup {Null}
  /\ chunk \in Nat \ {0} /\ made \in 0 .. MaxShares
  /\ awaited \in Nat /\ gen \in Nat
  /\ pc \in [Threads -> Labels]
  /\ k \in [Threads -> 0 .. Last]
  /\ ws \in [Threads -> Shares]
  /\ last \in [Threads -> Shares \cup {Null}]
  /\ snap \in [Threads -> Int]
  /\ serves \in [Shares -> (0 .. Last) \cup {Null}]

\* What the place of a thread says about it.
Place(t) ==
  /\ pc[t] \notin {"between", "joined"} => k[t] # 0
  /\ pc[t] \in {"barrier", "release"} => ~Nowait(k[t])
  /\ prog.kind = "combined" =>
       k[t] = 1 /\ last[t] = Null /\ pc[t] \notin Starting \cup Opening \cup Freeing
  /\ prog.kind = "plain" /\ pc[t] \in Unfinished \cup Freeing =>
       last[t] \in Shares /\ serves[last[t]] = k[t] - 1
  /\ serves[ws[t]] = Cur(t)
  /\ pc[t] \in Starting => ws[t] = last[t]
  /\ pc[t] = "slow" => nextWs[last[t]] # Null
  /\ pc[t] \in {"sleep", "asleep"} => nextWs[last[t]] \in Shares \cup {Waited}

Places == \A t \in Threads : Place(t)

\* The shares in use form a chain in the order of their loops.
Chain ==
  /\ \A a, b \in Shares : serves[a] = serves[b] /\ serves[a] # Null => a = b
  /\ \A s \in Shares : serves[s] # Null =>
       /\ s < made
       /\ nextWs[s] \in Shares => serves[nextWs[s]] = serves[s] + 1
       /\ \A u \in Threads : Entered(u) > serves[s] => nextWs[s] \in Shares
       /\ \E u \in Threads : Cur(u) >= serves[s]

\* One thread at a time opens a loop, and nobody is in that loop yet.
OneOpens ==
  \A t \in Threads : pc[t] \in Opening =>
    /\ nextWs[last[t]] \in {Owned, Waited}
    /\ \A u \in Threads : Entered(u) < k[t]
    /\ \A u \in Threads : pc[u] \in Opening => u = t

\* A share stays until everybody has finished the next loop, and its last thread frees it.
Leaving ==
  /\ \A s \in Shares : serves[s] # Null =>
       /\ prog.kind = "combined" => serves[s] # 0
       /\ serves[s] # 0 /\ Nowait(serves[s]) => completed[s] = Cardinality(Left(serves[s]))
       /\ \/ \E u \in Threads : u \notin Left(serves[s] + 1)
          \/ \E u \in Threads : pc[u] \in Freeing /\ k[u] = serves[s] + 1
  /\ \A t \in Threads : pc[t] \in Freeing =>
       /\ Left(k[t]) = Threads
       /\ \A u \in Threads : pc[u] \in Freeing => u = t

\* The team barrier.
Barrier ==
  /\ awaited + Cardinality(Arrived) = P
  /\ \A j \in 1 .. Last : ~Nowait(j) =>
       \A u, v \in Threads : Out(v, j) => Out(u, j)
  /\ \A t \in Threads : pc[t] \in Closing /\ ~Nowait(k[t]) =>
       /\ Arrived = Threads
       /\ \A u \in Threads : pc[u] \in Closing => u = t

\* The free lists: no share is reached twice.
Lists ==
  /\ listAlloc # Null => listAlloc \in Free
  /\ listFree # Null => listFree \in Free
  /\ listAlloc = listFree => listAlloc = Null
  /\ \A s \in Free : nextFree[s] # Null =>
       /\ nextFree[s] \in Free \ {listAlloc, listFree}
       /\ \A a \in Free : nextFree[a] = nextFree[s] => a = s
  /\ \A t \in Threads :
       /\ pc[t] = "refill" =>
            /\ listAlloc = Null
            /\ snap[t] # Null => snap[t] \in Free /\ nextFree[snap[t]] # snap[t]
       /\ pc[t] = "push" => nextFree[last[t]] = snap[t]

TeamInv == Types /\ Places /\ Chain /\ OneOpens /\ Leaving /\ Barrier /\ Lists

\* t initialises the free share s for the loop it opens.
Allocates(t, s) ==
  /\ pc[t] \in {"alloc", "refill"}
  /\ s \in Shares /\ serves[s] = Null
  /\ InitShare(t, s)
  /\ made <= made' /\ made' \in 0 .. MaxShares /\ s < made'
  /\ snap' = snap

\* t finishes its loop.
Leaves(t) == LeaveNowait(t) \/ LastNowait(t) \/ Arrive(t)

-----------------------------------------------------------------------------
\* The program, the team and the numbers.
LEMMA Basics ==
  ASSUME Types
  PROVE  /\ Last \in Nat /\ P \in Nat \ {0} /\ IsFiniteSet(Threads)
         /\ Shares \subseteq Nat /\ Null \notin Shares /\ Owned \notin Shares
         /\ Waited \notin Shares /\ Null # Owned /\ Null # Waited /\ Owned # Waited
         /\ Null \notin 0 .. Last /\ prog.kind # "orphan"
         /\ prog.kind = "combined" => Last = 1
<1>1. Last \in Nat
  BY WorkShareAssumption DEF Types, Last
<1>2. P \in Nat \ {0} /\ IsFiniteSet(Threads)
  BY WorkShareAssumption, FS_CardinalityType, FS_EmptySet DEF P
<1>3. Shares \subseteq Nat
  BY WorkShareAssumption DEF Shares
<1>4. prog.kind = "combined" => Last = 1
  BY WorkShareAssumption DEF Types, Last
<1> QED
  BY <1>1, <1>2, <1>3, <1>4 DEF Types, Null, Owned, Waited, Shares

\* What the values of the variables of a thread can be.
LEMMA ThreadTypes ==
  ASSUME Types, NEW t \in Threads
  PROVE  /\ pc[t] \in Labels /\ k[t] \in 0 .. Last /\ k[t] \in Nat /\ ws[t] \in Shares
         /\ last[t] \in Shares \cup {Null} /\ snap[t] \in Int
         /\ nextWs[ws[t]] \in Shares \cup {Null, Owned, Waited}
         /\ completed[ws[t]] \in Nat
         /\ serves[ws[t]] \in (0 .. Last) \cup {Null}
BY Basics DEF Types

\* A share on a list exists and is free.
LEMMA FreeFacts ==
  ASSUME NEW s \in Free
  PROVE  s \in Shares /\ s < made /\ serves[s] = Null
BY DEF Free

\* Every allocation takes a free share.
LEMMA AllocStep ==
  ASSUME TeamInv, NEW t \in Threads, AllocCached(t) \/ AllocFreed(t) \/ AllocFresh(t)
  PROVE  \E s \in Shares : Allocates(t, s)
<1>0. /\ made \in 0 .. MaxShares /\ chunk \in Nat \ {0} /\ MaxShares \in Nat
      /\ Shares = 0 .. MaxShares - 1
  BY WorkShareAssumption DEF TeamInv, Types, Shares
<1>1. CASE AllocCached(t)
  <2>1. listAlloc \in Free
    BY <1>1 DEF AllocCached, TeamInv, Lists
  <2>2. listAlloc \in Shares /\ listAlloc < made /\ serves[listAlloc] = Null
    BY <2>1, FreeFacts
  <2> QED
    BY <1>0, <1>1, <2>2 DEF AllocCached, Allocates, At
<1>2. CASE AllocFreed(t)
  <2>1. snap[t] \in Free /\ nextFree[snap[t]] # Null
    BY <1>2 DEF AllocFreed, At, TeamInv, Lists
  <2>2. nextFree[snap[t]] \in Free
    BY <2>1 DEF TeamInv, Lists
  <2>3. /\ nextFree[snap[t]] \in Shares /\ nextFree[snap[t]] < made
        /\ serves[nextFree[snap[t]]] = Null
    BY <2>2, FreeFacts
  <2> QED
    BY <1>0, <1>2, <2>3 DEF AllocFreed, Allocates, At
<1>3. CASE AllocFresh(t)
  <2>1. made + 2 * chunk <= MaxShares /\ made' = made + 2 * chunk
    BY <1>3 DEF AllocFresh
  <2>2. made \in Shares /\ made < made' /\ made' \in 0 .. MaxShares
    BY <1>0, <2>1
  <2>3. serves[made] = Null
    BY <1>0, <2>2 DEF TeamInv, Chain
  <2> QED
    BY <1>0, <1>3, <2>2, <2>3 DEF AllocFresh, Allocates, At
<1> QED
  BY <1>1, <1>2, <1>3

-----------------------------------------------------------------------------
\* The barrier still waits for a thread that is about to arrive.
LEMMA RoomToArrive ==
  ASSUME TeamInv, NEW t \in Threads, t \notin Arrived
  PROVE  /\ Cardinality(Arrived) \in Nat /\ awaited \in Nat \ {0}
         /\ IsFiniteSet(Arrived) /\ Arrived \subseteq Threads
         /\ awaited = 1 => Arrived = Threads \ {t}
<1>1. Arrived \in SUBSET (Threads \ {t}) /\ IsFiniteSet(Threads) /\ Arrived \subseteq Threads
  BY Basics DEF Arrived, TeamInv
<1>2. IsFiniteSet(Threads \ {t}) /\ Cardinality(Threads \ {t}) = P - 1
  BY <1>1, FS_RemoveElement DEF P
<1>3. /\ IsFiniteSet(Arrived) /\ Cardinality(Arrived) <= P - 1
      /\ Cardinality(Arrived) = P - 1 => Arrived = Threads \ {t}
  BY <1>1, <1>2, FS_Subset
<1>4. Cardinality(Arrived) \in Nat
  BY <1>3, FS_CardinalityType
<1>5. awaited + Cardinality(Arrived) = P /\ awaited \in Nat /\ P \in Nat
  BY Basics DEF TeamInv, Barrier, Types
<1> QED
  BY <1>1, <1>3, <1>4, <1>5

\* Which steps a thread of a team can take.
LEMMA TeamStep ==
  ASSUME Types, NEW t \in Threads, Step(t)
  PROVE  \/ StartKnown(t) \/ StartFirst(t) \/ StartLater(t)
         \/ MarkWaited(t) \/ FutexWait(t) \/ StopWaiting(t)
         \/ AllocCached(t) \/ LoadFree(t) \/ AllocFreed(t) \/ AllocFresh(t)
         \/ Begin(t) \/ Publish(t) \/ Wake(t)
         \/ LeaveNowait(t) \/ LastNowait(t)
         \/ Arrive(t) \/ Release(t) \/ PassBarrier(t)
         \/ FreeShare(t) \/ Push(t) \/ Record(t)
         \/ ParallelEnd(t) \/ Join(t)
<1>1. prog.kind # "orphan"
  BY DEF Types
<1> QED
  BY <1>1 DEF Step, StartOrphan, EndOrphan

\* The program is never replaced.
LEMMA ProgStays ==
  ASSUME NEW t \in Threads, Step(t)
  PROVE  /\ prog' = prog /\ Last' = Last /\ \A j : Nowait(j)' = Nowait(j)
<1>1. prog' = prog
  BY DEF Step, StartKnown, StartFirst, StartLater, MarkWaited, FutexWait, StopWaiting,
     AllocCached, LoadFree, AllocFreed, AllocFresh, InitShare, Begin, Publish, Wake,
     LeaveNowait, LastNowait, Arrive, Release, PassBarrier, FreeShare, Push, Record,
     ParallelEnd, Join, StartOrphan, EndOrphan
<1> QED
  BY <1>1 DEF Last, Nowait

\* Types of the variables that only the thread's own step writes.
LEMMA TypesNext ==
  ASSUME TeamInv, NEW t \in Threads, Step(t)
  PROVE  Types'
<1> USE DEF TeamInv
<1>0. prog' = prog /\ Last' = Last
  BY ProgStays
<1>a. Types
  OBVIOUS
<1>b. /\ pc[t] \in Labels /\ k[t] \in 0 .. Last /\ ws[t] \in Shares /\ Last \in Nat
      /\ last[t] \in Shares \cup {Null} /\ P \in Nat /\ Shares \subseteq Nat
  BY <1>a, ThreadTypes, Basics
<1>c. Null = -1
  BY DEF Null
<1>1. CASE StartKnown(t) \/ StartFirst(t) \/ StartLater(t)
  <2>1. k[t] + 1 \in 0 .. Last
    BY <1>1, <1>b DEF StartKnown, StartFirst, StartLater, Starts
  <2> QED
    BY <1>0, <1>1, <1>b, <2>1
       DEF Types, StartKnown, StartFirst, StartLater, Starts, Goto, Labels, lists, bar
<1>2. CASE MarkWaited(t) \/ FutexWait(t)
  BY <1>0, <1>2, <1>b DEF Types, MarkWaited, FutexWait, Goto, Labels, lists, bar
<1>3. CASE StopWaiting(t)
  <2>1. nextWs[last[t]] \in Shares
    BY <1>3 DEF StopWaiting, At, Places, Place
  <2> QED
    BY <1>0, <1>3, <1>b, <2>1 DEF Types, StopWaiting, Goto, Labels, lists, bar
<1>4. CASE AllocCached(t) \/ AllocFreed(t) \/ AllocFresh(t)
  <2>1. PICK s \in Shares : Allocates(t, s)
    BY <1>4, AllocStep
  <2>2. /\ nextFree' \in [Shares -> Shares \cup {Null}]
        /\ listAlloc' \in Shares \cup {Null} /\ chunk' \in Nat \ {0} /\ listFree' = listFree
    <3>1. CASE AllocCached(t)
      BY <3>1, <1>a DEF AllocCached, Types
    <3>2. CASE AllocFreed(t)
      <4>1. snap[t] \in Shares
        BY <3>2, FreeFacts DEF AllocFreed, At, Lists
      <4>2. nextFree[snap[t]] \in Shares
        BY <4>1, <3>2, <1>a DEF Types, AllocFreed
      <4> QED
        BY <3>2, <1>a, <4>1, <4>2 DEF AllocFreed, Types
    <3>3. CASE AllocFresh(t)
      <4>1. made \in Nat /\ chunk \in Nat \ {0} /\ made + 2 * chunk <= MaxShares
            /\ made' = made + 2 * chunk /\ chunk' = 2 * chunk
        BY <3>3, <1>a DEF AllocFresh, Types
      <4>2. /\ made + 1 \in Shares
            /\ \A i \in Shares : made < i /\ i + 1 < made' => i + 1 \in Shares
        BY <4>1, WorkShareAssumption DEF Shares
      <4> QED
        BY <3>3, <1>a, <4>1, <4>2 DEF AllocFresh, Types
    <3> QED
      BY <1>4, <3>1, <3>2, <3>3
  <2> QED
    BY <1>0, <1>b, <2>1, <2>2 DEF Types, Allocates, InitShare, Goto, Labels, bar
<1>5. CASE LoadFree(t)
  <2>1. listFree \in Int
    BY <1>a, <1>b, <1>c DEF Types
  <2> QED
    BY <1>0, <1>5, <1>b, <2>1 DEF Types, LoadFree, Goto, Labels, lists, bar
<1>6. CASE Begin(t) \/ Publish(t) \/ Wake(t)
  BY <1>0, <1>6, <1>b DEF Types, Begin, Publish, Wake, Goto, Labels, lists, bar
<1>7. CASE LeaveNowait(t) \/ LastNowait(t)
  BY <1>0, <1>7, <1>b DEF Types, LeaveNowait, LastNowait, Goto, Labels, lists, bar
<1>8. CASE Arrive(t)
  <2>1. t \notin Arrived
    BY <1>8 DEF Arrive, At, Arrived, Closing
  <2>2. awaited - 1 \in Nat
    BY <2>1, RoomToArrive
  <2>3. /\ gen' = gen /\ awaited' \in Nat /\ snap' \in [Threads -> Int]
        /\ pc' \in [Threads -> Labels] /\ UNCHANGED lists
    BY <1>8, <1>a, <2>2 DEF Types, Arrive, Goto, Labels
  <2> QED
    BY <1>0, <1>8, <1>b, <2>3 DEF Types, Arrive, lists
<1>9. CASE Release(t) \/ PassBarrier(t)
  BY <1>0, <1>9, <1>b DEF Types, Release, PassBarrier, Goto, Labels, lists, bar
<1>10. CASE FreeShare(t)
  <2>1. listFree \in Int
    BY <1>a, <1>b, <1>c DEF Types
  <2> QED
    BY <1>0, <1>10, <1>b, <2>1 DEF Types, FreeShare, Goto, Labels, bar
<1>11. CASE Push(t)
  BY <1>0, <1>11, <1>b DEF Types, Push, Goto, Labels, bar
<1>12. CASE Record(t) \/ ParallelEnd(t) \/ Join(t)
  BY <1>0, <1>12, <1>b DEF Types, Record, ParallelEnd, Join, Goto, Labels, lists, bar
<1> QED
  BY <1>1, <1>2, <1>3, <1>4, <1>5, <1>6, <1>7, <1>8, <1>9, <1>10, <1>11, <1>12, <1>a, TeamStep

-----------------------------------------------------------------------------
\* A step of t leaves the other threads alone, except that it may wake them.
LEMMA Others ==
  ASSUME Types, NEW t \in Threads, Step(t), NEW u \in Threads, u # t
  PROVE  /\ k'[u] = k[u] /\ ws'[u] = ws[u] /\ last'[u] = last[u] /\ snap'[u] = snap[u]
         /\ pc'[u] = pc[u] \/ (pc[u] = "asleep" /\ pc'[u] = "sleep")
<1>1. /\ pc \in [Threads -> Labels] /\ k \in [Threads -> 0 .. Last]
      /\ ws \in [Threads -> Shares] /\ last \in [Threads -> Shares \cup {Null}]
      /\ snap \in [Threads -> Int]
  BY DEF Types
<1>2. CASE StartKnown(t) \/ StartFirst(t) \/ StartLater(t) \/ MarkWaited(t) \/ FutexWait(t)
           \/ StopWaiting(t) \/ LoadFree(t) \/ Begin(t) \/ Publish(t)
  BY <1>1, <1>2 DEF StartKnown, StartFirst, StartLater, Starts, MarkWaited, FutexWait,
     StopWaiting, LoadFree, Begin, Publish, Goto
<1>3. CASE AllocCached(t) \/ AllocFreed(t) \/ AllocFresh(t)
  BY <1>1, <1>3 DEF AllocCached, AllocFreed, AllocFresh, InitShare, Goto
<1>4. CASE Wake(t)
  BY <1>1, <1>4 DEF Wake
<1>5. CASE LeaveNowait(t) \/ LastNowait(t) \/ Arrive(t) \/ Release(t) \/ PassBarrier(t)
  BY <1>1, <1>5 DEF LeaveNowait, LastNowait, Arrive, Release, PassBarrier, Goto
<1>6. CASE FreeShare(t) \/ Push(t) \/ Record(t) \/ ParallelEnd(t) \/ Join(t)
  BY <1>1, <1>6 DEF FreeShare, Push, Record, ParallelEnd, Join, Goto
<1> QED
  BY <1>2, <1>3, <1>4, <1>5, <1>6, TeamStep

\* So nothing that is said about them by place changes.
LEMMA OthersPlaces ==
  ASSUME Types, NEW t \in Threads, Step(t), NEW u \in Threads, u # t
  PROVE  /\ k'[u] = k[u] /\ ws'[u] = ws[u] /\ last'[u] = last[u] /\ snap'[u] = snap[u]
         /\ pc'[u] \in Starting <=> pc[u] \in Starting
         /\ pc'[u] \in Opening <=> pc[u] \in Opening
         /\ pc'[u] \in Unfinished <=> pc[u] \in Unfinished
         /\ pc'[u] \in Freeing <=> pc[u] \in Freeing
         /\ pc'[u] \in Closing <=> pc[u] \in Closing
         /\ \A l \in Labels \ {"sleep", "asleep"} : pc'[u] = l <=> pc[u] = l
         /\ pc'[u] \in {"sleep", "asleep"} <=> pc[u] \in {"sleep", "asleep"}
         /\ Cur(u)' = Cur(u) /\ Entered(u)' = Entered(u)
<1>1. /\ k'[u] = k[u] /\ ws'[u] = ws[u] /\ last'[u] = last[u] /\ snap'[u] = snap[u]
      /\ pc'[u] = pc[u] \/ (pc[u] = "asleep" /\ pc'[u] = "sleep")
  BY Others
<1>2. /\ pc'[u] \in Starting <=> pc[u] \in Starting
      /\ pc'[u] \in Opening <=> pc[u] \in Opening
      /\ pc'[u] \in Unfinished <=> pc[u] \in Unfinished
      /\ pc'[u] \in Freeing <=> pc[u] \in Freeing
      /\ pc'[u] \in Closing <=> pc[u] \in Closing
      /\ pc'[u] \in {"sleep", "asleep"} <=> pc[u] \in {"sleep", "asleep"}
  BY <1>1 DEF Starting, Opening, Unfinished, Freeing, Closing
<1>3. \A l \in Labels \ {"sleep", "asleep"} : pc'[u] = l <=> pc[u] = l
  BY <1>1
<1>4. Cur(u)' = Cur(u) /\ Entered(u)' = Entered(u)
  BY <1>1 DEF Cur, Entered, Starting
<1> QED
  BY <1>1, <1>2, <1>3, <1>4

\* The share a thread is in, or comes from, is in use.
LEMMA InUse ==
  ASSUME TeamInv, NEW u \in Threads
  PROVE  /\ Cur(u) \in 0 .. Last /\ serves[ws[u]] = Cur(u) /\ serves[ws[u]] # Null
         /\ prog.kind = "plain" /\ pc[u] \in Unfinished \cup Freeing =>
              /\ last[u] \in Shares /\ serves[last[u]] = k[u] - 1
              /\ serves[last[u]] # Null
         /\ pc[u] \in Starting \cup Opening \cup Freeing => prog.kind = "plain"
<1>1. /\ k[u] \in 0 .. Last /\ (pc[u] \in Starting => k[u] # 0) /\ Last \in Nat
      /\ (pc[u] \in Unfinished \cup Freeing => k[u] # 0) /\ Null = -1
  BY ThreadTypes, Basics DEF TeamInv, Places, Place, Starting, Unfinished, Freeing, Null
<1>2. Cur(u) \in 0 .. Last
  BY <1>1 DEF Cur
<1>3. prog.kind \in {"plain", "combined"}
  BY DEF TeamInv, Types
<1> QED
  BY <1>1, <1>2, <1>3 DEF TeamInv, Places, Place

\* Everybody has finished the loop whose predecessor t frees.
LEMMA AllBeyond ==
  ASSUME TeamInv, NEW t \in Threads, pc[t] \in Freeing, NEW u \in Threads
  PROVE  /\ k[u] >= k[t] /\ Cur(u) >= k[t] /\ k[t] \in Nat \ {0}
         /\ k[u] = k[t] => pc[u] \notin Unfinished
<1>1. u \in Left(k[t])
  BY DEF TeamInv, Leaving
<1>2. k[u] > k[t] \/ (k[u] = k[t] /\ pc[u] \notin Unfinished)
  BY <1>1 DEF Left
<1>3. k[u] \in Nat /\ k[t] \in Nat /\ k[t] # 0
  BY ThreadTypes DEF TeamInv, Places, Place, Freeing
<1> QED
  BY <1>2, <1>3 DEF Cur, Unfinished

(***************************************************************************)
(* How a step changes what the shares serve, and the pointer locks of      *)
(* those that serve a loop.                                                *)
(***************************************************************************)
LEMMA ServesNext ==
  ASSUME TeamInv, NEW t \in Threads, Step(t)
  PROVE  \/ \E s \in Shares : Allocates(t, s)
         \/ Push(t) /\ listFree = snap[t]
         \/ serves' = serves
BY AllocStep, TeamStep DEF TeamInv, StartKnown, StartFirst, StartLater, MarkWaited, FutexWait,
   StopWaiting, LoadFree, Begin, Publish, Wake, LeaveNowait, LastNowait, Arrive, Release,
   PassBarrier, FreeShare, Push, Record, ParallelEnd, Join

LEMMA LocksNext ==
  ASSUME TeamInv, NEW t \in Threads, Step(t)
  PROVE  \/ \E s \in Shares : Allocates(t, s)
         \/ StartFirst(t) \/ MarkWaited(t) \/ Publish(t)
         \/ nextWs' = nextWs
BY AllocStep, TeamStep DEF TeamInv, StartKnown, StartLater, FutexWait,
   StopWaiting, LoadFree, Begin, Wake, LeaveNowait, LastNowait, Arrive, Release,
   PassBarrier, FreeShare, Push, Record, ParallelEnd, Join

-----------------------------------------------------------------------------
(* Places.                                                                 *)

\* The shares the other threads stand on keep their loops.
LEMMA OthersServed ==
  ASSUME TeamInv, NEW t \in Threads, Step(t), NEW u \in Threads, u # t
  PROVE  /\ serves'[ws[u]] = serves[ws[u]]
         /\ prog.kind = "plain" /\ pc[u] \in Unfinished \cup Freeing =>
              serves'[last[u]] = serves[last[u]]
<1>1. /\ ws[u] \in Shares /\ serves[ws[u]] = Cur(u) /\ serves[ws[u]] # Null
      /\ serves \in [Shares -> (0 .. Last) \cup {Null}]
  BY InUse, ThreadTypes DEF TeamInv, Types
<1>2. ASSUME prog.kind = "plain", pc[u] \in Unfinished \cup Freeing
      PROVE  last[u] \in Shares /\ serves[last[u]] = k[u] - 1 /\ serves[last[u]] # Null
  BY <1>2, InUse
<1>3. CASE \E s \in Shares : Allocates(t, s)
  <2>1. PICK s \in Shares : Allocates(t, s)
    BY <1>3
  <2>2. serves' = [serves EXCEPT ![s] = k[t]] /\ serves[s] = Null
    BY <2>1 DEF Allocates, InitShare
  <2> QED
    BY <1>1, <1>2, <2>2
<1>4. CASE Push(t) /\ listFree = snap[t]
  <2>1. serves' = [serves EXCEPT ![last[t]] = Null] /\ pc[t] \in Freeing
    BY <1>4 DEF Push, At, Freeing
  <2>2. last[t] \in Shares /\ serves[last[t]] = k[t] - 1 /\ k[t] \in Nat
    BY <2>1, InUse, ThreadTypes DEF TeamInv
  <2>3. Cur(u) >= k[t] /\ k[u] >= k[t] /\ k[u] \in Nat /\ Cur(u) \in Nat
        /\ (k[u] = k[t] => pc[u] \notin Unfinished)
    BY <2>1, AllBeyond, ThreadTypes, InUse DEF TeamInv
  <2>4. ws[u] # last[t]
    BY <1>1, <2>2, <2>3
  <2>5. ASSUME prog.kind = "plain", pc[u] \in Unfinished \cup Freeing, last[u] = last[t]
        PROVE  FALSE
    <3>1. k[u] = k[t]
      BY <1>2, <2>2, <2>3, <2>5
    <3>2. pc[u] \in Freeing
      BY <2>3, <2>5, <3>1
    <3> QED
      BY <2>1, <3>2 DEF TeamInv, Leaving
  <2> QED
    BY <1>1, <1>2, <2>1, <2>4, <2>5
<1>5. CASE serves' = serves
  BY <1>5
<1> QED
  BY <1>3, <1>4, <1>5, ServesNext

\* A thread that waits for a share to be allocated still does, or the share is there.
LEMMA OthersWait ==
  ASSUME TeamInv, NEW t \in Threads, Step(t), NEW u \in Threads, u # t
  PROVE  /\ pc[u] = "slow" => nextWs'[last[u]] # Null
         /\ pc[u] \in {"sleep", "asleep"} => nextWs'[last[u]] \in Shares \cup {Waited}
<1> SUFFICES ASSUME pc[u] \in {"slow", "sleep", "asleep"}
             PROVE  /\ pc[u] = "slow" => nextWs'[last[u]] # Null
                    /\ pc[u] \in {"sleep", "asleep"} => nextWs'[last[u]] \in Shares \cup {Waited}
  OBVIOUS
<1>0. /\ nextWs \in [Shares -> Shares \cup {Null, Owned, Waited}]
      /\ Null \notin Shares /\ Owned \notin Shares /\ Null # Waited /\ Null # Owned
      /\ Owned # Waited /\ Waited \notin Shares
  BY Basics DEF TeamInv, Types
<1>1. last[u] \in Shares /\ serves[last[u]] # Null
  BY InUse DEF Starting, Unfinished
<1>2. /\ pc[u] = "slow" => nextWs[last[u]] # Null
      /\ pc[u] \in {"sleep", "asleep"} => nextWs[last[u]] \in Shares \cup {Waited}
  BY DEF TeamInv, Places, Place
<1>3. CASE \E s \in Shares : Allocates(t, s)
  <2>1. PICK s \in Shares : Allocates(t, s)
    BY <1>3
  <2>2. nextWs' = [nextWs EXCEPT ![s] = Null] /\ serves[s] = Null
    BY <2>1 DEF Allocates, InitShare
  <2> QED
    BY <1>0, <1>1, <1>2, <2>2
<1>4. CASE StartFirst(t)
  BY <1>0, <1>1, <1>2, <1>4 DEF StartFirst
<1>5. CASE MarkWaited(t)
  BY <1>0, <1>1, <1>2, <1>5 DEF MarkWaited
<1>6. CASE Publish(t)
  <2>1. ws[t] \in Shares
    BY ThreadTypes DEF TeamInv
  <2> QED
    BY <1>0, <1>1, <1>2, <1>6, <2>1 DEF Publish
<1>7. CASE nextWs' = nextWs
  BY <1>2, <1>7
<1> QED
  BY <1>3, <1>4, <1>5, <1>6, <1>7, LocksNext

LEMMA PlaceOther ==
  ASSUME TeamInv, NEW t \in Threads, Step(t), NEW u \in Threads, u # t
  PROVE  Place(u)'
<1>1. /\ k'[u] = k[u] /\ ws'[u] = ws[u] /\ last'[u] = last[u]
      /\ pc'[u] \in Starting <=> pc[u] \in Starting
      /\ pc'[u] \in Opening <=> pc[u] \in Opening
      /\ pc'[u] \in Unfinished <=> pc[u] \in Unfinished
      /\ pc'[u] \in Freeing <=> pc[u] \in Freeing
      /\ pc'[u] \in {"sleep", "asleep"} <=> pc[u] \in {"sleep", "asleep"}
      /\ Cur(u)' = Cur(u)
  BY OthersPlaces DEF TeamInv
<1>2. \A l \in {"between", "joined", "barrier", "release", "slow"} : pc'[u] = l <=> pc[u] = l
  BY OthersPlaces DEF TeamInv, Labels
<1>3. prog' = prog /\ \A j : Nowait(j)' = Nowait(j)
  BY ProgStays
<1>4. Place(u)
  BY DEF TeamInv, Places
<1>5. /\ pc'[u] \notin {"between", "joined"} => k'[u] # 0
      /\ pc'[u] \in {"barrier", "release"} => prog'.loops[k'[u]].end # "nowait"
      /\ prog'.kind = "combined" =>
           k'[u] = 1 /\ last'[u] = Null /\ pc'[u] \notin Starting \cup Opening \cup Freeing
      /\ pc'[u] \in Starting => ws'[u] = last'[u]
  BY <1>1, <1>2, <1>3, <1>4 DEF Place, Nowait
<1>6. serves'[ws'[u]] = Cur(u)'
  <2>1. serves'[ws[u]] = serves[ws[u]]
    BY OthersServed
  <2>2. serves[ws[u]] = Cur(u)
    BY <1>4 DEF Place
  <2> QED
    BY <1>1, <2>1, <2>2
<1>7. prog'.kind = "plain" /\ pc'[u] \in Unfinished \cup Freeing =>
        last'[u] \in Shares /\ serves'[last'[u]] = k'[u] - 1
  <2>1. prog.kind = "plain" /\ pc[u] \in Unfinished \cup Freeing =>
          serves'[last[u]] = serves[last[u]]
    BY OthersServed
  <2>2. prog.kind = "plain" /\ pc[u] \in Unfinished \cup Freeing =>
          last[u] \in Shares /\ serves[last[u]] = k[u] - 1
    BY <1>4 DEF Place
  <2> QED
    BY <1>1, <1>3, <2>1, <2>2
<1>8. /\ pc'[u] = "slow" => nextWs'[last'[u]] # Null
      /\ pc'[u] \in {"sleep", "asleep"} => nextWs'[last'[u]] \in Shares \cup {Waited}
  BY <1>1, <1>2, OthersWait
<1> QED
  BY <1>5, <1>6, <1>7, <1>8 DEF Place, Nowait

\* The thread that takes the step.
LEMMA PlaceOwn ==
  ASSUME TeamInv, NEW t \in Threads, Step(t)
  PROVE  Place(t)'
<1>0. prog' = prog
  BY ProgStays
<1>a. /\ pc \in [Threads -> Labels] /\ k \in [Threads -> 0 .. Last]
      /\ ws \in [Threads -> Shares] /\ last \in [Threads -> Shares \cup {Null}]
      /\ nextWs \in [Shares -> Shares \cup {Null, Owned, Waited}]
      /\ serves \in [Shares -> (0 .. Last) \cup {Null}]
      /\ prog.kind \in {"plain", "combined"}
  BY DEF TeamInv, Types
<1>b. /\ Null \notin Shares /\ Owned \notin Shares /\ Waited \notin Shares /\ Null # Owned
      /\ Null # Waited /\ Owned # Waited /\ Null = -1 /\ Last \in Nat
  BY Basics DEF TeamInv, Null
<1>c. Place(t) /\ ws[t] \in Shares /\ k[t] \in 0 .. Last
  BY <1>a DEF TeamInv, Places
<1>d. /\ Cur(t) \in 0 .. Last /\ serves[ws[t]] = Cur(t)
      /\ prog.kind = "plain" /\ pc[t] \in Unfinished \cup Freeing =>
           last[t] \in Shares /\ serves[last[t]] = k[t] - 1 /\ serves[last[t]] # Null
      /\ pc[t] \in Starting \cup Opening \cup Freeing => prog.kind = "plain"
  BY InUse
<1>e. \A s \in Shares : serves[s] # Null /\ nextWs[s] \in Shares =>
        serves[nextWs[s]] = serves[s] + 1
  BY DEF TeamInv, Chain
<1>1. CASE StartKnown(t)
  <2>1. /\ k' = [k EXCEPT ![t] = k[t] + 1] /\ last' = [last EXCEPT ![t] = ws[t]]
        /\ ws' = [ws EXCEPT ![t] = nextWs[ws[t]]] /\ pc' = [pc EXCEPT ![t] = "inside"]
        /\ serves' = serves /\ nextWs' = nextWs /\ pc[t] = "between" /\ nextWs[ws[t]] \in Shares
        /\ prog.kind = "plain"
    BY <1>1 DEF StartKnown, Starts, At, Goto
  <2>2. serves[ws[t]] = k[t] /\ serves[nextWs[ws[t]]] = k[t] + 1
    BY <1>b, <1>c, <1>d, <1>e, <2>1 DEF Cur, Starting
  <2> QED
    BY <1>0, <1>a, <1>b, <1>c, <2>1, <2>2 DEF Place, Cur, Starting, Unfinished, Freeing
<1>2. CASE StartFirst(t)
  <2>1. /\ k' = [k EXCEPT ![t] = k[t] + 1] /\ last' = [last EXCEPT ![t] = ws[t]]
        /\ ws' = ws /\ pc' = [pc EXCEPT ![t] = "alloc"] /\ serves' = serves
        /\ pc[t] = "between" /\ prog.kind = "plain"
    BY <1>2 DEF StartFirst, Starts, At, Goto
  <2>2. serves[ws[t]] = k[t]
    BY <1>d, <2>1 DEF Cur, Starting
  <2> QED
    BY <1>0, <1>a, <1>b, <1>c, <2>1, <2>2 DEF Place, Cur, Starting, Unfinished, Freeing
<1>3. CASE StartLater(t)
  <2>1. /\ k' = [k EXCEPT ![t] = k[t] + 1] /\ last' = [last EXCEPT ![t] = ws[t]]
        /\ ws' = ws /\ pc' = [pc EXCEPT ![t] = "slow"] /\ serves' = serves /\ nextWs' = nextWs
        /\ pc[t] = "between" /\ prog.kind = "plain" /\ nextWs[ws[t]] \in {Owned, Waited}
    BY <1>3 DEF StartLater, Starts, At, Goto
  <2>2. serves[ws[t]] = k[t]
    BY <1>d, <2>1 DEF Cur, Starting
  <2> QED
    BY <1>0, <1>a, <1>b, <1>c, <2>1, <2>2 DEF Place, Cur, Starting, Unfinished, Freeing
<1>4. CASE MarkWaited(t)
  BY <1>0, <1>4, <1>a, <1>b, <1>c, <1>d
     DEF MarkWaited, At, Goto, Place, Cur, Starting, Unfinished, Freeing
<1>5. CASE FutexWait(t)
  BY <1>0, <1>5, <1>a, <1>b, <1>c, <1>d
     DEF FutexWait, At, Goto, Place, Cur, Starting, Unfinished, Freeing
<1>6. CASE StopWaiting(t)
  <2>1. /\ k' = k /\ last' = last /\ ws' = [ws EXCEPT ![t] = nextWs[last[t]]]
        /\ pc' = [pc EXCEPT ![t] = "inside"] /\ serves' = serves /\ nextWs' = nextWs
        /\ pc[t] = "sleep" /\ nextWs[last[t]] # Waited
    BY <1>6 DEF StopWaiting, At, Goto
  <2>2. /\ last[t] \in Shares /\ serves[last[t]] = k[t] - 1 /\ serves[last[t]] # Null
        /\ prog.kind = "plain"
    BY <1>d, <2>1 DEF Starting, Unfinished
  <2>3. nextWs[last[t]] \in Shares
    BY <1>c, <2>1 DEF Place
  <2>4. serves[nextWs[last[t]]] = k[t]
    BY <1>c, <1>e, <2>2, <2>3
  <2> QED
    BY <1>0, <1>a, <1>b, <1>c, <2>1, <2>2, <2>3, <2>4
       DEF Place, Cur, Starting, Unfinished, Freeing
<1>7. CASE \E s \in Shares : Allocates(t, s)
  <2>1. PICK s \in Shares : Allocates(t, s)
    BY <1>7
  <2>2. /\ k' = k /\ last' = last /\ ws' = [ws EXCEPT ![t] = s]
        /\ pc' = [pc EXCEPT ![t] = "begin"] /\ serves' = [serves EXCEPT ![s] = k[t]]
        /\ pc[t] \in {"alloc", "refill"} /\ serves[s] = Null
    BY <2>1 DEF Allocates, InitShare, Goto
  <2>3. /\ last[t] \in Shares /\ serves[last[t]] = k[t] - 1 /\ serves[last[t]] # Null
        /\ prog.kind = "plain"
    BY <1>d, <2>2 DEF Starting, Unfinished, Opening
  <2> QED
    BY <1>0, <1>a, <1>b, <1>c, <2>2, <2>3 DEF Place, Cur, Starting, Unfinished, Freeing
<1>8. CASE LoadFree(t) \/ Begin(t)
  BY <1>0, <1>8, <1>a, <1>b, <1>c, <1>d
     DEF LoadFree, Begin, At, Goto, Place, Cur, Starting, Unfinished, Freeing, Opening
<1>9. CASE Publish(t) \/ Wake(t)
  BY <1>0, <1>9, <1>a, <1>b, <1>c, <1>d
     DEF Publish, Wake, At, Goto, Place, Cur, Starting, Unfinished, Freeing, Opening
<1>10. CASE LeaveNowait(t) \/ LastNowait(t)
  BY <1>0, <1>10, <1>a, <1>b, <1>c, <1>d
     DEF LeaveNowait, LastNowait, At, Goto, Place, Cur, Starting, Unfinished, Freeing, Opening
<1>11. CASE Arrive(t)
  BY <1>0, <1>11, <1>a, <1>b, <1>c, <1>d
     DEF Arrive, At, Goto, Place, Cur, Starting, Unfinished, Freeing, Opening, Nowait, End
<1>12. CASE Release(t) \/ PassBarrier(t) \/ Record(t)
  BY <1>0, <1>12, <1>a, <1>b, <1>c, <1>d
     DEF Release, PassBarrier, Record, At, Goto, Place, Cur, Starting, Unfinished, Freeing,
         Opening, Nowait, End
<1>13. CASE FreeShare(t)
  BY <1>0, <1>13, <1>a, <1>b, <1>c, <1>d
     DEF FreeShare, At, Goto, Place, Cur, Starting, Unfinished, Freeing, Opening
<1>14. CASE Push(t)
  BY <1>0, <1>14, <1>a, <1>b, <1>c, <1>d
     DEF Push, At, Goto, Place, Cur, Starting, Unfinished, Freeing, Opening
<1>15. CASE ParallelEnd(t) \/ Join(t)
  BY <1>0, <1>15, <1>a, <1>b, <1>c, <1>d
     DEF ParallelEnd, Join, At, Goto, Place, Cur, Starting, Unfinished, Freeing, Opening
<1> QED
  BY <1>1, <1>2, <1>3, <1>4, <1>5, <1>6, <1>7, <1>8, <1>9, <1>10, <1>11, <1>12, <1>13, <1>14,
     <1>15, TeamStep, AllocStep DEF TeamInv

LEMMA PlacesNext ==
  ASSUME TeamInv, NEW t \in Threads, Step(t)
  PROVE  Places'
BY PlaceOther, PlaceOwn DEF Places

-----------------------------------------------------------------------------
(* Chain.                                                                  *)

\* No thread ever goes back.
LEMMA Forward ==
  ASSUME TeamInv, NEW t \in Threads, Step(t), NEW u \in Threads
  PROVE  /\ Cur(u) \in 0 .. Last /\ Cur(u)' \in 0 .. Last /\ Cur(u)' >= Cur(u)
         /\ Entered(u) \in Int /\ Entered(u)' \in Int
         /\ Entered(u)' # Entered(u) =>
              /\ u = t /\ Entered(t)' = Entered(t) + 1
              /\ StartKnown(t) \/ StopWaiting(t) \/ Publish(t)
<1>0. /\ pc \in [Threads -> Labels] /\ k \in [Threads -> 0 .. Last] /\ Last \in Nat
      /\ Cur(u) \in 0 .. Last
  BY Basics, InUse DEF TeamInv, Types
<1>1. Entered(u) \in Int
  BY <1>0 DEF Entered
<1>2. CASE u # t
  BY <1>0, <1>1, <1>2, OthersPlaces DEF TeamInv
<1>3. CASE u = t
  <2>0. pc[t] \in Starting => k[t] # 0
    BY DEF TeamInv, Places, Place, Starting
  <2>1. CASE StartKnown(t) \/ StartFirst(t) \/ StartLater(t)
    BY <1>0, <1>3, <2>0, <2>1
       DEF StartKnown, StartFirst, StartLater, Starts, At, Goto, Cur, Entered, Starting
  <2>2. CASE MarkWaited(t) \/ FutexWait(t) \/ StopWaiting(t)
    BY <1>0, <1>3, <2>0, <2>2
       DEF MarkWaited, FutexWait, StopWaiting, At, Goto, Cur, Entered, Starting
  <2>3. CASE AllocCached(t) \/ AllocFreed(t) \/ AllocFresh(t)
    BY <1>0, <1>3, <2>0, <2>3
       DEF AllocCached, AllocFreed, AllocFresh, InitShare, At, Goto, Cur, Entered, Starting
  <2>4. CASE LoadFree(t) \/ Begin(t) \/ Publish(t) \/ Wake(t)
    BY <1>0, <1>3, <2>0, <2>4
       DEF LoadFree, Begin, Publish, Wake, At, Goto, Cur, Entered, Starting
  <2>5. CASE LeaveNowait(t) \/ LastNowait(t) \/ Arrive(t) \/ Release(t) \/ PassBarrier(t)
    BY <1>0, <1>3, <2>0, <2>5
       DEF LeaveNowait, LastNowait, Arrive, Release, PassBarrier, At, Goto, Cur, Entered, Starting
  <2>6. CASE FreeShare(t) \/ Push(t) \/ Record(t) \/ ParallelEnd(t) \/ Join(t)
    BY <1>0, <1>3, <2>0, <2>6
       DEF FreeShare, Push, Record, ParallelEnd, Join, At, Goto, Cur, Entered, Starting
  <2> QED
    BY <2>1, <2>2, <2>3, <2>4, <2>5, <2>6, TeamStep DEF TeamInv
<1> QED
  BY <1>2, <1>3

\* The loop a share is about to be allocated for is later than all that have one.
LEMMA Newest ==
  ASSUME TeamInv, NEW t \in Threads, pc[t] \in {"alloc", "refill"}, NEW s \in Shares,
         serves[s] # Null
  PROVE  serves[s] < k[t] /\ serves[s] \in Nat /\ k[t] \in Nat
<1>1. /\ serves[s] \in 0 .. Last /\ Last \in Nat /\ k[t] \in Nat
      /\ \A u \in Threads : k[u] \in Nat
  BY Basics, ThreadTypes DEF TeamInv, Types
<1>2. PICK u \in Threads : Cur(u) >= serves[s]
  BY DEF TeamInv, Chain
<1>3. Entered(u) < k[t] /\ (pc[u] \in Opening => u = t)
  BY DEF TeamInv, OneOpens, Opening
<1>4. Cur(u) < k[t]
  <2>1. CASE pc[u] \in {"begin", "publish"}
    BY <1>3, <2>1 DEF Opening
  <2>2. CASE pc[u] \notin {"begin", "publish"}
    BY <1>3, <2>2 DEF Cur, Entered
  <2> QED
    BY <2>1, <2>2
<1> QED
  BY <1>1, <1>2, <1>4 DEF Cur

\* Shares are never unmade.
LEMMA MadeGrows ==
  ASSUME TeamInv, NEW t \in Threads, Step(t)
  PROVE  made' >= made /\ made \in Nat /\ made' \in Nat
<1>1. made \in Nat
  BY DEF TeamInv, Types
<1>2. made' = made \/ \E s \in Shares : Allocates(t, s)
  BY AllocStep, TeamStep DEF TeamInv, StartKnown, StartFirst, StartLater, MarkWaited,
     FutexWait, StopWaiting, LoadFree, Begin, Publish, Wake, LeaveNowait, LastNowait, Arrive,
     Release, PassBarrier, FreeShare, Push, Record, ParallelEnd, Join, lists
<1> QED
  BY <1>1, <1>2 DEF Allocates

\* Two shares never hold the same loop.
LEMMA ChainUnique ==
  ASSUME TeamInv, NEW t \in Threads, Step(t), NEW a \in Shares, NEW b \in Shares,
         serves'[a] = serves'[b], serves'[a] # Null
  PROVE  a = b
<1>0. /\ serves \in [Shares -> (0 .. Last) \cup {Null}]
      /\ serves[a] = serves[b] /\ serves[a] # Null => a = b
  BY DEF TeamInv, Types, Chain
<1>1. CASE \E s \in Shares : Allocates(t, s)
  <2>1. PICK s \in Shares : Allocates(t, s)
    BY <1>1
  <2>2. serves' = [serves EXCEPT ![s] = k[t]] /\ pc[t] \in {"alloc", "refill"}
    BY <2>1 DEF Allocates, InitShare
  <2>3. \A x \in Shares : serves[x] = Null \/ serves[x] # k[t]
    BY <2>2, Newest
  <2>4. k[t] # Null
    BY Basics, ThreadTypes DEF TeamInv, Null
  <2> QED
    BY <1>0, <2>2, <2>3, <2>4
<1>2. CASE Push(t) /\ listFree = snap[t]
  BY <1>0, <1>2 DEF Push
<1>3. CASE serves' = serves
  BY <1>0, <1>3
<1> QED
  BY <1>1, <1>2, <1>3, ServesNext

\* The share of the loop before the one that is freed has been freed already.
LEMMA NothingBehind ==
  ASSUME TeamInv, NEW t \in Threads, pc[t] \in Freeing, NEW s \in Shares, serves[s] # Null
  PROVE  /\ serves[s] \in Nat /\ serves[s] >= k[t] - 1 /\ k[t] \in Nat
<1>1. serves[s] \in Nat /\ k[t] \in Nat
  BY ThreadTypes, Basics DEF TeamInv, Types
<1>2. SUFFICES ASSUME serves[s] + 1 < k[t]
               PROVE  FALSE
  BY <1>1
<1>3. \A u \in Threads : k[u] >= k[t] /\ k[u] \in Nat
  BY AllBeyond, ThreadTypes DEF TeamInv
<1>4. \A u \in Threads : u \in Left(serves[s] + 1)
  BY <1>1, <1>2, <1>3 DEF Left
<1>5. \A u \in Threads : k[u] # serves[s] + 1
  BY <1>1, <1>2, <1>3
<1> QED
  BY <1>4, <1>5 DEF TeamInv, Leaving

\* next_ws of a share leads to the share of the next loop.
LEMMA ChainLinks ==
  ASSUME TeamInv, NEW t \in Threads, Step(t), NEW s \in Shares, serves'[s] # Null,
         nextWs'[s] \in Shares
  PROVE  serves'[nextWs'[s]] = serves'[s] + 1
<1>0. /\ serves \in [Shares -> (0 .. Last) \cup {Null}]
      /\ nextWs \in [Shares -> Shares \cup {Null, Owned, Waited}]
      /\ serves[s] # Null /\ nextWs[s] \in Shares => serves[nextWs[s]] = serves[s] + 1
      /\ Null \notin Shares /\ Owned \notin Shares /\ Waited \notin Shares /\ Null = -1
      /\ ws[t] \in Shares
  BY Basics, ThreadTypes DEF TeamInv, Types, Chain, Null
<1>1. CASE \E x \in Shares : Allocates(t, x)
  <2>1. PICK x \in Shares : Allocates(t, x)
    BY <1>1
  <2>2. /\ serves' = [serves EXCEPT ![x] = k[t]] /\ serves[x] = Null
        /\ nextWs' = [nextWs EXCEPT ![x] = Null]
    BY <2>1 DEF Allocates, InitShare
  <2>3. s # x /\ nextWs'[s] = nextWs[s] /\ serves'[s] = serves[s]
    BY <1>0, <2>2
  <2>4. serves[nextWs[s]] = serves[s] + 1 /\ serves[s] \in 0 .. Last
    BY <1>0, <2>3
  <2>5. nextWs[s] # x
    BY <1>0, <2>2, <2>4
  <2> QED
    BY <1>0, <2>2, <2>3, <2>4, <2>5
<1>2. CASE Push(t) /\ listFree = snap[t]
  <2>1. /\ serves' = [serves EXCEPT ![last[t]] = Null] /\ nextWs' = nextWs
        /\ pc[t] \in Freeing
    BY <1>2 DEF Push, At, Freeing
  <2>2. last[t] \in Shares /\ serves[last[t]] = k[t] - 1
    BY <2>1, InUse
  <2>3. s # last[t] /\ serves[s] # Null /\ serves'[s] = serves[s]
    BY <1>0, <2>1
  <2>4. serves[s] \in Nat /\ serves[s] >= k[t] - 1 /\ k[t] \in Nat
    BY <2>1, <2>3, NothingBehind
  <2>5. serves[nextWs[s]] = serves[s] + 1 /\ nextWs[s] \in Shares
    BY <1>0, <2>1, <2>3
  <2>6. nextWs[s] # last[t]
    BY <2>2, <2>4, <2>5
  <2> QED
    BY <1>0, <2>1, <2>3, <2>5, <2>6
<1>3. CASE serves' = serves
  <2>1. CASE nextWs' = nextWs
    BY <1>0, <1>3, <2>1
  <2>2. CASE StartFirst(t) \/ MarkWaited(t)
    BY <1>0, <1>3, <2>2 DEF StartFirst, MarkWaited
  <2>3. CASE Publish(t)
    <3>1. nextWs' = [nextWs EXCEPT ![last[t]] = ws[t]] /\ pc[t] = "publish"
      BY <2>3 DEF Publish, At
    <3>2. serves[ws[t]] = k[t] /\ serves[last[t]] = k[t] - 1 /\ k[t] \in Nat
      BY <3>1, InUse, ThreadTypes DEF Cur, Starting, Unfinished, Opening, TeamInv
    <3> QED
      BY <1>0, <1>3, <3>1, <3>2
  <2> QED
    BY <1>1, <2>1, <2>2, <2>3, LocksNext DEF Allocates, InitShare
<1> QED
  BY <1>1, <1>2, <1>3, ServesNext

\* Once a thread is beyond a loop, the share of that loop leads on.
LEMMA ChainReached ==
  ASSUME TeamInv, NEW t \in Threads, Step(t), NEW s \in Shares, serves'[s] # Null,
         NEW u \in Threads, Entered(u)' > serves'[s]
  PROVE  nextWs'[s] \in Shares
<1>0. /\ serves \in [Shares -> (0 .. Last) \cup {Null}]
      /\ nextWs \in [Shares -> Shares \cup {Null, Owned, Waited}]
      /\ Null \notin Shares /\ Owned \notin Shares /\ Waited \notin Shares
      /\ ws[t] \in Shares /\ Last \in Nat /\ k[t] \in Nat /\ Entered(u) \in Int
      /\ k \in [Threads -> 0 .. Last] /\ pc \in [Threads -> Labels]
  BY Basics, ThreadTypes, Forward DEF TeamInv, Types
<1>1. CASE \E x \in Shares : Allocates(t, x)
  <2>1. PICK x \in Shares : Allocates(t, x)
    BY <1>1
  <2>2. /\ serves' = [serves EXCEPT ![x] = k[t]] /\ serves[x] = Null
        /\ nextWs' = [nextWs EXCEPT ![x] = Null] /\ pc[t] \in {"alloc", "refill"}
        /\ k' = k /\ pc' = [pc EXCEPT ![t] = "begin"]
    BY <2>1 DEF Allocates, InitShare, Goto
  <2>3. Entered(u)' = Entered(u) /\ Entered(u) < k[t]
    <3>1. Entered(u)' = Entered(u)
      BY <1>0, <2>2 DEF Entered, Starting
    <3> QED
      BY <2>2, <3>1 DEF TeamInv, OneOpens, Opening
  <2>4. s # x
    BY <1>0, <2>2, <2>3
  <2> QED
    BY <1>0, <2>2, <2>3, <2>4 DEF TeamInv, Chain
<1>2. CASE ~\E x \in Shares : Allocates(t, x)
  <2>1. serves'[s] = serves[s] /\ serves[s] # Null /\ serves[s] \in 0 .. Last
    <3>1. CASE Push(t)
      BY <1>0, <3>1 DEF Push
    <3>2. CASE serves' = serves
      BY <1>0, <3>2
    <3> QED
      BY <1>2, <3>1, <3>2, ServesNext
  <2>2. nextWs[s] \in Shares => nextWs'[s] \in Shares
    <3>1. CASE StartFirst(t) \/ MarkWaited(t)
      BY <1>0, <3>1 DEF StartFirst, MarkWaited
    <3>2. CASE Publish(t)
      BY <1>0, <3>2 DEF Publish
    <3> QED
      BY <1>2, <3>1, <3>2, LocksNext
  <2>3. CASE Entered(u) > serves[s]
    BY <2>1, <2>2, <2>3 DEF TeamInv, Chain
  <2>4. CASE ~(Entered(u) > serves[s])
    <3>1. /\ u = t /\ Entered(t)' = Entered(t) + 1 /\ serves[s] = Entered(t)
          /\ StartKnown(t) \/ StopWaiting(t) \/ Publish(t)
      BY <1>0, <2>1, <2>4, Forward
    <3>2. \A a \in Shares : serves[a] = serves[s] => a = s
      BY <2>1 DEF TeamInv, Chain
    <3>3. CASE StartKnown(t)
      <4>1. pc[t] = "between" /\ nextWs[ws[t]] \in Shares
        BY <3>3 DEF StartKnown, Starts, At
      <4>2. serves[ws[t]] = Entered(t)
        BY <4>1, InUse DEF Cur, Entered, Starting
      <4> QED
        BY <1>0, <2>2, <3>1, <3>2, <4>1, <4>2
    <3>4. CASE StopWaiting(t)
      <4>1. pc[t] = "sleep" /\ nextWs[last[t]] # Waited
        BY <3>4 DEF StopWaiting, At
      <4>2. last[t] \in Shares /\ serves[last[t]] = Entered(t)
        BY <4>1, InUse DEF Entered, Starting, Unfinished
      <4>3. nextWs[last[t]] \in Shares
        BY <4>1 DEF TeamInv, Places, Place
      <4> QED
        BY <2>2, <3>1, <3>2, <4>2, <4>3
    <3>5. CASE Publish(t)
      <4>1. pc[t] = "publish" /\ nextWs' = [nextWs EXCEPT ![last[t]] = ws[t]]
        BY <3>5 DEF Publish, At
      <4>2. last[t] \in Shares /\ serves[last[t]] = Entered(t)
        BY <4>1, InUse DEF Entered, Starting, Unfinished, Opening
      <4> QED
        BY <1>0, <3>1, <3>2, <4>1, <4>2
    <3> QED
      BY <3>1, <3>3, <3>4, <3>5
  <2> QED
    BY <2>3, <2>4
<1> QED
  BY <1>1, <1>2

LEMMA ChainNext ==
  ASSUME TeamInv, NEW t \in Threads, Step(t)
  PROVE  Chain'
<1>1. ASSUME NEW s \in Shares, serves'[s] # Null
      PROVE  s < made' /\ \E u \in Threads : Cur(u)' >= serves'[s]
  <2>0. /\ serves \in [Shares -> (0 .. Last) \cup {Null}] /\ Last \in Nat
        /\ k \in [Threads -> 0 .. Last] /\ pc \in [Threads -> Labels] /\ Shares \subseteq Nat
    BY Basics DEF TeamInv, Types
  <2>1. CASE \E x \in Shares : Allocates(t, x) /\ s = x
    <3>1. PICK x \in Shares : Allocates(t, x) /\ s = x
      BY <2>1
    <3>2. /\ serves' = [serves EXCEPT ![s] = k[t]] /\ s < made'
          /\ k' = k /\ pc' = [pc EXCEPT ![t] = "begin"]
      BY <3>1 DEF Allocates, InitShare, Goto
    <3>3. Cur(t)' = k[t] /\ serves'[s] = k[t]
      BY <2>0, <3>2 DEF Cur, Starting
    <3> QED
      BY <2>0, <3>2, <3>3
  <2>2. CASE ~\E x \in Shares : Allocates(t, x) /\ s = x
    <3>1. serves'[s] = serves[s] /\ serves[s] # Null
      <4>1. CASE \E x \in Shares : Allocates(t, x)
        BY <1>1, <2>0, <2>2, <4>1 DEF Allocates, InitShare
      <4>2. CASE Push(t)
        BY <1>1, <2>0, <4>2 DEF Push
      <4>3. CASE serves' = serves
        BY <1>1, <4>3
      <4> QED
        BY <4>1, <4>2, <4>3, ServesNext
    <3>2. s < made /\ \E u \in Threads : Cur(u) >= serves[s]
      BY <3>1 DEF TeamInv, Chain
    <3>3. PICK u \in Threads : Cur(u) >= serves[s]
      BY <3>2
    <3>4. Cur(u)' >= Cur(u) /\ Cur(u) \in 0 .. Last /\ Cur(u)' \in 0 .. Last
      BY Forward
    <3>5. made' >= made /\ made \in Nat /\ made' \in Nat
      BY MadeGrows
    <3>6. serves[s] \in 0 .. Last
      BY <2>0, <3>1
    <3> QED
      BY <2>0, <3>1, <3>2, <3>3, <3>4, <3>5, <3>6
  <2> QED
    BY <2>1, <2>2
<1> QED
  BY <1>1, ChainUnique, ChainLinks, ChainReached DEF Chain

-----------------------------------------------------------------------------
(* OneOpens.                                                               *)

\* Nobody starts to open a loop while another thread opens one.
LEMMA NoSecondOpener ==
  ASSUME TeamInv, NEW t \in Threads, StartFirst(t)
  PROVE  /\ serves[ws[t]] = k[t] /\ nextWs[ws[t]] = Null /\ k[t] \in Nat
         /\ \A u \in Threads : Entered(u) <= k[t]
         /\ \A v \in Threads : pc[v] \notin Opening
<1>1. pc[t] = "between" /\ nextWs[ws[t]] = Null /\ Null \notin Shares /\ ws[t] \in Shares
      /\ k[t] \in Nat /\ Null # Owned /\ Null # Waited
  BY Basics, ThreadTypes DEF StartFirst, Starts, At, TeamInv
<1>2. serves[ws[t]] = k[t] /\ serves[ws[t]] # Null /\ Entered(t) = k[t]
  BY <1>1, InUse DEF Cur, Entered, Starting
<1>3. \A u \in Threads : ~(Entered(u) > k[t])
  BY <1>1, <1>2 DEF TeamInv, Chain
<1>4. \A u \in Threads : Entered(u) \in Int
  BY ThreadTypes DEF TeamInv, Entered
<1>5. ASSUME NEW v \in Threads, pc[v] \in Opening
      PROVE  FALSE
  <2>1. Entered(t) < k[v] /\ Entered(v) = k[v] - 1 /\ k[v] \in Nat
    BY <1>5, ThreadTypes DEF TeamInv, OneOpens, Entered, Starting, Opening
  <2>2. nextWs[last[v]] \in {Owned, Waited}
    BY <1>5 DEF TeamInv, OneOpens
  <2>3. last[v] \in Shares /\ serves[last[v]] = k[v] - 1
    BY <1>5, InUse DEF Unfinished, Starting, Opening
  <2>4. k[v] = k[t] + 1
    BY <1>1, <1>2, <1>3, <2>1
  <2>5. last[v] = ws[t]
    BY <1>1, <1>2, <2>3, <2>4 DEF TeamInv, Chain
  <2> QED
    BY <1>1, <2>2, <2>5
<1> QED
  BY <1>1, <1>2, <1>3, <1>4, <1>5

\* A thread that opens a loop goes on without being disturbed.
LEMMA OpenerStays ==
  ASSUME TeamInv, NEW t \in Threads, Step(t), NEW v \in Threads, v # t, pc[v] \in Opening
  PROVE  /\ nextWs'[last[v]] \in {Owned, Waited}
         /\ \A u \in Threads : Entered(u)' < k[v]
         /\ pc'[t] \notin Opening
<1>0. /\ nextWs[last[v]] \in {Owned, Waited} /\ last[v] \in Shares
      /\ serves[last[v]] = k[v] - 1 /\ serves[last[v]] # Null /\ k[v] \in Nat
      /\ \A u \in Threads : Entered(u) < k[v]
      /\ pc[t] \notin Opening
  BY InUse, ThreadTypes DEF TeamInv, OneOpens, Unfinished, Starting, Opening
<1>1. /\ nextWs \in [Shares -> Shares \cup {Null, Owned, Waited}]
      /\ Null \notin Shares /\ Owned \notin Shares /\ Waited \notin Shares
      /\ Null # Owned /\ Null # Waited /\ Owned # Waited
  BY Basics DEF TeamInv, Types
<1>2. ~StartFirst(t) /\ ~Publish(t) /\ ~\E s \in Shares : Allocates(t, s)
  BY <1>0, NoSecondOpener DEF Publish, At, Allocates, Opening
<1>3. nextWs'[last[v]] \in {Owned, Waited}
  <2>1. CASE MarkWaited(t)
    BY <1>0, <1>1, <2>1 DEF MarkWaited
  <2> QED
    BY <1>0, <1>2, <2>1, LocksNext
<1>4. ASSUME NEW u \in Threads, ~(Entered(u)' < k[v])
      PROVE  FALSE
  <2>1. /\ u = t /\ Entered(t)' = Entered(t) + 1 /\ Entered(t) \in Int
        /\ StartKnown(t) \/ StopWaiting(t)
    BY <1>0, <1>2, <1>4, Forward
  <2>2. Entered(t) = k[v] - 1
    BY <1>0, <1>4, <2>1
  <2>3. CASE StartKnown(t)
    <3>1. pc[t] = "between" /\ nextWs[ws[t]] \in Shares /\ ws[t] \in Shares
      BY <2>3, ThreadTypes DEF StartKnown, Starts, At, TeamInv
    <3>2. serves[ws[t]] = Entered(t)
      BY <3>1, InUse DEF Cur, Entered, Starting
    <3>3. ws[t] = last[v]
      BY <1>0, <2>2, <3>1, <3>2 DEF TeamInv, Chain
    <3> QED
      BY <1>0, <1>1, <3>1, <3>3
  <2>4. CASE StopWaiting(t)
    <3>1. pc[t] = "sleep" /\ nextWs[last[t]] # Waited
      BY <2>4 DEF StopWaiting, At
    <3>2. nextWs[last[t]] \in Shares /\ last[t] \in Shares /\ serves[last[t]] = Entered(t)
      BY <3>1, InUse DEF TeamInv, Places, Place, Entered, Starting, Unfinished
    <3>3. last[t] = last[v]
      BY <1>0, <2>2, <3>2 DEF TeamInv, Chain
    <3> QED
      BY <1>0, <1>1, <3>2, <3>3
  <2> QED
    BY <2>1, <2>3, <2>4
<1>5. pc'[t] \notin Opening
  <2>0. pc \in [Threads -> Labels]
    BY DEF TeamInv, Types
  <2>1. CASE StartKnown(t) \/ StartLater(t) \/ MarkWaited(t) \/ FutexWait(t) \/ StopWaiting(t)
    BY <2>0, <2>1
       DEF StartKnown, StartLater, MarkWaited, FutexWait, StopWaiting, Goto, Opening
  <2>2. CASE LoadFree(t) \/ Begin(t) \/ Wake(t)
    BY <1>0, <2>0, <2>2 DEF LoadFree, Begin, Wake, At, Goto, Opening
  <2>3. CASE LeaveNowait(t) \/ LastNowait(t) \/ Arrive(t) \/ Release(t) \/ PassBarrier(t)
    BY <2>0, <2>3 DEF LeaveNowait, LastNowait, Arrive, Release, PassBarrier, Goto, Opening
  <2>4. CASE FreeShare(t) \/ Push(t) \/ Record(t) \/ ParallelEnd(t) \/ Join(t)
    BY <2>0, <2>4 DEF FreeShare, Push, Record, ParallelEnd, Join, Goto, Opening
  <2> QED
    BY <1>2, <2>1, <2>2, <2>3, <2>4, TeamStep, AllocStep DEF TeamInv
<1> QED
  BY <1>3, <1>4, <1>5

\* The thread that takes the step, if it opens a loop.
LEMMA OwnOpening ==
  ASSUME TeamInv, NEW t \in Threads, Step(t), pc'[t] \in Opening
  PROVE  /\ nextWs'[last'[t]] \in {Owned, Waited}
         /\ \A u \in Threads : Entered(u)' < k'[t]
         /\ \A u \in Threads : u # t => pc[u] \notin Opening
<1>0. /\ nextWs \in [Shares -> Shares \cup {Null, Owned, Waited}] /\ pc \in [Threads -> Labels]
      /\ k \in [Threads -> 0 .. Last] /\ last \in [Threads -> Shares \cup {Null}]
      /\ ws[t] \in Shares /\ k[t] \in Nat /\ \A u \in Threads : Entered(u) \in Int
  BY ThreadTypes DEF TeamInv, Types, Entered
<1>1. CASE StartFirst(t)
  <2>1. /\ k' = [k EXCEPT ![t] = k[t] + 1] /\ last' = [last EXCEPT ![t] = ws[t]]
        /\ nextWs' = [nextWs EXCEPT ![ws[t]] = Owned]
    BY <1>1 DEF StartFirst, Starts
  <2>2. \A u \in Threads : Entered(u)' = Entered(u)
    <3>1. ~StartKnown(t) /\ ~StopWaiting(t) /\ ~Publish(t)
      BY <1>1, Basics DEF StartFirst, Starts, StartKnown, StopWaiting, Publish, At, TeamInv
    <3> QED
      BY <3>1, Forward
  <2> QED
    BY <1>0, <1>1, <2>1, <2>2, NoSecondOpener
<1>2. CASE ~StartFirst(t)
  <2>1. /\ \/ \E s \in Shares : Allocates(t, s)
           \/ nextWs' = nextWs
        /\ pc[t] \in Opening /\ k' = k /\ last' = last
        /\ ~StartKnown(t) /\ ~StopWaiting(t) /\ ~Publish(t)
    <3>1. CASE \E s \in Shares : Allocates(t, s)
      BY <3>1 DEF Allocates, InitShare, Opening, StartKnown, Starts, StopWaiting, Publish, At
    <3>2. CASE LoadFree(t) \/ Begin(t)
      BY <3>2 DEF LoadFree, Begin, Opening, StartKnown, Starts, StopWaiting, Publish, At
    <3>3. CASE StartKnown(t) \/ StartLater(t) \/ MarkWaited(t) \/ FutexWait(t) \/ StopWaiting(t)
      BY <1>0, <3>3
         DEF StartKnown, StartLater, MarkWaited, FutexWait, StopWaiting, Goto, Opening
    <3>4. CASE Publish(t) \/ Wake(t)
      BY <1>0, <3>4 DEF Publish, Wake, Goto, Opening
    <3>5. CASE LeaveNowait(t) \/ LastNowait(t) \/ Arrive(t) \/ Release(t) \/ PassBarrier(t)
      BY <1>0, <3>5 DEF LeaveNowait, LastNowait, Arrive, Release, PassBarrier, Goto, Opening
    <3>6. CASE FreeShare(t) \/ Push(t) \/ Record(t) \/ ParallelEnd(t) \/ Join(t)
      BY <1>0, <3>6 DEF FreeShare, Push, Record, ParallelEnd, Join, Goto, Opening
    <3> QED
      BY <1>2, <3>1, <3>2, <3>3, <3>4, <3>5, <3>6, TeamStep, AllocStep DEF TeamInv
  <2>2. \A u \in Threads : Entered(u)' = Entered(u)
    BY <2>1, Forward
  <2>3. nextWs'[last[t]] \in {Owned, Waited}
    <3>1. /\ nextWs[last[t]] \in {Owned, Waited} /\ last[t] \in Shares
          /\ serves[last[t]] # Null
      BY <2>1, InUse DEF TeamInv, OneOpens, Unfinished, Starting, Opening
    <3>2. CASE nextWs' = nextWs
      BY <3>1, <3>2
    <3>3. CASE \E s \in Shares : Allocates(t, s)
      BY <1>0, <3>1, <3>3 DEF Allocates, InitShare
    <3> QED
      BY <2>1, <3>2, <3>3
  <2>4. /\ \A u \in Threads : Entered(u) < k[t]
        /\ \A u \in Threads : pc[u] \in Opening => u = t
    BY <2>1 DEF TeamInv, OneOpens
  <2> QED
    BY <2>1, <2>2, <2>3, <2>4
<1> QED
  BY <1>1, <1>2

LEMMA OneOpensNext ==
  ASSUME TeamInv, NEW t \in Threads, Step(t)
  PROVE  OneOpens'
<1> SUFFICES ASSUME NEW v \in Threads, pc'[v] \in Opening
             PROVE  /\ nextWs'[last'[v]] \in {Owned, Waited}
                    /\ \A u \in Threads : Entered(u)' < k'[v]
                    /\ \A u \in Threads : pc'[u] \in Opening => u = v
  BY DEF OneOpens, Opening
<1>0. \A u \in Threads \ {t} :
        k'[u] = k[u] /\ last'[u] = last[u] /\ (pc'[u] \in Opening <=> pc[u] \in Opening)
  BY OthersPlaces DEF TeamInv
<1>1. CASE v = t
  BY <1>0, <1>1, OwnOpening
<1>2. CASE v # t
  <2>1. /\ pc[v] \in Opening /\ k'[v] = k[v] /\ last'[v] = last[v]
    BY <1>0, <1>2
  <2>2. /\ nextWs'[last[v]] \in {Owned, Waited} /\ \A u \in Threads : Entered(u)' < k[v]
        /\ pc'[t] \notin Opening
    BY <1>2, <2>1, OpenerStays
  <2>3. \A u \in Threads : pc'[u] \in Opening => u = v
    BY <1>0, <2>1, <2>2 DEF TeamInv, OneOpens
  <2> QED
    BY <2>1, <2>2, <2>3
<1> QED
  BY <1>1, <1>2

-----------------------------------------------------------------------------
(* Leaving.                                                                *)

\* The last step of a thread in a loop is the only one that finishes it.
LEMMA LeftNext ==
  ASSUME TeamInv, NEW t \in Threads, Step(t), NEW j \in Int
  PROVE  /\ Leaves(t) /\ j = k[t] => Left(j)' = Left(j) \cup {t} /\ t \notin Left(j)
         /\ ~(Leaves(t) /\ j = k[t]) => Left(j)' = Left(j)
<1>0. /\ pc \in [Threads -> Labels] /\ k \in [Threads -> 0 .. Last] /\ Last \in Nat
      /\ k[t] \in Int
  BY Basics DEF TeamInv, Types
<1>1. \A u \in Threads \ {t} : u \in Left(j)' <=> u \in Left(j)
  BY OthersPlaces DEF TeamInv, Left, Unfinished, Starting
<1>2. CASE StartKnown(t) \/ StartFirst(t) \/ StartLater(t)
  <2>1. t \in Left(j)' <=> t \in Left(j)
    BY <1>0, <1>2
       DEF StartKnown, StartFirst, StartLater, Starts, At, Goto, Left, Unfinished, Starting
  <2>2. ~Leaves(t)
    BY <1>2 DEF Leaves, LeaveNowait, LastNowait, Arrive, StartKnown, StartFirst, StartLater,
       Starts, At
  <2> QED
    BY <1>1, <2>1, <2>2 DEF Left
<1>3. CASE Leaves(t)
  <2>1. /\ pc[t] = "inside" /\ k' = k
        /\ \E l \in {"between", "free", "barrier", "release", "record"} :
             pc' = [pc EXCEPT ![t] = l]
    BY <1>3 DEF Leaves, LeaveNowait, LastNowait, Arrive, At, Goto
  <2>2. t \in Left(j)' <=> t \in Left(j) \/ j = k[t]
    BY <1>0, <2>1 DEF Left, Unfinished, Starting
  <2>3. t \notin Left(k[t])
    BY <1>0, <2>1 DEF Left, Unfinished
  <2> QED
    BY <1>1, <1>3, <2>2, <2>3 DEF Left
<1>4. CASE ~(StartKnown(t) \/ StartFirst(t) \/ StartLater(t)) /\ ~Leaves(t)
  <2>1. k' = k /\ (pc'[t] \in Unfinished <=> pc[t] \in Unfinished)
    <3>1. CASE MarkWaited(t) \/ FutexWait(t) \/ StopWaiting(t) \/ LoadFree(t)
      BY <1>0, <3>1
         DEF MarkWaited, FutexWait, StopWaiting, LoadFree, At, Goto, Unfinished, Starting
    <3>2. CASE AllocCached(t) \/ AllocFreed(t) \/ AllocFresh(t)
      BY <1>0, <3>2
         DEF AllocCached, AllocFreed, AllocFresh, InitShare, At, Goto, Unfinished, Starting
    <3>3. CASE Begin(t) \/ Publish(t) \/ Wake(t)
      BY <1>0, <3>3 DEF Begin, Publish, Wake, At, Goto, Unfinished, Starting
    <3>4. CASE Release(t) \/ PassBarrier(t) \/ FreeShare(t) \/ Push(t)
      BY <1>0, <3>4
         DEF Release, PassBarrier, FreeShare, Push, At, Goto, Unfinished, Starting
    <3>5. CASE Record(t) \/ ParallelEnd(t) \/ Join(t)
      BY <1>0, <3>5 DEF Record, ParallelEnd, Join, At, Goto, Unfinished, Starting
    <3> QED
      BY <1>4, <3>1, <3>2, <3>3, <3>4, <3>5, TeamStep DEF TeamInv, Leaves
  <2> QED
    BY <1>1, <1>4, <2>1 DEF Left
<1> QED
  BY <1>2, <1>3, <1>4

\* The barrier has counted the threads that have finished the loop t is in, and no others.
LEMMA ArrivedLeft ==
  ASSUME TeamInv, NEW t \in Threads, pc[t] = "inside", ~Nowait(k[t])
  PROVE  /\ Arrived = Left(k[t]) /\ t \notin Arrived
         /\ \A u \in Arrived : k[u] = k[t] /\ pc[u] = "barrier" /\ snap[u] = gen
<1>0. /\ \A u \in Threads : k[u] \in 0 .. Last /\ k[u] \in Nat /\ pc[u] \in Labels
      /\ Last \in Nat /\ k[t] \in 1 .. Last
  BY Basics, ThreadTypes DEF TeamInv, Places, Place
<1>1. t \notin Arrived /\ ~Out(t, k[t])
  BY <1>0 DEF Arrived, Closing, Out
<1>2. \A u \in Threads : ~Out(u, k[t])
  BY <1>0, <1>1 DEF TeamInv, Barrier
<1>3. ASSUME NEW u \in Arrived
      PROVE  k[u] = k[t] /\ pc[u] = "barrier" /\ snap[u] = gen
  <2>1. u \in Threads /\ k[u] # 0 /\ ~Nowait(k[u])
    BY <1>3 DEF Arrived
  <2>2. pc[u] \notin Closing
    BY <1>1, <2>1 DEF TeamInv, Barrier
  <2>3. pc[u] = "barrier" /\ snap[u] = gen
    BY <1>3, <2>2 DEF Arrived
  <2>4. ~Out(u, k[u])
    BY <1>0, <2>1, <2>3 DEF Out
  <2>5. ~Out(t, k[u])
    BY <1>0, <2>1, <2>4 DEF TeamInv, Barrier
  <2>6. k[u] <= k[t] /\ k[t] <= k[u]
    BY <1>0, <1>2, <2>1, <2>5 DEF Out
  <2> QED
    BY <1>0, <2>1, <2>3, <2>6
<1>4. ASSUME NEW u \in Left(k[t])
      PROVE  u \in Arrived
  <2>1. u \in Threads /\ ~(k[u] > k[t])
    BY <1>2, <1>4 DEF Left, Out
  <2>2. k[u] = k[t] /\ pc[u] \notin Unfinished
    BY <1>4, <2>1 DEF Left
  <2>3. pc[u] \in Closing \/ (pc[u] = "barrier" /\ snap[u] = gen)
    BY <1>0, <1>2, <2>1, <2>2 DEF Out, Unfinished, Starting, Closing, Labels
  <2> QED
    BY <1>0, <2>1, <2>2, <2>3 DEF Arrived
<1>5. \A u \in Arrived : u \in Left(k[t])
  BY <1>3 DEF Arrived, Left, Unfinished, Starting
<1> QED
  BY <1>1, <1>3, <1>4, <1>5

\* The thread that the code takes for the last one to finish a loop is the last one.
LEMMA LastOut ==
  ASSUME TeamInv, NEW t \in Threads, Leaves(t)
  PROVE  /\ LastNowait(t) \/ (Arrive(t) /\ awaited = 1) => Left(k[t]) = Threads \ {t}
         /\ LeaveNowait(t) /\ last[t] # Null => Left(k[t]) # Threads \ {t}
         /\ Arrive(t) /\ awaited # 1 => Left(k[t]) # Threads \ {t}
<1>0. /\ pc[t] = "inside" /\ k[t] \in 1 .. Last /\ ws[t] \in Shares /\ Last \in Nat
      /\ P \in Nat \ {0} /\ IsFiniteSet(Threads) /\ Null \notin 0 .. Last
  BY Basics, ThreadTypes
     DEF Leaves, LeaveNowait, LastNowait, Arrive, At, TeamInv, Places, Place
<1>1. /\ IsFiniteSet(Threads \ {t}) /\ Cardinality(Threads \ {t}) = P - 1
  BY <1>0, FS_RemoveElement DEF P
<1>2. Left(k[t]) \in SUBSET (Threads \ {t})
  BY <1>0 DEF Left, Unfinished
<1>3. CASE LeaveNowait(t) \/ LastNowait(t)
  <2>1. serves[ws[t]] = k[t] /\ Nowait(k[t])
    BY <1>0, <1>3, InUse DEF Cur, Starting, LeaveNowait, LastNowait, End, Nowait
  <2>2. completed[ws[t]] = Cardinality(Left(k[t]))
    BY <1>0, <2>1 DEF TeamInv, Leaving
  <2>3. LastNowait(t) => completed[ws[t]] + 1 = P
    BY DEF LastNowait
  <2>4. LeaveNowait(t) /\ last[t] # Null => completed[ws[t]] + 1 # P
    BY DEF LeaveNowait
  <2>5. completed[ws[t]] \in Nat
    BY ThreadTypes DEF TeamInv
  <2>6. LastNowait(t) => Left(k[t]) = Threads \ {t}
    BY <1>0, <1>1, <1>2, <2>2, <2>3, <2>5, FS_Subset
  <2>7. LeaveNowait(t) /\ last[t] # Null => Left(k[t]) # Threads \ {t}
    <3>1. Left(k[t]) = Threads \ {t} => Cardinality(Left(k[t])) = P - 1
      BY <1>1
    <3> QED
      BY <1>0, <2>2, <2>4, <2>5, <3>1
  <2>8. ~Arrive(t)
    BY <2>1 DEF Arrive, End, Nowait
  <2> QED
    BY <2>6, <2>7, <2>8
<1>4. CASE Arrive(t)
  <2>1. ~Nowait(k[t]) /\ ~LastNowait(t) /\ ~LeaveNowait(t)
    BY <1>4 DEF Arrive, LastNowait, LeaveNowait, Nowait, End
  <2>2. Arrived = Left(k[t]) /\ t \notin Arrived
    BY <1>0, <2>1, ArrivedLeft
  <2>3. awaited = 1 => Arrived = Threads \ {t}
    BY <2>2, RoomToArrive
  <2>4. awaited + Cardinality(Arrived) = P /\ awaited \in Nat
    BY DEF TeamInv, Barrier, Types
  <2>5. Arrived = Threads \ {t} => awaited = 1
    BY <1>0, <1>1, <2>4
  <2> QED
    BY <2>1, <2>2, <2>3, <2>5
<1> QED
  BY <1>3, <1>4 DEF Leaves

\* A thread gets to free a share by being the last one to finish the next loop.
LEMMA FreeingNext ==
  ASSUME TeamInv, NEW t \in Threads, Step(t)
  PROVE  /\ pc'[t] \in Freeing =>
              \/ pc[t] \in Freeing /\ k'[t] = k[t]
              \/ Leaves(t) /\ k'[t] = k[t] /\ Left(k[t]) = Threads \ {t}
         /\ Leaves(t) /\ prog.kind = "plain" /\ Left(k[t]) = Threads \ {t} =>
              pc'[t] \in Freeing /\ k'[t] = k[t]
<1>0. pc \in [Threads -> Labels]
  BY DEF TeamInv, Types
<1>1. CASE Leaves(t)
  <2>1. pc[t] = "inside" /\ k' = k
    BY <1>1 DEF Leaves, LeaveNowait, LastNowait, Arrive, At
  <2>2. pc'[t] \in Freeing => LastNowait(t) \/ (Arrive(t) /\ awaited = 1)
    BY <1>0, <1>1, <2>1 DEF Leaves, LeaveNowait, LastNowait, Arrive, Goto, Freeing
  <2>3. prog.kind = "plain" => last[t] # Null
    BY <2>1, InUse, Basics DEF Unfinished, TeamInv
  <2>4. last[t] # Null /\ (LastNowait(t) \/ (Arrive(t) /\ awaited = 1)) => pc'[t] \in Freeing
    BY <1>0 DEF LastNowait, Arrive, Goto, Freeing
  <2> QED
    BY <1>1, <2>1, <2>2, <2>3, <2>4, LastOut DEF Leaves
<1>2. CASE ~Leaves(t)
  <2>1. CASE StartKnown(t) \/ StartFirst(t) \/ StartLater(t) \/ MarkWaited(t) \/ FutexWait(t)
    BY <1>0, <1>2, <2>1
       DEF StartKnown, StartFirst, StartLater, MarkWaited, FutexWait, Goto, Freeing
  <2>2. CASE StopWaiting(t) \/ LoadFree(t) \/ Begin(t) \/ Publish(t) \/ Wake(t)
    BY <1>0, <1>2, <2>2 DEF StopWaiting, LoadFree, Begin, Publish, Wake, Goto, Freeing
  <2>3. CASE AllocCached(t) \/ AllocFreed(t) \/ AllocFresh(t)
    BY <1>0, <1>2, <2>3 DEF AllocCached, AllocFreed, AllocFresh, InitShare, Goto, Freeing
  <2>4. CASE Release(t) \/ PassBarrier(t) \/ Record(t) \/ ParallelEnd(t) \/ Join(t)
    BY <1>0, <1>2, <2>4
       DEF Release, PassBarrier, Record, ParallelEnd, Join, Goto, Freeing
  <2>5. CASE FreeShare(t) \/ Push(t)
    BY <1>0, <1>2, <2>5 DEF FreeShare, Push, At, Goto, Freeing
  <2> QED
    BY <1>2, <2>1, <2>2, <2>3, <2>4, <2>5, TeamStep DEF TeamInv, Leaves
<1> QED
  BY <1>1, <1>2

\* threads_completed counts those that have finished the loop.
LEMMA CountNext ==
  ASSUME TeamInv, NEW t \in Threads, Step(t), NEW s \in Shares, NEW j \in Nat \ {0},
         serves'[s] = j, Nowait(j)
  PROVE  completed'[s] = Cardinality(Left(j)')
<1>0. /\ serves \in [Shares -> (0 .. Last) \cup {Null}] /\ completed \in [Shares -> Nat]
      /\ \A u \in Threads : k[u] \in Nat /\ ws[u] \in Shares
      /\ Null \notin 0 .. Last /\ Last \in Nat /\ Null = -1 /\ IsFiniteSet(Threads)
  BY Basics, ThreadTypes DEF TeamInv, Types, Null
<1>a. /\ Leaves(t) /\ j = k[t] => Left(j)' = Left(j) \cup {t} /\ t \notin Left(j)
      /\ ~(Leaves(t) /\ j = k[t]) => Left(j)' = Left(j)
  BY LeftNext
<1>1. CASE \E x \in Shares : Allocates(t, x)
  <2>1. PICK x \in Shares : Allocates(t, x)
    BY <1>1
  <2>2. /\ serves' = [serves EXCEPT ![x] = k[t]] /\ completed' = [completed EXCEPT ![x] = 0]
        /\ pc[t] \in {"alloc", "refill"}
    BY <2>1 DEF Allocates, InitShare
  <2>3. Left(j)' = Left(j)
    BY <1>a, <2>2 DEF Leaves, LeaveNowait, LastNowait, Arrive, At
  <2>4. CASE s = x
    <3>1. j = k[t] /\ completed'[s] = 0
      BY <1>0, <2>2, <2>4
    <3>2. \A u \in Threads : Entered(u) < k[t]
      BY <2>2 DEF TeamInv, OneOpens, Opening
    <3>3. \A u \in Threads : u \notin Left(j)
      BY <1>0, <3>1, <3>2 DEF Left, Entered, Unfinished, Starting
    <3>4. Left(j) = {}
      BY <3>3 DEF Left
    <3> QED
      BY <2>3, <3>1, <3>4, FS_EmptySet
  <2>5. CASE s # x
    <3>1. serves[s] = j /\ completed'[s] = completed[s]
      BY <1>0, <2>2, <2>5
    <3> QED
      BY <1>0, <2>3, <3>1 DEF TeamInv, Leaving
  <2> QED
    BY <2>4, <2>5
<1>2. CASE ~\E x \in Shares : Allocates(t, x)
  <2>1. serves[s] = j
    <3>1. CASE Push(t)
      BY <1>0, <3>1 DEF Push
    <3>2. CASE serves' = serves
      BY <1>0, <3>2
    <3> QED
      BY <1>2, <3>1, <3>2, ServesNext
  <2>2. completed[s] = Cardinality(Left(j))
    BY <1>0, <2>1 DEF TeamInv, Leaving
  <2>3. CASE LeaveNowait(t) \/ LastNowait(t)
    <3>1. completed' = [completed EXCEPT ![ws[t]] = @ + 1] /\ pc[t] = "inside" /\ Leaves(t)
      BY <2>3 DEF LeaveNowait, LastNowait, At, Leaves
    <3>2. serves[ws[t]] = k[t]
      BY <3>1, InUse DEF Cur, Starting
    <3>3. s = ws[t] <=> j = k[t]
      BY <1>0, <2>1, <3>2 DEF TeamInv, Chain
    <3>4. CASE j = k[t]
      <4>1. Left(j) \in SUBSET Threads /\ Left(j)' = Left(j) \cup {t} /\ t \notin Left(j)
        BY <1>a, <3>1, <3>4 DEF Left
      <4>2. IsFiniteSet(Left(j))
        BY <1>0, <4>1, FS_Subset
      <4>3. Cardinality(Left(j)') = Cardinality(Left(j)) + 1
        BY <4>1, <4>2, FS_AddElement
      <4> QED
        BY <1>0, <2>2, <3>1, <3>3, <3>4, <4>3
    <3>5. CASE j # k[t]
      BY <1>0, <1>a, <2>2, <3>1, <3>3, <3>5
    <3> QED
      BY <3>4, <3>5
  <2>4. CASE ~(LeaveNowait(t) \/ LastNowait(t))
    <3>1. completed' = completed
      BY <1>2, <2>4, AllocStep, TeamStep DEF TeamInv, StartKnown, StartFirst, StartLater,
         MarkWaited, FutexWait, StopWaiting, LoadFree, Begin, Publish, Wake, Arrive, Release,
         PassBarrier, FreeShare, Push, Record, ParallelEnd, Join
    <3>2. ~(Leaves(t) /\ j = k[t])
      BY <2>4 DEF Leaves, Arrive, Nowait, End
    <3> QED
      BY <1>a, <2>2, <3>1, <3>2
  <2> QED
    BY <2>3, <2>4
<1> QED
  BY <1>1, <1>2

\* A share in use still has a thread to wait for, or one that is about to free it.
LEMMA ReaderNext ==
  ASSUME TeamInv, NEW t \in Threads, Step(t), NEW s \in Shares, NEW j \in 0 .. Last,
         serves'[s] = j
  PROVE  \/ \E u \in Threads : u \notin Left(j + 1)'
         \/ \E u \in Threads : pc'[u] \in Freeing /\ k'[u] = j + 1
<1>0. /\ serves \in [Shares -> (0 .. Last) \cup {Null}] /\ Last \in Nat /\ j + 1 \in Int
      /\ Null \notin 0 .. Last /\ k[t] \in Nat /\ prog.kind \in {"plain", "combined"}
  BY Basics, ThreadTypes DEF TeamInv, Types
<1>a. /\ Leaves(t) /\ j + 1 = k[t] => Left(j + 1)' = Left(j + 1) \cup {t}
      /\ ~(Leaves(t) /\ j + 1 = k[t]) => Left(j + 1)' = Left(j + 1)
  BY <1>0, LeftNext
<1>1. CASE \E x \in Shares : Allocates(t, x) /\ s = x
  <2>1. serves' = [serves EXCEPT ![s] = k[t]] /\ pc[t] \in {"alloc", "refill"}
    BY <1>1 DEF Allocates, InitShare
  <2>2. j = k[t]
    BY <1>0, <2>1
  <2>3. Left(j + 1)' = Left(j + 1)
    BY <1>a, <2>1 DEF Leaves, LeaveNowait, LastNowait, Arrive, At
  <2>4. t \notin Left(j + 1)
    BY <1>0, <2>2 DEF Left
  <2> QED
    BY <2>3, <2>4
<1>2. CASE ~\E x \in Shares : Allocates(t, x) /\ s = x
  <2>1. serves[s] = j /\ (Push(t) /\ listFree = snap[t] => s # last[t])
    <3>1. CASE \E x \in Shares : Allocates(t, x)
      BY <1>0, <1>2, <3>1 DEF Allocates, InitShare, Push, At
    <3>2. CASE Push(t)
      BY <1>0, <3>2 DEF Push
    <3>3. CASE ~Push(t) /\ serves' = serves
      BY <1>0, <3>3
    <3> QED
      BY <3>1, <3>2, <3>3, ServesNext
  <2>2. /\ \/ \E u \in Threads : u \notin Left(j + 1)
           \/ \E u \in Threads : pc[u] \in Freeing /\ k[u] = j + 1
        /\ prog.kind = "combined" => j # 0
    BY <1>0, <2>1 DEF TeamInv, Leaving
  <2>3. ASSUME NEW u \in Threads, pc[u] \in Freeing, k[u] = j + 1
        PROVE  pc'[u] \in Freeing /\ k'[u] = j + 1
    <3>1. CASE u # t
      BY <2>3, <3>1, OthersPlaces DEF TeamInv
    <3>2. CASE u = t
      <4>1. last[t] \in Shares /\ serves[last[t]] = j
        BY <1>0, <2>3, <3>2, InUse
      <4>2. last[t] = s
        BY <1>0, <2>1, <4>1 DEF TeamInv, Chain
      <4>3. pc[t] \in {"free", "push"} /\ ~(Push(t) /\ listFree = snap[t])
        BY <2>1, <2>3, <3>2, <4>2 DEF Freeing
      <4>4. FreeShare(t) \/ Push(t)
        BY <4>3, TeamStep DEF TeamInv, StartKnown, StartFirst, StartLater, Starts, MarkWaited,
           FutexWait, StopWaiting, AllocCached, LoadFree, AllocFreed, AllocFresh, Begin,
           Publish, Wake, LeaveNowait, LastNowait, Arrive, Release, PassBarrier, Record,
           ParallelEnd, Join, At
      <4>5. k' = k /\ pc'[t] \in Freeing
        BY <4>3, <4>4 DEF FreeShare, Push, Goto, Freeing, TeamInv, Types
      <4> QED
        BY <2>3, <3>2, <4>5
    <3> QED
      BY <3>1, <3>2
  <2>4. ASSUME NEW u \in Threads, u \notin Left(j + 1), \A v \in Threads : v \in Left(j + 1)'
        PROVE  pc'[t] \in Freeing /\ k'[t] = j + 1
    <3>1. Leaves(t) /\ j + 1 = k[t] /\ Left(j + 1)' = Left(j + 1) \cup {t}
      BY <1>a, <2>4
    <3>2. t \notin Left(k[t])
      BY <1>0, <3>1, LeftNext
    <3>3. Left(k[t]) = Threads \ {t}
      BY <2>4, <3>1, <3>2 DEF Left
    <3>4. prog.kind = "plain"
      <4>1. prog.kind = "combined" => k[t] = 1
        BY DEF TeamInv, Places, Place
      <4> QED
        BY <1>0, <2>2, <3>1, <4>1
    <3> QED
      BY <3>1, <3>3, <3>4, FreeingNext
  <2> QED
    BY <2>2, <2>3, <2>4
<1> QED
  BY <1>1, <1>2

\* Whoever frees a share is alone in doing so, and everybody has finished the next loop.
LEMMA FreersNext ==
  ASSUME TeamInv, NEW t \in Threads, Step(t), NEW v \in Threads, pc'[v] \in Freeing,
         NEW j \in Nat, k'[v] = j
  PROVE  /\ \A u \in Threads : u \in Left(j)'
         /\ \A u \in Threads : pc'[u] \in Freeing => u = v
<1>0. \A u \in Threads : k[u] \in Nat
  BY ThreadTypes DEF TeamInv
<1>a. /\ Leaves(t) /\ j = k[t] => Left(j)' = Left(j) \cup {t}
      /\ ~(Leaves(t) /\ j = k[t]) => Left(j)' = Left(j)
  BY LeftNext
<1>b. ASSUME NEW w \in Threads, pc[w] \in Freeing, pc'[t] \in Freeing
      PROVE  w = t
  <2>1. CASE pc[t] \in Freeing
    BY <1>b, <2>1 DEF TeamInv, Leaving
  <2>2. CASE pc[t] \notin Freeing
    <3>1. Leaves(t) /\ Left(k[t]) = Threads \ {t}
      BY <1>b, <2>2, FreeingNext
    <3>2. pc[t] \in Unfinished
      BY <3>1 DEF Leaves, LeaveNowait, LastNowait, Arrive, At, Unfinished
    <3>3. k[t] > k[w]
      BY <1>0, <1>b, <3>2, AllBeyond
    <3>4. w = t \/ w \in Left(k[t])
      BY <3>1
    <3>5. w \in Left(k[t]) => k[w] >= k[t]
      BY <1>0 DEF Left
    <3> QED
      BY <1>0, <3>3, <3>4, <3>5
  <2> QED
    BY <2>1, <2>2
<1>1. CASE v = t
  <2>1. \A u \in Threads : pc'[u] \in Freeing => u = v
    BY <1>1, <1>b, OthersPlaces DEF TeamInv
  <2>2. CASE pc[t] \in Freeing /\ k'[t] = k[t]
    <3>1. Left(j) = Threads
      BY <1>1, <2>2 DEF TeamInv, Leaving
    <3> QED
      BY <1>a, <2>1, <3>1
  <2>3. CASE Leaves(t) /\ k'[t] = k[t] /\ Left(k[t]) = Threads \ {t}
    BY <1>1, <1>a, <2>1, <2>3
  <2> QED
    BY <1>1, <2>2, <2>3, FreeingNext
<1>2. CASE v # t
  <2>1. pc[v] \in Freeing /\ k[v] = j
    BY <1>2, OthersPlaces DEF TeamInv
  <2>2. Left(j) = Threads
    BY <2>1 DEF TeamInv, Leaving
  <2>3. \A u \in Threads : u # t /\ pc'[u] \in Freeing => u = v
    BY <2>1, OthersPlaces DEF TeamInv, Leaving
  <2>4. pc'[t] \notin Freeing
    BY <1>2, <1>b, <2>1
  <2> QED
    BY <1>a, <2>2, <2>3, <2>4
<1> QED
  BY <1>1, <1>2

LEMMA LeavingNext ==
  ASSUME TeamInv, NEW t \in Threads, Step(t)
  PROVE  Leaving'
<1>0. /\ serves' \in [Shares -> (0 .. Last) \cup {Null}] /\ k' \in [Threads -> 0 .. Last]
      /\ prog' = prog /\ Last' = Last /\ \A j : Nowait(j)' = Nowait(j)
      /\ Last \in Nat /\ Null \notin 0 .. Last
  BY TypesNext, ProgStays, Basics DEF TeamInv, Types
<1>1. ASSUME NEW s \in Shares, serves'[s] # Null
      PROVE  /\ prog'.kind = "combined" => serves'[s] # 0
             /\ serves'[s] # 0 /\ (prog.loops[serves'[s]].end = "nowait") =>
                  completed'[s] = Cardinality(Left(serves[s])')
             /\ \/ \E u \in Threads : u \notin Left(serves[s] + 1)'
                \/ \E u \in Threads : pc'[u] \in Freeing /\ k'[u] = serves'[s] + 1
  <2>1. PICK j \in 0 .. Last : j = serves'[s]
    BY <1>0, <1>1
  <2>2. prog.kind = "combined" => j # 0
    <3>1. CASE \E x \in Shares : Allocates(t, x)
      BY <3>1, InUse DEF Allocates, Opening
    <3>2. CASE Push(t)
      BY <3>2, InUse DEF Push, At, Freeing
    <3>3. CASE serves' = serves
      BY <1>1, <2>1, <3>3 DEF TeamInv, Leaving
    <3> QED
      BY <3>1, <3>2, <3>3, ServesNext
  <2>3. j # 0 /\ Nowait(j) => completed'[s] = Cardinality(Left(j)')
    BY <2>1, CountNext
  <2>4. \/ \E u \in Threads : u \notin Left(j + 1)'
        \/ \E u \in Threads : pc'[u] \in Freeing /\ k'[u] = j + 1
    BY <2>1, ReaderNext
  <2> QED
    BY <1>0, <2>1, <2>2, <2>3, <2>4 DEF Left, Nowait
<1>2. ASSUME NEW v \in Threads, pc'[v] \in Freeing
      PROVE  /\ Left(k[v])' = Threads
             /\ \A u \in Threads : pc'[u] \in Freeing => u = v
  <2>1. PICK j \in Nat : j = k'[v]
    BY <1>0
  <2>2. /\ \A u \in Threads : u \in Left(j)'
        /\ \A u \in Threads : pc'[u] \in Freeing => u = v
    BY <1>2, <2>1, FreersNext
  <2> QED
    BY <2>1, <2>2 DEF Left
<1> QED
  BY <1>0, <1>1, <1>2 DEF Leaving, Nowait, Freeing

-----------------------------------------------------------------------------
(* Barrier.                                                                *)

\* All steps but the last two of a loop with a barrier leave its account alone.
LEMMA QuietOwn ==
  ASSUME TeamInv, NEW t \in Threads, Step(t), ~Arrive(t), ~Release(t)
  PROVE  /\ awaited' = awaited /\ gen' = gen
         /\ t \in Arrived' <=> t \in Arrived
         /\ \A j \in 1 .. Last : ~Nowait(j) => (Out(t, j)' <=> Out(t, j))
         /\ pc'[t] \in Closing =>
              \/ pc[t] \in Closing /\ k'[t] = k[t]
              \/ t \notin Arrived /\ Nowait(k'[t])
<1>0. /\ pc \in [Threads -> Labels] /\ k \in [Threads -> 0 .. Last] /\ Last \in Nat
      /\ snap \in [Threads -> Int] /\ prog' = prog /\ \A j : Nowait(j)' = Nowait(j)
  BY Basics, ProgStays DEF TeamInv, Types
<1>1. CASE StartKnown(t) \/ StartFirst(t) \/ StartLater(t)
  <2>1. /\ pc[t] = "between" /\ k' = [k EXCEPT ![t] = k[t] + 1] /\ UNCHANGED bar
        /\ pc'[t] \in {"inside", "alloc", "slow"}
    BY <1>0, <1>1 DEF StartKnown, StartFirst, StartLater, Starts, At, Goto
  <2> QED
    BY <1>0, <2>1 DEF Arrived, Out, Closing, bar
<1>2. CASE PassBarrier(t) \/ ParallelEnd(t) \/ Join(t)
  <2>1. /\ k' = k /\ pc'[t] \in {"between", "joined"} /\ UNCHANGED bar
        /\ pc[t] = "between" \/ (pc[t] = "barrier" /\ gen # snap[t])
    BY <1>0, <1>2 DEF PassBarrier, ParallelEnd, Join, At, Goto
  <2> QED
    BY <1>0, <2>1 DEF Arrived, Out, Closing, bar
<1>3. CASE LeaveNowait(t) \/ LastNowait(t)
  <2>1. /\ k' = k /\ pc[t] = "inside" /\ Nowait(k[t]) /\ UNCHANGED bar
    BY <1>3 DEF LeaveNowait, LastNowait, At, Nowait, End
  <2> QED
    BY <1>0, <2>1 DEF Arrived, Out, Closing, bar, Nowait
<1>4. CASE FreeShare(t) \/ Push(t)
  <2>1. k' = k /\ pc[t] \in Closing /\ pc'[t] \in Closing /\ UNCHANGED bar
    BY <1>0, <1>4 DEF FreeShare, Push, At, Goto, Closing
  <2> QED
    BY <1>0, <2>1 DEF Arrived, Out, Closing, bar, Nowait
<1>5. CASE Record(t)
  <2>1. /\ k' = k /\ pc[t] = "record" /\ UNCHANGED bar
        /\ pc'[t] = IF Nowait(k[t]) THEN "between" ELSE "release"
    BY <1>0, <1>5 DEF Record, At, Goto, Nowait, End
  <2> QED
    BY <1>0, <2>1 DEF Arrived, Out, Closing, bar, Nowait
<1>6. CASE MarkWaited(t) \/ FutexWait(t) \/ StopWaiting(t) \/ LoadFree(t) \/ Begin(t)
           \/ Publish(t) \/ Wake(t) \/ AllocCached(t) \/ AllocFreed(t) \/ AllocFresh(t)
  <2>1. /\ k' = k /\ pc[t] \in Unfinished /\ pc'[t] \in Unfinished /\ UNCHANGED bar
    <3>1. CASE MarkWaited(t) \/ FutexWait(t) \/ StopWaiting(t) \/ LoadFree(t)
      BY <1>0, <3>1
         DEF MarkWaited, FutexWait, StopWaiting, LoadFree, At, Goto, Unfinished, Starting
    <3>2. CASE AllocCached(t) \/ AllocFreed(t) \/ AllocFresh(t)
      BY <1>0, <3>2
         DEF AllocCached, AllocFreed, AllocFresh, InitShare, At, Goto, Unfinished, Starting
    <3>3. CASE Begin(t) \/ Publish(t) \/ Wake(t)
      BY <1>0, <3>3 DEF Begin, Publish, Wake, At, Goto, Unfinished, Starting
    <3> QED
      BY <1>6, <3>1, <3>2, <3>3
  <2> QED
    BY <1>0, <2>1 DEF Arrived, Out, Closing, Unfinished, Starting, bar
<1> QED
  BY <1>1, <1>2, <1>3, <1>4, <1>5, <1>6, TeamStep DEF TeamInv

\* The account of the other threads.
LEMMA OthersBarrier ==
  ASSUME TeamInv, NEW t \in Threads, Step(t), gen' = gen, NEW u \in Threads, u # t
  PROVE  /\ u \in Arrived' <=> u \in Arrived
         /\ \A j \in 1 .. Last : Out(u, j)' <=> Out(u, j)
<1>1. /\ k'[u] = k[u] /\ snap'[u] = snap[u]
      /\ pc'[u] \in Closing <=> pc[u] \in Closing
      /\ pc'[u] = "barrier" <=> pc[u] = "barrier"
      /\ pc'[u] = "between" <=> pc[u] = "between"
      /\ pc'[u] = "joined" <=> pc[u] = "joined"
  BY OthersPlaces DEF TeamInv, Labels
<1>2. Nowait(k[u])' <=> Nowait(k[u])
  BY <1>1, ProgStays DEF Nowait
<1> QED
  BY <1>1, <1>2 DEF Arrived, Out, Closing, Nowait

LEMMA BarrierQuiet ==
  ASSUME TeamInv, NEW t \in Threads, Step(t), ~Arrive(t), ~Release(t)
  PROVE  Barrier'
<1>0. Last' = Last /\ \A j : Nowait(j)' = Nowait(j)
  BY ProgStays
<1>1. awaited' = awaited /\ gen' = gen
  BY QuietOwn
<1>2. \A u \in Threads : /\ u \in Arrived' <=> u \in Arrived
                         /\ \A j \in 1 .. Last : ~Nowait(j) => (Out(u, j)' <=> Out(u, j))
  BY <1>1, QuietOwn, OthersBarrier
<1>3. Arrived' = Arrived
  BY <1>2 DEF Arrived
<1>4. awaited' + Cardinality(Arrived') = P
  BY <1>1, <1>3 DEF TeamInv, Barrier
<1>5. ASSUME NEW j \in 1 .. Last, ~Nowait(j)
      PROVE  \A u, v \in Threads : Out(v, j)' => Out(u, j)'
  BY <1>2, <1>5 DEF TeamInv, Barrier
<1>6. ASSUME NEW v \in Threads, pc'[v] \in Closing, ~(prog'.loops[k'[v]].end = "nowait")
      PROVE  Arrived' = Threads /\ \A u \in Threads : pc'[u] \in Closing => u = v
  <2>1. ~Nowait(k'[v])
    BY <1>6, ProgStays DEF Nowait
  <2>2. pc[v] \in Closing /\ k'[v] = k[v]
    <3>1. CASE v = t
      BY <1>6, <2>1, <3>1, QuietOwn
    <3>2. CASE v # t
      BY <1>6, <3>2, OthersPlaces DEF TeamInv
    <3> QED
      BY <3>1, <3>2
  <2>3. Arrived = Threads /\ \A u \in Threads : pc[u] \in Closing => u = v
    BY <2>1, <2>2 DEF TeamInv, Barrier
  <2>4. \A u \in Threads : pc'[u] \in Closing => pc[u] \in Closing
    BY <2>3, QuietOwn, OthersPlaces DEF TeamInv
  <2> QED
    BY <1>3, <2>3, <2>4
<1> QED
  BY <1>0, <1>4, <1>5, <1>6 DEF Barrier, Nowait, P, Closing

\* A thread arrives.
LEMMA BarrierArrive ==
  ASSUME TeamInv, NEW t \in Threads, Step(t), Arrive(t)
  PROVE  Barrier'
<1>0. /\ Last' = Last /\ prog' = prog /\ \A j : Nowait(j)' = Nowait(j)
      /\ pc \in [Threads -> Labels] /\ snap \in [Threads -> Int] /\ k[t] # 0
      /\ pc[t] = "inside" /\ ~Nowait(k[t]) /\ k' = k /\ gen' = gen /\ awaited' = awaited - 1
      /\ snap' = [snap EXCEPT ![t] = gen] /\ k[t] \in Nat
      /\ pc'[t] \in {"barrier", "free", "release", "record"}
      /\ pc'[t] \in Closing => awaited = 1
  BY ProgStays, ThreadTypes
     DEF TeamInv, Types, Arrive, At, Goto, Nowait, End, Places, Place, Closing
<1>1. /\ t \notin Arrived
      /\ \A u \in Arrived : k[u] = k[t] /\ pc[u] = "barrier" /\ snap[u] = gen
  BY <1>0, ArrivedLeft
<1>2. /\ Cardinality(Arrived) \in Nat /\ awaited \in Nat \ {0}
      /\ IsFiniteSet(Arrived) /\ Arrived \subseteq Threads
      /\ awaited = 1 => Arrived = Threads \ {t}
  BY <1>1, RoomToArrive
<1>3. \A u \in Threads : u \in Arrived' <=> u \in Arrived \/ u = t
  <2>1. t \in Arrived'
    BY <1>0 DEF Arrived, Closing, Nowait, TeamInv, Types
  <2> QED
    BY <1>0, <2>1, OthersBarrier
<1>4. Arrived' = Arrived \cup {t}
  BY <1>2, <1>3 DEF Arrived
<1>5. awaited' + Cardinality(Arrived') = P
  <2>1. Cardinality(Arrived') = Cardinality(Arrived) + 1
    BY <1>1, <1>2, <1>4, FS_AddElement
  <2>2. awaited + Cardinality(Arrived) = P
    BY DEF TeamInv, Barrier
  <2> QED
    BY <1>0, <1>2, <2>1, <2>2
<1>6. ASSUME NEW j \in 1 .. Last, ~Nowait(j)
      PROVE  \A u, v \in Threads : Out(v, j)' => Out(u, j)'
  <2>1. Out(t, j)' <=> Out(t, j)
    BY <1>0 DEF Out, TeamInv, Types, Closing
  <2> QED
    BY <1>0, <1>6, <2>1, OthersBarrier DEF TeamInv, Barrier
<1>7. ASSUME NEW v \in Threads, pc'[v] \in Closing, ~(prog'.loops[k'[v]].end = "nowait")
      PROVE  Arrived' = Threads /\ \A u \in Threads : pc'[u] \in Closing => u = v
  <2>1. v = t
    <3>1. SUFFICES ASSUME v # t
                   PROVE  FALSE
      OBVIOUS
    <3>2. pc[v] \in Closing /\ ~Nowait(k[v])
      BY <1>0, <1>7, <3>1, OthersPlaces DEF Nowait, TeamInv
    <3> QED
      BY <1>1, <3>2 DEF TeamInv, Barrier
  <2>2. awaited = 1 /\ Arrived = Threads \ {t}
    BY <1>0, <1>2, <1>7, <2>1
  <2>3. \A u \in Threads : u # t => pc[u] \notin Closing
    BY <1>1, <2>2 DEF Closing
  <2> QED
    BY <1>4, <2>1, <2>2, <2>3, OthersPlaces DEF TeamInv
<1> QED
  BY <1>0, <1>5, <1>6, <1>7 DEF Barrier, Nowait, P, Closing

\* The last thread lets everybody go.
LEMMA BarrierRelease ==
  ASSUME TeamInv, NEW t \in Threads, Step(t), Release(t)
  PROVE  Barrier'
<1>0. /\ Last' = Last /\ prog' = prog /\ \A j : Nowait(j)' = Nowait(j)
      /\ pc \in [Threads -> Labels] /\ k \in [Threads -> 0 .. Last] /\ Last \in Nat
      /\ pc[t] = "release" /\ pc' = [pc EXCEPT ![t] = "between"] /\ k' = k /\ snap' = snap
      /\ gen' = gen + 1 /\ awaited' = P /\ gen \in Nat /\ P \in Nat
  BY ProgStays, Basics DEF TeamInv, Types, Release, At, Goto
<1>1. ~Nowait(k[t]) /\ k[t] # 0
  BY <1>0 DEF TeamInv, Places, Place
<1>2. /\ Arrived = Threads /\ \A u \in Threads : pc[u] \in Closing => u = t
  BY <1>0, <1>1 DEF TeamInv, Barrier, Closing
<1>3. \A u \in Threads : /\ k[u] # 0 /\ ~Nowait(k[u])
                         /\ u # t => pc[u] = "barrier" /\ snap[u] = gen
  BY <1>2 DEF Arrived
<1>4. \A u \in Threads : k[u] = k[t]
  <2>1. \A u \in Threads : ~Out(u, k[u])
    BY <1>0, <1>3 DEF Out
  <2>2. \A u \in Threads : ~Out(u, k[t]) /\ ~Out(t, k[u])
    BY <1>0, <1>3, <2>1 DEF TeamInv, Barrier
  <2> QED
    BY <1>0, <2>2 DEF Out
<1>5. Arrived' = {}
  BY <1>0, <1>3 DEF Arrived, Closing
<1>6. awaited' + Cardinality(Arrived') = P
  BY <1>0, <1>5, FS_EmptySet
<1>7. ASSUME NEW j \in 1 .. Last
      PROVE  \A u, v \in Threads : Out(v, j)' => Out(u, j)'
  BY <1>0, <1>3, <1>4 DEF Out
<1>8. \A v \in Threads : pc'[v] \notin Closing
  BY <1>0, <1>2 DEF Closing
<1> QED
  BY <1>0, <1>6, <1>7, <1>8 DEF Barrier, P, Closing

LEMMA BarrierNext ==
  ASSUME TeamInv, NEW t \in Threads, Step(t)
  PROVE  Barrier'
BY BarrierQuiet, BarrierArrive, BarrierRelease

-----------------------------------------------------------------------------
(* Lists.                                                                  *)

\* What the lists mean to a thread that allocates or frees a share.
LEMMA ListThreads ==
  ASSUME TeamInv, NEW t \in Threads, Step(t), NEW u \in Threads, u # t
  PROVE  /\ snap'[u] = snap[u] /\ last'[u] = last[u]
         /\ pc'[u] = "refill" <=> pc[u] = "refill"
         /\ pc'[u] = "push" <=> pc[u] = "push"
         /\ pc[u] = "refill" => pc[t] \notin {"alloc", "refill"}
         /\ pc[u] = "push" =>
              /\ pc[t] \notin Freeing
              /\ last[u] \in Shares /\ serves[last[u]] # Null /\ last[u] < made
<1>1. /\ snap'[u] = snap[u] /\ last'[u] = last[u]
      /\ pc'[u] = "refill" <=> pc[u] = "refill"
      /\ pc'[u] = "push" <=> pc[u] = "push"
  BY OthersPlaces DEF TeamInv, Labels
<1>2. pc[u] = "refill" => pc[t] \notin {"alloc", "refill"}
  BY DEF TeamInv, OneOpens, Opening
<1>3. pc[u] = "push" => pc[t] \notin Freeing
  BY DEF TeamInv, Leaving, Freeing
<1>4. pc[u] = "push" => last[u] \in Shares /\ serves[last[u]] # Null /\ last[u] < made
  BY InUse DEF TeamInv, Chain, Freeing
<1> QED
  BY <1>1, <1>2, <1>3, <1>4

LEMMA ListsAllocCached ==
  ASSUME TeamInv, NEW t \in Threads, Step(t), AllocCached(t)
  PROVE  Lists'
<1> DEFINE x == listAlloc
<1>0. /\ serves \in [Shares -> (0 .. Last) \cup {Null}] /\ pc \in [Threads -> Labels]
      /\ k[t] \in 0 .. Last /\ Null \notin 0 .. Last /\ Lists
  BY Basics, ThreadTypes DEF TeamInv, Types
<1>1. /\ pc[t] = "alloc" /\ x # Null /\ listAlloc' = nextFree[x]
      /\ serves' = [serves EXCEPT ![x] = k[t]] /\ pc' = [pc EXCEPT ![t] = "begin"]
      /\ nextFree' = nextFree /\ listFree' = listFree /\ made' = made
  BY DEF AllocCached, InitShare, At, Goto
<1>2. x \in Free /\ x \in Shares
  BY <1>0, <1>1, FreeFacts DEF Lists
<1>3. Free' = Free \ {x}
  BY <1>0, <1>1, <1>2 DEF Free
<1>4. /\ listAlloc' # Null => listAlloc' \in Free'
      /\ listFree' # Null => listFree' \in Free'
      /\ listAlloc' = listFree' => listAlloc' = Null
  BY <1>0, <1>1, <1>2, <1>3 DEF Lists
<1>5. ASSUME NEW s \in Free', nextFree'[s] # Null
      PROVE  /\ nextFree'[s] \in Free' \ {listAlloc', listFree'}
             /\ \A a \in Free' : nextFree'[a] = nextFree'[s] => a = s
  <2>1. s \in Free /\ s # x /\ nextFree[s] # Null
    BY <1>1, <1>3, <1>5
  <2>2. /\ nextFree[s] \in Free \ {x, listFree}
        /\ \A a \in Free : nextFree[a] = nextFree[s] => a = s
    BY <1>0, <2>1 DEF Lists
  <2> QED
    BY <1>1, <1>2, <1>3, <2>1, <2>2
<1>6. ASSUME NEW u \in Threads
      PROVE  /\ pc'[u] # "refill"
             /\ pc'[u] = "push" => nextFree'[last'[u]] = snap'[u]
  BY <1>0, <1>1, ListThreads DEF Lists
<1> QED
  BY <1>4, <1>5, <1>6 DEF Lists

LEMMA ListsAllocFreed ==
  ASSUME TeamInv, NEW t \in Threads, Step(t), AllocFreed(t)
  PROVE  Lists'
<1> DEFINE x == nextFree[snap[t]]
<1>0. /\ serves \in [Shares -> (0 .. Last) \cup {Null}] /\ pc \in [Threads -> Labels]
      /\ nextFree \in [Shares -> Shares \cup {Null}]
      /\ k[t] \in 0 .. Last /\ Null \notin 0 .. Last /\ Lists
  BY Basics, ThreadTypes DEF TeamInv, Types
<1>1. /\ pc[t] = "refill" /\ snap[t] # Null /\ x # Null /\ listAlloc' = nextFree[x]
      /\ serves' = [serves EXCEPT ![x] = k[t]] /\ pc' = [pc EXCEPT ![t] = "begin"]
      /\ nextFree' = [nextFree EXCEPT ![snap[t]] = Null]
      /\ listFree' = listFree /\ made' = made
  BY DEF AllocFreed, InitShare, At, Goto
<1>2. /\ snap[t] \in Free /\ x # snap[t] /\ x \in Free \ {listAlloc, listFree}
      /\ \A a \in Free : nextFree[a] = x => a = snap[t]
  BY <1>0, <1>1 DEF Lists
<1>3. x \in Shares /\ snap[t] \in Shares
  BY <1>2, FreeFacts
<1>4. Free' = Free \ {x}
  BY <1>0, <1>1, <1>3 DEF Free
<1>5. nextFree[x] # Null =>
        /\ nextFree[x] \in Free \ {x, listFree}
        /\ \A a \in Free : nextFree[a] = nextFree[x] => a = x
  BY <1>0, <1>2 DEF Lists
<1>6. /\ listAlloc' # Null => listAlloc' \in Free'
      /\ listFree' # Null => listFree' \in Free'
      /\ listAlloc' = listFree' => listAlloc' = Null
  BY <1>0, <1>1, <1>2, <1>4, <1>5 DEF Lists
<1>7. ASSUME NEW s \in Free', nextFree'[s] # Null
      PROVE  /\ nextFree'[s] \in Free' \ {listAlloc', listFree'}
             /\ \A a \in Free' : nextFree'[a] = nextFree'[s] => a = s
  <2>1. s \in Free /\ s # x /\ s \in Shares
    BY <1>4, <1>7, FreeFacts
  <2>2. s # snap[t] /\ nextFree'[s] = nextFree[s]
    BY <1>0, <1>1, <1>3, <1>7, <2>1
  <2>3. /\ nextFree[s] \in Free \ {listAlloc, listFree}
        /\ \A a \in Free : nextFree[a] = nextFree[s] => a = s
    BY <1>0, <1>7, <2>1, <2>2 DEF Lists
  <2>4. nextFree[s] # x /\ nextFree[s] # nextFree[x]
    BY <1>2, <1>7, <2>1, <2>2, <2>3
  <2>5. \A a \in Free' : a \in Free /\ a \in Shares
    BY <1>4, FreeFacts
  <2>6. \A a \in Free' : nextFree'[a] = nextFree[a] \/ nextFree'[a] = Null
    BY <1>0, <1>1, <1>3, <2>5
  <2> QED
    BY <1>1, <1>4, <1>7, <2>2, <2>3, <2>4, <2>5, <2>6
<1>8. ASSUME NEW u \in Threads
      PROVE  /\ pc'[u] # "refill"
             /\ pc'[u] = "push" => nextFree'[last'[u]] = snap'[u]
  <2>1. CASE u = t
    BY <1>0, <1>1, <2>1
  <2>2. CASE u # t
    <3>1. pc'[u] # "refill"
      BY <1>1, <2>2, ListThreads
    <3>2. ASSUME pc'[u] = "push"
          PROVE  nextFree'[last'[u]] = snap'[u]
      <4>1. pc[u] = "push" /\ last[u] \in Shares /\ serves[last[u]] # Null
            /\ last'[u] = last[u] /\ snap'[u] = snap[u]
        BY <2>2, <3>2, ListThreads
      <4>2. nextFree[last[u]] = snap[u] /\ last[u] # snap[t]
        BY <1>0, <1>2, <4>1, FreeFacts DEF Lists
      <4> QED
        BY <1>0, <1>1, <4>1, <4>2
    <3> QED
      BY <3>1, <3>2
  <2> QED
    BY <2>1, <2>2
<1> QED
  BY <1>6, <1>7, <1>8 DEF Lists

LEMMA ListsAllocFresh ==
  ASSUME TeamInv, NEW t \in Threads, Step(t), AllocFresh(t)
  PROVE  Lists'
<1>0. /\ serves \in [Shares -> (0 .. Last) \cup {Null}] /\ pc \in [Threads -> Labels]
      /\ nextFree \in [Shares -> Shares \cup {Null}] /\ Shares = 0 .. MaxShares - 1
      /\ k[t] \in 0 .. Last /\ Null \notin 0 .. Last /\ Null = -1 /\ Lists
      /\ made \in Nat /\ chunk \in Nat \ {0} /\ MaxShares \in Nat
  <2>1. Shares = 0 .. MaxShares - 1 /\ MaxShares \in Nat /\ Null = -1
    BY WorkShareAssumption DEF Shares, Null
  <2> QED
    BY <2>1, Basics, ThreadTypes DEF TeamInv, Types
<1>1. /\ pc[t] = "refill" /\ listAlloc' = made + 1 /\ listFree' = listFree
      /\ serves' = [serves EXCEPT ![made] = k[t]] /\ pc' = [pc EXCEPT ![t] = "begin"]
      /\ nextFree' = [s \in Shares |-> IF made < s /\ s + 1 < made' THEN s + 1
                                       ELSE IF made <= s /\ s < made' THEN Null
                                       ELSE nextFree[s]]
      /\ made' = made + 2 * chunk /\ made' <= MaxShares
  BY DEF AllocFresh, InitShare, At, Goto
<1>2. /\ made + 1 < made' /\ made' \in Nat /\ made \in Shares
  BY <1>0, <1>1
<1>3. \A s \in Shares : s \in Free' <=> s \in Free \/ (made < s /\ s < made')
  <2>1. \A s \in Shares : serves[s] # Null => s < made
    BY DEF TeamInv, Chain
  <2> QED
    BY <1>0, <1>1, <1>2, <2>1 DEF Free
<1>4. /\ \A s \in Free : s \in Shares /\ s < made
      /\ \A s \in Free' : s \in Shares
  BY DEF Free
<1>5. \A s \in Free : nextFree'[s] = nextFree[s]
  BY <1>0, <1>1, <1>2, <1>4
<1>6. \A s \in Shares : made < s /\ s < made' =>
        nextFree'[s] = IF s + 1 < made' THEN s + 1 ELSE Null
  BY <1>0, <1>1, <1>2
<1>7. /\ listAlloc' \in Free' /\ listAlloc' # listFree'
      /\ listFree' # Null => listFree' \in Free'
  <2>1. made + 1 \in Shares
    BY <1>0, <1>1, <1>2
  <2>2. listFree = Null \/ listFree \in Free
    BY <1>0 DEF Lists
  <2> QED
    BY <1>0, <1>1, <1>2, <1>3, <1>4, <2>1, <2>2
<1>8. ASSUME NEW s \in Free', nextFree'[s] # Null
      PROVE  /\ nextFree'[s] \in Free' \ {listAlloc', listFree'}
             /\ \A a \in Free' : nextFree'[a] = nextFree'[s] => a = s
  <2>1. CASE s \in Free
    <3>1. /\ nextFree'[s] = nextFree[s] /\ nextFree[s] \in Free \ {listAlloc, listFree}
          /\ \A a \in Free : nextFree[a] = nextFree[s] => a = s
      BY <1>0, <1>5, <1>8, <2>1 DEF Lists
    <3>2. nextFree[s] < made /\ nextFree[s] \in Nat /\ nextFree[s] \in Shares
      BY <1>0, <1>4, <3>1
    <3>3. \A a \in Free' : a \notin Free => nextFree'[a] # nextFree[s]
      BY <1>0, <1>2, <1>3, <1>4, <1>6, <3>2
    <3>4. nextFree[s] # listAlloc'
      BY <1>0, <1>1, <3>2
    <3> QED
      BY <1>1, <1>3, <1>5, <3>1, <3>2, <3>3, <3>4
  <2>2. CASE s \notin Free
    <3>1. s \in Shares /\ made < s /\ s < made' /\ s + 1 < made' /\ nextFree'[s] = s + 1
      BY <1>3, <1>4, <1>6, <1>8, <2>2
    <3>2. s + 1 \in Free' /\ s + 1 # listAlloc'
      BY <1>0, <1>1, <1>2, <1>3, <3>1
    <3>3. s + 1 # listFree'
      <4>1. listFree = Null \/ listFree \in Free
        BY <1>0 DEF Lists
      <4> QED
        BY <1>0, <1>1, <1>4, <3>1, <4>1
    <3>4. ASSUME NEW a \in Free', nextFree'[a] = s + 1
          PROVE  a = s
      <4>1. CASE a \in Free
        <5>1. nextFree[a] = s + 1 /\ nextFree[a] # Null
          BY <1>0, <1>5, <3>1, <3>4, <4>1
        <5>2. nextFree[a] \in Free
          BY <1>0, <4>1, <5>1 DEF Lists
        <5> QED
          BY <1>0, <1>4, <3>1, <5>1, <5>2
      <4>2. CASE a \notin Free
        BY <1>0, <1>3, <1>4, <1>6, <3>1, <3>4, <4>2, SMTT(20)
      <4> QED
        BY <4>1, <4>2
    <3> QED
      BY <3>1, <3>2, <3>3, <3>4
  <2> QED
    BY <2>1, <2>2
<1>9. ASSUME NEW u \in Threads
      PROVE  /\ pc'[u] # "refill"
             /\ pc'[u] = "push" => nextFree'[last'[u]] = snap'[u]
  <2>1. CASE u = t
    BY <1>0, <1>1, <2>1
  <2>2. CASE u # t
    <3>1. pc'[u] # "refill"
      BY <1>1, <2>2, ListThreads
    <3>2. ASSUME pc'[u] = "push"
          PROVE  nextFree'[last'[u]] = snap'[u]
      <4>1. pc[u] = "push" /\ last[u] \in Shares /\ last[u] < made
            /\ last'[u] = last[u] /\ snap'[u] = snap[u]
        BY <2>2, <3>2, ListThreads
      <4>2. nextFree[last[u]] = snap[u]
        BY <1>0, <4>1 DEF Lists
      <4> QED
        BY <1>0, <1>1, <4>1, <4>2
    <3> QED
      BY <3>1, <3>2
  <2> QED
    BY <2>1, <2>2
<1> QED
  BY <1>0, <1>7, <1>8, <1>9 DEF Lists

LEMMA ListsLoadFree ==
  ASSUME TeamInv, NEW t \in Threads, Step(t), LoadFree(t)
  PROVE  Lists'
<1>0. /\ pc \in [Threads -> Labels] /\ snap \in [Threads -> Int] /\ Lists
  BY DEF TeamInv, Types
<1>1. /\ pc[t] = "alloc" /\ listAlloc = Null /\ snap' = [snap EXCEPT ![t] = listFree]
      /\ pc' = [pc EXCEPT ![t] = "refill"] /\ UNCHANGED <<lists, serves, last>>
  BY DEF LoadFree, At, Goto
<1>2. Free' = Free /\ nextFree' = nextFree /\ listAlloc' = listAlloc /\ listFree' = listFree
  BY <1>1 DEF Free, lists
<1>3. ASSUME NEW u \in Threads
      PROVE  /\ pc'[u] = "refill" =>
                  /\ listAlloc' = Null
                  /\ snap'[u] # Null => snap'[u] \in Free' /\ nextFree'[snap'[u]] # snap'[u]
             /\ pc'[u] = "push" => nextFree'[last'[u]] = snap'[u]
  <2>1. CASE u = t
    <3>1. snap'[u] = listFree /\ pc'[u] = "refill"
      BY <1>0, <1>1, <2>1
    <3>2. listFree # Null => listFree \in Free /\ nextFree[listFree] # listFree
      BY <1>0 DEF Lists
    <3> QED
      BY <1>1, <1>2, <3>1, <3>2
  <2>2. CASE u # t
    BY <1>0, <1>2, <2>2, ListThreads DEF Lists
  <2> QED
    BY <2>1, <2>2
<1> QED
  BY <1>0, <1>2, <1>3 DEF Lists

LEMMA ListsFreeShare ==
  ASSUME TeamInv, NEW t \in Threads, Step(t), FreeShare(t)
  PROVE  Lists'
<1>0. /\ pc \in [Threads -> Labels] /\ snap \in [Threads -> Int] /\ Lists
      /\ nextFree \in [Shares -> Shares \cup {Null}]
  BY DEF TeamInv, Types
<1>1. /\ pc[t] = "free" /\ snap' = [snap EXCEPT ![t] = listFree]
      /\ nextFree' = [nextFree EXCEPT ![last[t]] = listFree]
      /\ pc' = [pc EXCEPT ![t] = "push"] /\ UNCHANGED <<listAlloc, listFree, made, serves, last>>
  BY DEF FreeShare, At, Goto
<1>2. last[t] \in Shares /\ serves[last[t]] # Null
  BY <1>1, InUse DEF Freeing
<1>3. Free' = Free /\ listAlloc' = listAlloc /\ listFree' = listFree
  BY <1>1 DEF Free
<1>4. \A s \in Free : nextFree'[s] = nextFree[s]
  BY <1>0, <1>1, <1>2 DEF Free
<1>5. ASSUME NEW u \in Threads
      PROVE  /\ pc'[u] = "refill" =>
                  /\ listAlloc' = Null
                  /\ snap'[u] # Null => snap'[u] \in Free' /\ nextFree'[snap'[u]] # snap'[u]
             /\ pc'[u] = "push" => nextFree'[last'[u]] = snap'[u]
  <2>1. CASE u = t
    BY <1>0, <1>1, <1>2, <2>1
  <2>2. CASE u # t
    <3>1. pc'[u] # "push"
      BY <1>1, <2>2, ListThreads DEF Freeing
    <3> QED
      BY <1>0, <1>3, <1>4, <2>2, <3>1, ListThreads DEF Lists
  <2> QED
    BY <2>1, <2>2
<1>6. ASSUME NEW s \in Free', nextFree'[s] # Null
      PROVE  /\ nextFree'[s] \in Free' \ {listAlloc', listFree'}
             /\ \A a \in Free' : nextFree'[a] = nextFree'[s] => a = s
  BY <1>0, <1>3, <1>4, <1>6 DEF Lists
<1>7. /\ listAlloc' # Null => listAlloc' \in Free'
      /\ listFree' # Null => listFree' \in Free'
      /\ listAlloc' = listFree' => listAlloc' = Null
  BY <1>0, <1>3 DEF Lists
<1> QED
  BY <1>5, <1>6, <1>7 DEF Lists

LEMMA ListsPush ==
  ASSUME TeamInv, NEW t \in Threads, Step(t), Push(t), listFree = snap[t]
  PROVE  Lists'
<1>0. /\ pc \in [Threads -> Labels] /\ Lists
      /\ serves \in [Shares -> (0 .. Last) \cup {Null}]
      /\ nextFree \in [Shares -> Shares \cup {Null}]
  BY DEF TeamInv, Types
<1> DEFINE x == last[t]
<1>1. /\ pc[t] = "push" /\ listFree' = x /\ serves' = [serves EXCEPT ![x] = Null]
      /\ pc' = [pc EXCEPT ![t] = "record"] /\ UNCHANGED <<nextFree, listAlloc, made, last, snap>>
  BY DEF Push, At, Goto
<1>2. x \in Shares /\ serves[x] # Null /\ x < made /\ Null \notin Shares
  BY <1>1, InUse, Basics DEF Freeing, TeamInv, Chain
<1>3. nextFree[x] = listFree
  BY <1>0, <1>1 DEF Lists
<1>4. Free' = Free \cup {x} /\ x \notin Free
  BY <1>0, <1>1, <1>2 DEF Free
<1>5. /\ listAlloc' # Null => listAlloc' \in Free'
      /\ listFree' \in Free'
      /\ listAlloc' # listFree'
  BY <1>0, <1>1, <1>2, <1>4 DEF Lists
<1>6. ASSUME NEW s \in Free', nextFree'[s] # Null
      PROVE  /\ nextFree'[s] \in Free' \ {listAlloc', listFree'}
             /\ \A a \in Free' : nextFree'[a] = nextFree'[s] => a = s
  <2>1. CASE s = x
    <3>1. nextFree'[s] = listFree /\ listFree \in Free /\ listFree # listAlloc
      BY <1>0, <1>1, <1>3, <1>6, <2>1 DEF Lists
    <3>2. \A a \in Free : nextFree[a] # listFree
      BY <1>0, <1>1, <1>6, <3>1 DEF Lists
    <3> QED
      BY <1>1, <1>4, <2>1, <3>1, <3>2
  <2>2. CASE s \in Free
    <3>1. /\ nextFree'[s] = nextFree[s] /\ nextFree[s] \in Free \ {listAlloc, listFree}
          /\ \A a \in Free : nextFree[a] = nextFree[s] => a = s
      BY <1>0, <1>1, <1>6, <2>2 DEF Lists
    <3> QED
      BY <1>1, <1>3, <1>4, <3>1
  <2> QED
    BY <1>4, <2>1, <2>2
<1>7. ASSUME NEW u \in Threads
      PROVE  /\ pc'[u] = "refill" =>
                  /\ listAlloc' = Null
                  /\ snap'[u] # Null => snap'[u] \in Free' /\ nextFree'[snap'[u]] # snap'[u]
             /\ pc'[u] = "push" => nextFree'[last'[u]] = snap'[u]
  <2>1. CASE u = t
    BY <1>0, <1>1, <2>1
  <2>2. CASE u # t
    <3>1. pc'[u] # "push"
      BY <1>1, <2>2, ListThreads DEF Freeing
    <3> QED
      BY <1>0, <1>1, <1>4, <2>2, <3>1, ListThreads DEF Lists
  <2> QED
    BY <2>1, <2>2
<1> QED
  BY <1>5, <1>6, <1>7 DEF Lists

\* Every other step.
LEMMA ListsQuiet ==
  ASSUME TeamInv, NEW t \in Threads, Step(t), UNCHANGED <<lists, serves>>,
         pc'[t] \notin {"refill", "push"}
  PROVE  Lists'
<1>1. /\ Free' = Free /\ nextFree' = nextFree /\ listAlloc' = listAlloc
      /\ listFree' = listFree /\ Lists
  BY DEF Free, lists, TeamInv
<1>2. ASSUME NEW u \in Threads
      PROVE  /\ pc'[u] = "refill" =>
                  /\ listAlloc' = Null
                  /\ snap'[u] # Null => snap'[u] \in Free' /\ nextFree'[snap'[u]] # snap'[u]
             /\ pc'[u] = "push" => nextFree'[last'[u]] = snap'[u]
  <2>1. CASE u = t
    BY <2>1
  <2>2. CASE u # t
    BY <1>1, <2>2, ListThreads DEF Lists
  <2> QED
    BY <2>1, <2>2
<1> QED
  BY <1>1, <1>2 DEF Lists

LEMMA ListsNext ==
  ASSUME TeamInv, NEW t \in Threads, Step(t)
  PROVE  Lists'
<1>0. pc \in [Threads -> Labels]
  BY DEF TeamInv, Types
<1>1. CASE StartKnown(t) \/ StartFirst(t) \/ StartLater(t) \/ MarkWaited(t) \/ FutexWait(t)
           \/ StopWaiting(t)
  BY <1>0, <1>1, ListsQuiet DEF StartKnown, StartFirst, StartLater, MarkWaited, FutexWait,
     StopWaiting, Goto
<1>2. CASE Begin(t) \/ Publish(t) \/ Wake(t) \/ LeaveNowait(t) \/ LastNowait(t)
  BY <1>0, <1>2, ListsQuiet DEF Begin, Publish, Wake, LeaveNowait, LastNowait, Goto
<1>3. CASE Arrive(t) \/ Release(t) \/ PassBarrier(t)
  BY <1>0, <1>3, ListsQuiet DEF Arrive, Release, PassBarrier, Goto
<1>4. CASE Record(t) \/ ParallelEnd(t) \/ Join(t)
  BY <1>0, <1>4, ListsQuiet DEF Record, ParallelEnd, Join, Goto
<1>5. CASE Push(t)
  <2>1. CASE listFree # snap[t]
    BY <1>0, <1>5, <2>1, ListsQuiet DEF Push, Goto, lists
  <2> QED
    BY <1>5, <2>1, ListsPush
<1> QED
  BY <1>1, <1>2, <1>3, <1>4, <1>5, TeamStep, ListsAllocCached, ListsAllocFreed,
     ListsAllocFresh, ListsLoadFree, ListsFreeShare DEF TeamInv

-----------------------------------------------------------------------------
(* The invariant holds, and no thread is ever in a share that was freed.   *)

\* All shares of the team but the first are on list_alloc, in their order.
LEMMA InitLists ==
  ASSUME Init
  PROVE  Lists /\ \A s : s \in Free <=> s \in Shares /\ 0 < s /\ s < Inline
<1>1. /\ Shares = 0 .. MaxShares - 1 /\ MaxShares \in Nat /\ Inline \in Nat \ {0}
      /\ Inline <= MaxShares /\ Null = -1 /\ Master \in Threads /\ 0 \in Shares
  BY WorkShareAssumption DEF Shares, Null
<1>2. /\ made = Inline /\ listFree = Null /\ listAlloc = IF 1 < Inline THEN 1 ELSE Null
      /\ \A s \in Shares : nextFree[s] = IF 0 < s /\ s + 1 < Inline THEN s + 1 ELSE Null
  BY DEF Init
<1>3. \A s \in Shares : serves[s] = IF s # 0 THEN Null
                                    ELSE IF prog.kind = "combined" THEN 1 ELSE 0
  BY <1>1 DEF Init
<1>4. \A s : s \in Free <=> s \in Shares /\ 0 < s /\ s < Inline
  BY <1>1, <1>2, <1>3 DEF Free
<1>5. listAlloc # Null => listAlloc \in Free
  BY <1>1, <1>2, <1>4
<1>6. ASSUME NEW s \in Free, nextFree[s] # Null
      PROVE  /\ nextFree[s] \in Free \ {listAlloc, listFree}
             /\ \A a \in Free : nextFree[a] = nextFree[s] => a = s
  BY <1>1, <1>2, <1>4, <1>6
<1>7. \A t \in Threads : pc[t] \notin {"refill", "push"}
  <2>1. prog.kind \in Kinds
    BY WorkShareAssumption DEF Init
  <2> QED
    BY <2>1 DEF Init, Kinds
<1> QED
  BY <1>2, <1>4, <1>5, <1>6, <1>7 DEF Lists

LEMMA InitInvariant ==
  ASSUME Init, prog.kind # "orphan"
  PROVE  TeamInv
<1>0. /\ prog \in Programs /\ prog.kind \in {"plain", "combined"}
      /\ Last \in Nat /\ (prog.kind = "combined" => Last = 1)
  BY WorkShareAssumption DEF Init, Kinds, Last
<1>a. /\ Shares = 0 .. MaxShares - 1 /\ MaxShares \in Nat /\ Inline \in Nat \ {0}
      /\ Inline <= MaxShares /\ Null = -1 /\ Owned = -2 /\ Waited = -3 /\ Master \in Threads
      /\ 0 \in Shares
  BY WorkShareAssumption DEF Shares, Null, Owned, Waited
<1>b. P \in Nat \ {0} /\ IsFiniteSet(Threads)
  BY WorkShareAssumption, FS_CardinalityType, FS_EmptySet DEF P
<1>c. /\ \A t \in Threads : /\ k[t] = IF prog.kind = "combined" THEN 1 ELSE 0
                            /\ pc[t] = IF prog.kind = "combined" THEN "inside" ELSE "between"
                            /\ ws[t] = 0 /\ last[t] = Null /\ snap[t] = 0
      /\ \A s \in Shares : serves[s] = IF s # 0 THEN Null
                                       ELSE IF prog.kind = "combined" THEN 1 ELSE 0
  BY <1>0, <1>a DEF Init
<1>1. Types
  <2>1. pc \in [Threads -> Labels]
    BY <1>0 DEF Init, Labels
  <2>2. k \in [Threads -> 0 .. Last]
    BY <1>0 DEF Init
  <2>3. ws \in [Threads -> Shares] /\ last \in [Threads -> Shares \cup {Null}]
        /\ snap \in [Threads -> Int]
    BY <1>0, <1>a DEF Init
  <2>4. serves \in [Shares -> (0 .. Last) \cup {Null}]
    BY <1>0, <1>a, <1>c DEF Init
  <2>5. /\ nextWs \in [Shares -> Shares \cup {Null, Owned, Waited}]
        /\ completed \in [Shares -> Nat]
    BY DEF Init
  <2>6. /\ nextFree \in [Shares -> Shares \cup {Null}]
        /\ listAlloc \in Shares \cup {Null} /\ listFree \in Shares \cup {Null}
    BY <1>a DEF Init
  <2>7. /\ chunk \in Nat \ {0} /\ made \in 0 .. MaxShares /\ awaited \in Nat /\ gen \in Nat
    BY <1>a, <1>b DEF Init
  <2> QED
    BY <1>0, <2>1, <2>2, <2>3, <2>4, <2>5, <2>6, <2>7 DEF Types
<1>2. Places
  BY <1>0, <1>a, <1>c
     DEF Places, Place, Cur, Starting, Opening, Freeing, Unfinished
<1>3. Chain
  <2>1. \A u \in Threads : Entered(u) = k[u] /\ Cur(u) = k[u]
    BY <1>c DEF Entered, Cur, Starting
  <2>2. made = Inline /\ \A s \in Shares : nextWs[s] = Null
    BY DEF Init
  <2> QED
    BY <1>a, <1>c, <2>1, <2>2 DEF Chain
<1>4. OneOpens
  BY <1>c DEF OneOpens, Opening
<1>5. Leaving
  <2>1. \A u \in Threads : pc[u] \notin Freeing
    BY <1>c DEF Freeing
  <2>2. \A j \in Nat \ {0} : Left(j) = {}
    BY <1>c DEF Left, Unfinished
  <2>3. \A s \in Shares : completed[s] = 0
    BY DEF Init
  <2>4. \A s \in Shares : serves[s] # Null =>
          /\ serves[s] \in Nat /\ serves[s] + 1 \in Nat \ {0}
          /\ prog.kind = "combined" => serves[s] # 0
    BY <1>0, <1>a, <1>c
  <2> QED
    BY <1>a, <2>1, <2>2, <2>3, <2>4, FS_EmptySet DEF Leaving
<1>6. Barrier
  <2>1. Arrived = {}
    BY <1>c DEF Arrived, Closing
  <2>2. awaited + Cardinality(Arrived) = P
    BY <1>b, <2>1, FS_EmptySet DEF Init
  <2>3. \A u \in Threads : \A j \in 1 .. Last : ~Out(u, j)
    BY <1>0, <1>c DEF Out
  <2>4. \A u \in Threads : pc[u] \notin Closing
    BY <1>c DEF Closing
  <2> QED
    BY <2>2, <2>3, <2>4 DEF Barrier
<1>7. Lists
  BY InitLists
<1> QED
  BY <1>1, <1>2, <1>3, <1>4, <1>5, <1>6, <1>7 DEF TeamInv

LEMMA StepInvariant ==
  ASSUME TeamInv, [Next]_vars
  PROVE  TeamInv'
<1>1. CASE Next
  <2>1. PICK t \in Threads : Step(t)
    BY <1>1 DEF Next
  <2> QED
    BY <2>1, TypesNext, PlacesNext, ChainNext, OneOpensNext, LeavingNext, BarrierNext,
       ListsNext DEF TeamInv
<1>2. CASE UNCHANGED vars
  <2>1. UNCHANGED <<prog, nextWs, completed, nextFree, listAlloc, listFree, chunk, made, awaited,
                    gen, pc, k, ws, last, snap, serves>>
    BY <1>2 DEF vars, lists, bar, timing
  <2>2. Types' /\ Places'
    BY <2>1 DEF TeamInv, Types, Places, Place, Cur, Nowait, Last
  <2>3. Chain' /\ OneOpens'
    BY <2>1 DEF TeamInv, Chain, OneOpens, Cur, Entered
  <2>4. Leaving'
    BY <2>1 DEF TeamInv, Leaving, Left, Nowait
  <2>5. Barrier'
    <3>1. Arrived' = Arrived /\ \A u, j : Out(u, j)' <=> Out(u, j)
      BY <2>1 DEF Arrived, Out, Nowait
    <3> QED
      BY <2>1, <3>1 DEF TeamInv, Barrier, Nowait, Last
  <2>6. Lists'
    BY <2>1 DEF TeamInv, Lists, Free
  <2> QED
    BY <2>2, <2>3, <2>4, <2>5, <2>6 DEF TeamInv
<1> QED
  BY <1>1, <1>2

\* The invariant says of every thread what SharesServe says.
LEMMA InvariantServes ==
  ASSUME TeamInv
  PROVE  SharesServe
<1> SUFFICES ASSUME NEW t \in Threads
             PROVE  /\ serves[ws[t]] = IF pc[t] \in Starting THEN k[t] - 1 ELSE k[t]
                    /\ last[t] # Null /\ pc[t] \in {"begin", "publish", "wake", "inside",
                                                    "free", "push"} =>
                         serves[last[t]] = k[t] - 1
  BY DEF SharesServe
<1>1. Place(t) /\ prog.kind \in {"plain", "combined"}
  BY DEF TeamInv, Places, Types
<1> QED
  BY <1>1 DEF Place, Cur, Unfinished, Freeing

\* A team keeps the invariant; a loop outside a team has no share to lose.
Safe == prog.kind = "orphan" \/ TeamInv

LEMMA SafeNext ==
  ASSUME Safe, [Next]_vars
  PROVE  Safe'
<1>1. prog' = prog
  BY ProgStays DEF Next, vars
<1> QED
  BY <1>1, StepInvariant DEF Safe

(***************************************************************************)
(* No use after free, whatever the size of the team, the sequence of its   *)
(* loops, the number of work shares in the team and the order of steps:    *)
(* the share that a thread is in, and the one before it that the thread    *)
(* still reads next_ws of or frees, hold the loops of that thread, so      *)
(* free_work_share has not given them away.                                *)
(***************************************************************************)
THEOREM NoUseAfterFree == Spec => []SharesServe
<1>1. Init => Safe
  BY InitInvariant DEF Safe
<1>2. Safe /\ [Next]_vars => Safe'
  BY SafeNext
<1>3. Safe => SharesServe
  BY InvariantServes DEF Safe, SharesServe
<1> QED
  BY <1>1, <1>2, <1>3, PTL DEF Spec

-----------------------------------------------------------------------------
(* The free lists: the share that is taken from list_alloc and the shares  *)
(* that are pushed on list_free at the same time never meet, and no share  *)
(* is lost between the two lists.                                          *)

\* C contains the shares that the links of its shares lead to.
Closed(C) == \A i \in C : nextFree[i] # Null => nextFree[i] \in C

\* C contains the heads of both lists.
HasHeads(C) ==
  /\ listAlloc # Null => listAlloc \in C
  /\ listFree # Null => listFree \in C

(***************************************************************************)
(* What Lists lacks to be the whole truth: it forbids that two links lead  *)
(* to one share, but not a ring of free shares that is on neither list.    *)
(***************************************************************************)
Reached == \A C \in SUBSET Free : HasHeads(C) /\ Closed(C) => C = Free

-----------------------------------------------------------------------------
(* Linked, which follows the links of a list step by step.                 *)

\* Induction, for a set of numbers.
LEMMA Induction ==
  ASSUME NEW n \in Nat, NEW S, 0 \in S, \A i \in 0 .. n - 1 : i \in S => i + 1 \in S
  PROVE  \A i \in 0 .. n : i \in S
<1>0. PICK R : /\ IsWellFoundedOn(R, Nat)
               /\ R = {ss \in Nat \X Nat : ss[1] < ss[2]}
  BY NatLessThanWellFounded DEF OpToRel
<1> DEFINE T == {i \in 0 .. n : i \notin S}
<1> SUFFICES ASSUME T # {} PROVE FALSE
  OBVIOUS
<1>1. T \subseteq Nat
  OBVIOUS
<1>2. PICK x \in T : \A y \in T : ~(<<y, x>> \in R)
  BY <1>0, <1>1, WFMin
<1>3. x \in 1 .. n /\ x - 1 \in 0 .. n - 1 /\ x - 1 \in Nat /\ x - 1 + 1 = x
  BY <1>2
<1>4. x - 1 \in T
  BY <1>2, <1>3
<1>5. <<x - 1, x>> \in R
  BY <1>0, <1>3
<1> QED
  BY <1>2, <1>4, <1>5

\* One round, and the beginning, of Linked(s); f is its first n rounds.
Round(C) == C \cup ({nextFree[i] : i \in C} \ {Null})
Heading(s) == {s} \ {Null}

Rounds(f, n, s) ==
  /\ f \in [0 .. n -> SUBSET Shares]
  /\ \A m \in 0 .. n : f[m] = IF m = 0 THEN Heading(s) ELSE Round(f[m - 1])

\* One round more.
LEMMA MoreRounds ==
  ASSUME nextFree \in [Shares -> Shares \cup {Null}], NEW s, NEW n \in Nat, NEW f,
         Rounds(f, n, s)
  PROVE  \E g : Rounds(g, n + 1, s)
<1> DEFINE g == [m \in 0 .. n + 1 |-> IF m = n + 1 THEN Round(f[n]) ELSE f[m]]
<1>1. f[n] \in SUBSET Shares /\ n \in 0 .. n
  BY DEF Rounds
<1>2. Round(f[n]) \in SUBSET Shares
  BY <1>1 DEF Round
<1>3. \A m \in 0 .. n : g[m] = f[m]
  OBVIOUS
<1>4. g \in [0 .. n + 1 -> SUBSET Shares]
  BY <1>2 DEF Rounds
<1>5. ASSUME NEW m \in 0 .. n + 1
      PROVE  g[m] = IF m = 0 THEN Heading(s) ELSE Round(g[m - 1])
  <2>1. CASE m = n + 1
    <3>1. g[m] = Round(f[n]) /\ m - 1 = n /\ g[m - 1] = f[n] /\ m # 0
      BY <1>1, <1>3, <2>1
    <3> QED
      BY <3>1
  <2>2. CASE m \in 0 .. n
    <3>1. g[m] = f[m]
      BY <2>2
    <3>2. m # 0 => g[m - 1] = f[m - 1]
      BY <2>2
    <3> QED
      BY <2>2, <3>1, <3>2 DEF Rounds
  <2> QED
    BY <2>1, <2>2
<1> HIDE DEF g
<1> QED
  BY <1>4, <1>5 DEF Rounds

\* Linked(s) is what the last round has found.
LEMMA LinkedRounds ==
  ASSUME nextFree \in [Shares -> Shares \cup {Null}], NEW s \in Shares \cup {Null}
  PROVE  \E f : Rounds(f, MaxShares, s) /\ Linked(s) = f[MaxShares]
<1>0. MaxShares \in Nat /\ Null \notin Shares
  BY WorkShareAssumption DEF Shares, Null
<1> DEFINE S == {n \in Nat : \E f : Rounds(f, n, s)}
<1>1. 0 \in S
  <2> DEFINE f == [m \in 0 .. 0 |-> Heading(s)]
  <2>1. Rounds(f, 0, s)
    BY DEF Rounds, Heading
  <2> QED
    BY <2>1
<1>2. \A n \in 0 .. MaxShares - 1 : n \in S => n + 1 \in S
  BY MoreRounds
<1> HIDE DEF S
<1>3. MaxShares \in S
  BY <1>0, <1>1, <1>2, Induction
<1>4. PICK f : Rounds(f, MaxShares, s)
  BY <1>3 DEF S
<1> DEFINE From[n \in 0 .. MaxShares] ==
             IF n = 0 THEN {s} \ {Null}
             ELSE From[n - 1] \cup ({nextFree[i] : i \in From[n - 1]} \ {Null})
           G == [n \in 0 .. MaxShares |-> IF n = 0 THEN Heading(s) ELSE Round(From[n - 1])]
<1>5. f = [n \in 0 .. MaxShares |->
             IF n = 0 THEN {s} \ {Null}
             ELSE f[n - 1] \cup ({nextFree[i] : i \in f[n - 1]} \ {Null})]
  BY <1>4 DEF Rounds, Round, Heading
<1>6. From = G
  BY <1>5 DEF Round, Heading
<1>7. Linked(s) = From[MaxShares]
  BY DEF Linked
<1> HIDE DEF From
<1>8. \A n \in 0 .. MaxShares : G[n] = IF n = 0 THEN Heading(s) ELSE Round(From[n - 1])
  OBVIOUS
<1> HIDE DEF G
<1>9. \A n \in 0 .. MaxShares : From[n] = f[n]
  <2> DEFINE T == {n \in 0 .. MaxShares : From[n] = f[n]}
  <2>1. 0 \in T
    BY <1>0, <1>4, <1>6, <1>8 DEF Rounds
  <2>2. ASSUME NEW n \in 0 .. MaxShares - 1, n \in T
        PROVE  n + 1 \in T
    <3>1. n + 1 \in 0 .. MaxShares /\ n + 1 # 0 /\ n + 1 - 1 = n /\ From[n] = f[n]
      BY <1>0, <2>2
    <3>2. From[n + 1] = Round(From[n])
      BY <1>6, <1>8, <3>1
    <3>3. f[n + 1] = Round(f[n])
      BY <1>4, <3>1 DEF Rounds
    <3> QED
      BY <3>1, <3>2, <3>3
  <2> HIDE DEF T
  <2>3. \A n \in 0 .. MaxShares : n \in T
    BY <1>0, <2>1, <2>2, Induction
  <2> QED
    BY <2>3 DEF T
<1> QED
  BY <1>0, <1>4, <1>7, <1>9

\* The rounds stay inside every closed set that has the head of the list.
LEMMA RoundsInside ==
  ASSUME NEW s, NEW n \in Nat, NEW f, Rounds(f, n, s), NEW C, Closed(C), s = Null \/ s \in C
  PROVE  f[n] \subseteq C
<1> DEFINE S == {i \in 0 .. n : f[i] \subseteq C}
<1>1. 0 \in S
  BY DEF Rounds, Heading
<1>2. ASSUME NEW i \in 0 .. n - 1, i \in S
      PROVE  i + 1 \in S
  <2>1. i + 1 \in 0 .. n /\ i + 1 # 0 /\ i + 1 - 1 = i /\ f[i] \subseteq C
    BY <1>2
  <2>2. f[i + 1] = Round(f[i])
    BY <2>1 DEF Rounds
  <2>3. Round(f[i]) \subseteq C
    BY <2>1 DEF Round, Closed
  <2> QED
    BY <2>1, <2>2, <2>3
<1> HIDE DEF S
<1>3. n \in S
  BY <1>1, <1>2, Induction
<1> QED
  BY <1>3 DEF S

\* As long as it is not closed, every round finds a share more.
LEMMA RoundsGrow ==
  ASSUME nextFree \in [Shares -> Shares \cup {Null}], NEW s, NEW n \in Nat, NEW f,
         Rounds(f, n, s)
  PROVE  Closed(f[n]) \/ Cardinality(f[n]) >= n
<1>0. IsFiniteSet(Shares) /\ Null \notin Shares
  BY WorkShareAssumption, FS_Interval DEF Shares, Null
<1> DEFINE S == {i \in 0 .. n : Closed(f[i]) \/ Cardinality(f[i]) >= i}
<1>a. ASSUME NEW i \in 0 .. n
      PROVE  f[i] \in SUBSET Shares /\ IsFiniteSet(f[i]) /\ Cardinality(f[i]) \in Nat
  <2>1. f[i] \in SUBSET Shares
    BY DEF Rounds
  <2> QED
    BY <1>0, <2>1, FS_Subset, FS_CardinalityType
<1>1. 0 \in S
  BY <1>a
<1>2. ASSUME NEW i \in 0 .. n - 1, i \in S
      PROVE  i + 1 \in S
  <2>1. i + 1 \in 0 .. n /\ i \in 0 .. n /\ i + 1 # 0 /\ i + 1 - 1 = i
    BY <1>2
  <2>2. f[i + 1] = Round(f[i])
    BY <2>1 DEF Rounds
  <2>3. CASE Closed(f[i])
    <3>1. Round(f[i]) = f[i]
      BY <1>0, <1>a, <2>1, <2>3 DEF Round, Closed
    <3> QED
      BY <2>1, <2>2, <2>3, <3>1
  <2>4. CASE ~Closed(f[i])
    <3>1. PICK j \in f[i] : nextFree[j] # Null /\ nextFree[j] \notin f[i]
      BY <2>4 DEF Closed
    <3>2. f[i] \subseteq f[i + 1] /\ f[i] # f[i + 1]
      BY <2>2, <3>1 DEF Round
    <3>3. Cardinality(f[i]) <= Cardinality(f[i + 1]) /\ Cardinality(f[i]) # Cardinality(f[i + 1])
      BY <1>a, <2>1, <3>2, FS_Subset
    <3>4. Cardinality(f[i]) >= i
      BY <1>2, <2>4
    <3>5. Cardinality(f[i]) \in Nat /\ Cardinality(f[i + 1]) \in Nat
      BY <1>a, <2>1
    <3>6. Cardinality(f[i + 1]) >= i + 1
      BY <3>3, <3>4, <3>5
    <3> QED
      BY <2>1, <3>6
  <2> QED
    BY <2>3, <2>4
<1> HIDE DEF S
<1>3. n \in S
  BY <1>1, <1>2, Induction
<1> QED
  BY <1>3 DEF S

(***************************************************************************)
(* Linked(s) is the least set of shares that has s and follows the links:  *)
(* MaxShares rounds are enough, for there are no more shares to find.      *)
(***************************************************************************)
LEMMA LinkedLeast ==
  ASSUME nextFree \in [Shares -> Shares \cup {Null}], NEW s \in Shares \cup {Null}
  PROVE  /\ Linked(s) \in SUBSET Shares /\ Closed(Linked(s))
         /\ s # Null => s \in Linked(s)
         /\ \A C : Closed(C) /\ (s = Null \/ s \in C) => Linked(s) \subseteq C
<1>0. /\ MaxShares \in Nat /\ Null \notin Shares /\ IsFiniteSet(Shares)
      /\ Cardinality(Shares) = MaxShares
  BY WorkShareAssumption, FS_Interval DEF Shares, Null
<1>1. PICK f : Rounds(f, MaxShares, s) /\ Linked(s) = f[MaxShares]
  BY LinkedRounds
<1>2. Linked(s) \in SUBSET Shares
  BY <1>0, <1>1 DEF Rounds
<1>3. Closed(Linked(s))
  <2>1. Closed(Linked(s)) \/ Cardinality(Linked(s)) >= MaxShares
    BY <1>0, <1>1, RoundsGrow
  <2>2. Cardinality(Linked(s)) >= MaxShares => Linked(s) = Shares
    <3>1. Cardinality(Linked(s)) <= Cardinality(Shares) /\ Cardinality(Linked(s)) \in Nat
      BY <1>0, <1>2, FS_Subset, FS_CardinalityType
    <3>2. Cardinality(Linked(s)) = Cardinality(Shares) => Linked(s) = Shares
      BY <1>0, <1>2, FS_Subset
    <3> QED
      BY <1>0, <3>1, <3>2
  <2> QED
    BY <2>1, <2>2 DEF Closed
<1>4. \A C : Closed(C) /\ (s = Null \/ s \in C) => Linked(s) \subseteq C
  BY <1>0, <1>1, RoundsInside, ZenonT(30)
<1>5. s # Null => s \in Linked(s)
  <2> DEFINE S == {i \in 0 .. MaxShares : s \in f[i]}
  <2> SUFFICES ASSUME s # Null PROVE MaxShares \in S
    BY <1>1
  <2>1. 0 \in S
    BY <1>0, <1>1 DEF Rounds, Heading
  <2>2. ASSUME NEW i \in 0 .. MaxShares - 1, i \in S
        PROVE  i + 1 \in S
    <3>1. i + 1 \in 0 .. MaxShares /\ i + 1 # 0 /\ i + 1 - 1 = i
      BY <1>0, <2>2
    <3>2. f[i + 1] = Round(f[i])
      BY <1>1, <3>1 DEF Rounds
    <3> QED
      BY <2>2, <3>1, <3>2 DEF Round
  <2> HIDE DEF S
  <2> QED
    BY <1>0, <2>1, <2>2, Induction
<1> QED
  BY <1>2, <1>3, <1>4, <1>5

-----------------------------------------------------------------------------
(* Reached.                                                                *)

\* The links of free shares lead to free shares.
LEMMA FreeClosed ==
  ASSUME Lists
  PROVE  Closed(Free) /\ HasHeads(Free)
BY DEF Lists, Closed, HasHeads

\* A share that is taken from list_alloc was its head.
LEMMA ReachedAllocCached ==
  ASSUME TeamInv, Reached, NEW t \in Threads, AllocCached(t)
  PROVE  Reached'
<1> DEFINE x == listAlloc
<1>0. /\ serves \in [Shares -> (0 .. Last) \cup {Null}]
      /\ k[t] \in 0 .. Last /\ Null \notin 0 .. Last /\ Lists
  BY Basics, ThreadTypes DEF TeamInv, Types
<1>1. /\ x # Null /\ listAlloc' = nextFree[x] /\ serves' = [serves EXCEPT ![x] = k[t]]
      /\ nextFree' = nextFree /\ listFree' = listFree /\ made' = made
  BY DEF AllocCached, InitShare
<1>2. x \in Free /\ x \in Shares
  BY <1>0, <1>1, FreeFacts DEF Lists
<1>3. Free' = Free \ {x}
  BY <1>0, <1>1, <1>2 DEF Free
<1> SUFFICES ASSUME NEW C \in SUBSET Free', HasHeads(C)', Closed(C)'
             PROVE  C = Free'
  BY DEF Reached
<1>4. C \cup {x} \in SUBSET Free
  BY <1>2, <1>3
<1>5. HasHeads(C \cup {x}) /\ Closed(C \cup {x})
  BY <1>1 DEF HasHeads, Closed
<1>6. C \cup {x} = Free
  BY <1>4, <1>5 DEF Reached
<1> QED
  BY <1>3, <1>6

\* A share that is taken from the stack was the second one there.
LEMMA ReachedAllocFreed ==
  ASSUME TeamInv, Reached, NEW t \in Threads, AllocFreed(t)
  PROVE  Reached'
<1> DEFINE x == nextFree[snap[t]]
<1>0. /\ serves \in [Shares -> (0 .. Last) \cup {Null}]
      /\ nextFree \in [Shares -> Shares \cup {Null}]
      /\ k[t] \in 0 .. Last /\ Null \notin 0 .. Last /\ Lists
  BY Basics, ThreadTypes DEF TeamInv, Types
<1>1. /\ pc[t] = "refill" /\ snap[t] # Null /\ x # Null /\ listAlloc' = nextFree[x]
      /\ serves' = [serves EXCEPT ![x] = k[t]]
      /\ nextFree' = [nextFree EXCEPT ![snap[t]] = Null]
      /\ listFree' = listFree /\ made' = made
  BY DEF AllocFreed, InitShare, At
<1>2. snap[t] \in Free /\ x # snap[t] /\ x \in Free /\ listAlloc = Null
  BY <1>0, <1>1 DEF Lists
<1>3. x \in Shares /\ snap[t] \in Shares
  BY <1>2, FreeFacts
<1>4. Free' = Free \ {x}
  BY <1>0, <1>1, <1>3 DEF Free
<1> SUFFICES ASSUME NEW C \in SUBSET Free', HasHeads(C)', Closed(C)'
             PROVE  C = Free'
  BY DEF Reached
<1>5. C \cup {x} \in SUBSET Free
  BY <1>2, <1>4
<1>6. HasHeads(C \cup {x})
  BY <1>1, <1>2 DEF HasHeads
<1>7. ASSUME NEW i \in C \cup {x}, nextFree[i] # Null
      PROVE  nextFree[i] \in C \cup {x}
  <2>1. CASE i = snap[t]
    BY <2>1
  <2>2. CASE i = x
    <3>1. listAlloc' # Null => listAlloc' \in C
      BY DEF HasHeads
    <3> QED
      BY <1>1, <1>7, <2>2, <3>1
  <2>3. CASE i \in C /\ i # snap[t]
    <3>1. i \in Shares
      BY <1>5, FreeFacts
    <3>2. nextFree'[i] = nextFree[i]
      BY <1>0, <1>1, <2>3, <3>1
    <3> QED
      BY <1>7, <2>3, <3>2 DEF Closed
  <2> QED
    BY <2>1, <2>2, <2>3
<1>8. C \cup {x} = Free
  BY <1>5, <1>6, <1>7 DEF Reached, Closed
<1> QED
  BY <1>4, <1>8

\* A chunk is a list of its own: the links go through all of it.
LEMMA ReachedAllocFresh ==
  ASSUME TeamInv, Reached, NEW t \in Threads, AllocFresh(t)
  PROVE  Reached'
<1>0. /\ serves \in [Shares -> (0 .. Last) \cup {Null}]
      /\ nextFree \in [Shares -> Shares \cup {Null}]
      /\ k[t] \in 0 .. Last /\ Null \notin 0 .. Last /\ Lists
      /\ made \in Nat /\ chunk \in Nat \ {0} /\ listFree \in Shares \cup {Null}
  BY Basics, ThreadTypes DEF TeamInv, Types
<1>a. Shares = 0 .. MaxShares - 1 /\ MaxShares \in Nat /\ Null = -1
  BY WorkShareAssumption DEF Shares, Null
<1>1. /\ pc[t] = "refill" /\ listAlloc' = made + 1 /\ listFree' = listFree
      /\ serves' = [serves EXCEPT ![made] = k[t]]
      /\ nextFree' = [s \in Shares |-> IF made < s /\ s + 1 < made' THEN s + 1
                                       ELSE IF made <= s /\ s < made' THEN Null
                                       ELSE nextFree[s]]
      /\ made' = made + 2 * chunk /\ made' <= MaxShares
  BY DEF AllocFresh, InitShare, At
<1>2. made + 1 < made' /\ made' \in Nat /\ made \in Shares
  BY <1>0, <1>a, <1>1
<1>b. made \in Nat /\ made' \in Nat /\ made + 1 < made'
  BY <1>0, <1>2
<1>3. listAlloc = Null
  BY <1>0, <1>1 DEF Lists
<1>4. \A s \in Shares : s \in Free' <=> s \in Free \/ (made < s /\ s < made')
  <2>1. \A s \in Shares : serves[s] # Null => s < made
    BY DEF TeamInv, Chain
  <2> QED
    BY <1>0, <1>a, <1>1, <1>2, <2>1 DEF Free
<1>5. /\ \A s \in Free : s \in Shares /\ s < made
      /\ \A s \in Free' : s \in Shares
  BY DEF Free
<1> SUFFICES ASSUME NEW C \in SUBSET Free', HasHeads(C)', Closed(C)'
             PROVE  C = Free'
  BY DEF Reached
<1>6. C \cap Free = Free
  <2>1. HasHeads(C \cap Free)
    BY <1>0, <1>1, <1>3 DEF HasHeads, Lists
  <2>2. ASSUME NEW i \in C \cap Free, nextFree[i] # Null
        PROVE  nextFree[i] \in C \cap Free
    <3>1. i \in Shares /\ i < made /\ nextFree[i] \in Free
      BY <1>0, <1>5, <2>2 DEF Lists
    <3>2. nextFree'[i] = nextFree[i]
      BY <1>0, <1>a, <1>1, <3>1
    <3> QED
      BY <2>2, <3>1, <3>2 DEF Closed
  <2>3. Closed(C \cap Free) /\ C \cap Free \in SUBSET Free
    BY <2>2 DEF Closed
  <2> QED
    BY <2>1, <2>3 DEF Reached
<1>c. PICK n \in Nat : made' = n + made + 2
  <2>1. \A a, b \in Nat : a + 1 < b => b - a - 2 \in Nat /\ b = (b - a - 2) + a + 2
    OBVIOUS
  <2> QED
    BY <1>b, <2>1
<1>7. \A i \in 0 .. n : i + made + 1 \in C
  <2> DEFINE S == {i \in Nat : i + made + 1 \in C}
  <2>1. 0 \in S
    <3>1. listAlloc' # Null => listAlloc' \in C
      BY DEF HasHeads
    <3> QED
      BY <1>0, <1>a, <1>1, <3>1
  <2>2. ASSUME NEW i \in 0 .. n - 1, i \in S
        PROVE  i + 1 \in S
    <3> DEFINE j == i + made + 1
    <3>1. j \in Shares /\ j \in C /\ made < j /\ j + 1 < made' /\ i \in Nat
      BY <1>0, <1>a, <1>1, <1>2, <1>c, <2>2
    <3>2. nextFree'[j] = j + 1
      BY <1>1, <3>1
    <3>3. j + 1 # Null /\ i + 1 + made + 1 = j + 1 /\ i + 1 \in Nat
      BY <1>0, <1>a, <3>1
    <3>4. nextFree'[j] \in C
      BY <3>1, <3>2, <3>3 DEF Closed
    <3> HIDE DEF j
    <3> QED
      BY <3>2, <3>3, <3>4
  <2> HIDE DEF S
  <2>3. \A i \in 0 .. n : i \in S
    BY <2>1, <2>2, Induction
  <2> QED
    BY <2>3 DEF S
<1>8. ASSUME NEW s \in Free' PROVE s \in C
  <2>1. CASE s \in Free
    BY <1>6, <2>1
  <2>2. CASE s \notin Free
    <3>0. s \in Int
      BY <1>a, <1>5
    <3>1. s \in Shares /\ made < s /\ s < made'
      BY <1>4, <1>5, <2>2
    <3>2. \A a \in Nat : a < s /\ s < n + a + 2 => s - a - 1 \in 0 .. n /\ s = s - a - 1 + a + 1
      BY <3>0
    <3> QED
      BY <1>7, <1>b, <1>c, <3>1, <3>2
  <2> QED
    BY <2>1, <2>2
<1> QED
  BY <1>8

\* The share that is pushed leads to the one that was on top.
LEMMA ReachedPush ==
  ASSUME TeamInv, Reached, NEW t \in Threads, Push(t), listFree = snap[t]
  PROVE  Reached'
<1> DEFINE x == last[t]
<1>0. /\ Lists /\ serves \in [Shares -> (0 .. Last) \cup {Null}]
  BY DEF TeamInv, Types
<1>1. /\ pc[t] = "push" /\ listFree' = x /\ serves' = [serves EXCEPT ![x] = Null]
      /\ UNCHANGED <<nextFree, listAlloc, made>>
  BY DEF Push, At
<1>2. x \in Shares /\ serves[x] # Null /\ x < made /\ Null \notin Shares
  BY <1>1, InUse, Basics DEF Freeing, TeamInv, Chain
<1>3. nextFree[x] = listFree
  BY <1>0, <1>1 DEF Lists
<1>4. Free' = Free \cup {x}
  BY <1>0, <1>1, <1>2 DEF Free
<1> SUFFICES ASSUME NEW C \in SUBSET Free', HasHeads(C)', Closed(C)'
             PROVE  C = Free'
  BY DEF Reached
<1>5. x \in C /\ (listAlloc # Null => listAlloc \in C)
  BY <1>1, <1>2 DEF HasHeads
<1>6. HasHeads(C \cap Free)
  <2>1. listFree # Null => listFree \in C
    BY <1>1, <1>3, <1>5 DEF Closed
  <2> QED
    BY <1>0, <1>5, <2>1 DEF HasHeads, Lists
<1>7. Closed(C \cap Free)
  BY <1>0, <1>1 DEF Closed, Lists
<1>8. C \cap Free = Free
  BY <1>6, <1>7 DEF Reached
<1> QED
  BY <1>4, <1>5, <1>8

\* The link of a share that is not on a list says nothing about the lists.
LEMMA ReachedQuiet ==
  ASSUME Reached, made' = made, serves' = serves, listAlloc' = listAlloc, listFree' = listFree,
         \A s \in Free : nextFree'[s] = nextFree[s]
  PROVE  Reached'
<1>1. Free' = Free
  BY DEF Free
<1> QED
  BY <1>1 DEF Reached, HasHeads, Closed

LEMMA ReachedNext ==
  ASSUME TeamInv, Reached, NEW t \in Threads, Step(t)
  PROVE  Reached'
<1>1. CASE StartKnown(t) \/ StartFirst(t) \/ StartLater(t) \/ MarkWaited(t) \/ FutexWait(t)
           \/ StopWaiting(t) \/ LoadFree(t)
  BY <1>1, ReachedQuiet DEF StartKnown, StartFirst, StartLater, MarkWaited, FutexWait,
     StopWaiting, LoadFree, lists
<1>2. CASE Begin(t) \/ Publish(t) \/ Wake(t) \/ LeaveNowait(t) \/ LastNowait(t)
  BY <1>2, ReachedQuiet DEF Begin, Publish, Wake, LeaveNowait, LastNowait, lists
<1>3. CASE Arrive(t) \/ Release(t) \/ PassBarrier(t) \/ Record(t) \/ ParallelEnd(t) \/ Join(t)
  BY <1>3, ReachedQuiet DEF Arrive, Release, PassBarrier, Record, ParallelEnd, Join, lists
<1>4. CASE FreeShare(t)
  <2>1. /\ nextFree' = [nextFree EXCEPT ![last[t]] = listFree] /\ pc[t] \in Freeing
        /\ UNCHANGED <<listAlloc, listFree, made, serves>>
    BY <1>4 DEF FreeShare, At, Freeing
  <2>2. last[t] \notin Free
    BY <2>1, InUse, FreeFacts
  <2>3. \A s \in Free : nextFree'[s] = nextFree[s]
    BY <2>1, <2>2 DEF TeamInv, Types, Free
  <2> QED
    BY <2>1, <2>3, ReachedQuiet
<1>5. CASE Push(t)
  <2>1. CASE listFree # snap[t]
    BY <1>5, <2>1, ReachedQuiet DEF Push
  <2> QED
    BY <1>5, <2>1, ReachedPush
<1> QED
  BY <1>1, <1>2, <1>3, <1>4, <1>5, TeamStep, ReachedAllocCached, ReachedAllocFreed,
     ReachedAllocFresh DEF TeamInv

-----------------------------------------------------------------------------
(* Loops outside a parallel region have no team and touch no list.         *)

\* Where their thread, and the threads that are not there, can be.
Outside == {"between", "inside", "record", "release", "joined"}

ListTypes ==
  /\ nextFree \in [Shares -> Shares \cup {Null}]
  /\ listAlloc \in Shares \cup {Null} /\ listFree \in Shares \cup {Null}
  /\ made \in 0 .. MaxShares

(***************************************************************************)
(* The inductive invariant: a team keeps its own, and in either case the   *)
(* lists hold all the free shares.                                         *)
(***************************************************************************)
ListInv ==
  /\ IF prog.kind = "orphan" THEN ListTypes /\ Lists /\ pc \in [Threads -> Outside] ELSE TeamInv
  /\ Reached

LEMMA OutsideNext ==
  ASSUME ListInv, prog.kind = "orphan", NEW t \in Threads, Step(t)
  PROVE  ListInv'
<1>0. ListTypes /\ Lists /\ pc \in [Threads -> Outside] /\ pc[t] \in Outside
  BY DEF ListInv
<1>1. LeaveNowait(t) \/ LastNowait(t) \/ Arrive(t) \/ Release(t) \/ Record(t)
        \/ ParallelEnd(t) \/ Join(t) \/ StartOrphan(t) \/ EndOrphan(t)
  BY <1>0 DEF Outside, Step, At, Starts, StartKnown, StartFirst, StartLater, MarkWaited,
     FutexWait, StopWaiting, AllocCached, LoadFree, AllocFreed, AllocFresh, Begin, Publish, Wake,
     PassBarrier, FreeShare, Push
<1>2. /\ UNCHANGED <<prog, nextFree, listAlloc, listFree, made, serves>>
      /\ pc' \in [Threads -> Outside]
  BY <1>0, <1>1 DEF LeaveNowait, LastNowait, Arrive, Release, Record, ParallelEnd, Join,
     StartOrphan, EndOrphan, Goto, Outside, lists
<1>3. Free' = Free
  BY <1>2 DEF Free
<1>4. \A u \in Threads : pc'[u] \notin {"refill", "push"}
  BY <1>2 DEF Outside
<1>5. ListTypes' /\ Lists'
  BY <1>0, <1>2, <1>3, <1>4 DEF ListTypes, Lists
<1>6. Reached'
  BY <1>2, ReachedQuiet DEF ListInv
<1> QED
  BY <1>2, <1>5, <1>6 DEF ListInv

LEMMA ListInvNext ==
  ASSUME ListInv, [Next]_vars
  PROVE  ListInv'
<1>1. CASE UNCHANGED vars
  <2>1. UNCHANGED <<prog, nextFree, listAlloc, listFree, made, serves, pc, last, snap>>
    BY <1>1 DEF vars
  <2>2. Reached' /\ Free' = Free
    BY <2>1, ReachedQuiet DEF ListInv, Free
  <2>3. TeamInv => TeamInv'
    BY <1>1, StepInvariant
  <2> QED
    BY <2>1, <2>2, <2>3 DEF ListInv, ListTypes, Lists
<1>2. CASE Next
  <2>1. PICK t \in Threads : Step(t)
    BY <1>2 DEF Next
  <2>2. prog' = prog
    BY <2>1, ProgStays
  <2>3. CASE prog.kind = "orphan"
    BY <2>1, <2>3, OutsideNext
  <2>4. CASE prog.kind # "orphan"
    <3>1. TeamInv /\ Reached
      BY <2>4 DEF ListInv
    <3>2. TeamInv' /\ Reached'
      BY <1>2, <2>1, <3>1, StepInvariant, ReachedNext
    <3> QED
      BY <2>2, <2>4, <3>2 DEF ListInv
  <2> QED
    BY <2>3, <2>4
<1> QED
  BY <1>1, <1>2

\* gomp_init_team links the shares of the team, but for the first, into one list.
LEMMA ReachedInit ==
  ASSUME Init
  PROVE  Reached
<1>0. Inline \in Nat \ {0}
  BY WorkShareAssumption
<1>1. /\ listAlloc = IF 1 < Inline THEN 1 ELSE Null
      /\ \A s \in Shares : nextFree[s] = IF 0 < s /\ s + 1 < Inline THEN s + 1 ELSE Null
  BY DEF Init
<1>2. \A s \in Free : s \in Shares /\ s \in 1 .. Inline - 1
  BY <1>0, InitLists, WorkShareAssumption DEF Shares
<1> SUFFICES ASSUME NEW C \in SUBSET Free, HasHeads(C), Closed(C)
             PROVE  \A s \in 1 .. Inline - 1 : s \in C
  BY <1>2 DEF Reached
<1> SUFFICES ASSUME Inline > 1
             PROVE  \A s \in 1 .. Inline - 1 : s \in C
  BY <1>0
<1> DEFINE S == {i \in Nat : i + 1 \in C}
<1>3. 0 \in S
  BY <1>1 DEF HasHeads, Null
<1>4. ASSUME NEW i \in 0 .. Inline - 2 - 1, i \in S
      PROVE  i + 1 \in S
  <2>1. i + 1 \in C /\ i + 1 \in Shares /\ i \in Nat
    BY <1>2, <1>4
  <2>2. nextFree[i + 1] = i + 1 + 1 /\ nextFree[i + 1] # Null
    BY <1>0, <1>1, <1>4, <2>1 DEF Null
  <2>3. i + 1 + 1 \in C
    BY <2>1, <2>2 DEF Closed
  <2> QED
    BY <2>1, <2>3
<1> HIDE DEF S
<1>5. Inline - 2 \in Nat
  BY <1>0
<1>6. \A i \in 0 .. Inline - 2 : i \in S
  BY <1>3, <1>4, <1>5, Induction
<1>7. ASSUME NEW s \in 1 .. Inline - 1
      PROVE  s \in C
  <2>1. s - 1 \in 0 .. Inline - 2 /\ s - 1 + 1 = s
    BY <1>0
  <2> QED
    BY <1>6, <2>1 DEF S
<1> QED
  BY <1>7

LEMMA ListInvInit ==
  ASSUME Init
  PROVE  ListInv
<1>1. CASE prog.kind = "orphan"
  <2>1. pc \in [Threads -> Outside]
    BY <1>1 DEF Init, Outside
  <2>2. Shares = 0 .. MaxShares - 1 /\ Inline \in Nat \ {0} /\ MaxShares \in Nat
        /\ Inline <= MaxShares
    BY WorkShareAssumption DEF Shares
  <2>3. ListTypes
    BY <2>2 DEF Init, ListTypes
  <2> QED
    BY <1>1, <2>1, <2>3, InitLists, ReachedInit DEF ListInv
<1>2. CASE prog.kind # "orphan"
  BY <1>2, InitInvariant, ReachedInit DEF ListInv
<1> QED
  BY <1>1, <1>2

-----------------------------------------------------------------------------
(* What the invariant says of the two lists.                               *)

\* No share on list_free is on list_alloc.
LEMMA ListsApart ==
  ASSUME ListTypes, Lists
  PROVE  Linked(listAlloc) \cap Linked(listFree) = {}
<1> DEFINE A == Linked(listAlloc)
           F == Linked(listFree)
<1>0. nextFree \in [Shares -> Shares \cup {Null}]
  BY DEF ListTypes
<1>1. /\ Closed(A) /\ (listAlloc # Null => listAlloc \in A)
      /\ \A C : Closed(C) /\ (listAlloc = Null \/ listAlloc \in C) => A \subseteq C
  BY <1>0, LinkedLeast DEF ListTypes
<1>2. /\ Closed(F) /\ (listFree # Null => listFree \in F)
      /\ \A C : Closed(C) /\ (listFree = Null \/ listFree \in C) => F \subseteq C
  BY <1>0, LinkedLeast DEF ListTypes
<1>3. Closed(Free) /\ HasHeads(Free)
  BY FreeClosed
<1>4. A \subseteq Free /\ F \subseteq Free
  BY <1>1, <1>2, <1>3 DEF HasHeads
<1> HIDE DEF A, F
<1>5. ASSUME listAlloc # Null
      PROVE  listAlloc \notin F
  <2>1. listFree = Null \/ listFree \in F \ {listAlloc}
    BY <1>2, <1>5 DEF Lists
  <2>2. Closed(F \ {listAlloc})
    BY <1>2, <1>4 DEF Closed, Lists
  <2> QED
    BY <1>2, <2>1, <2>2
<1>6. ASSUME NEW i \in A \ F, nextFree[i] # Null
      PROVE  nextFree[i] \in A \ F
  <2>1. nextFree[i] \in A
    BY <1>1, <1>6 DEF Closed
  <2>2. ASSUME nextFree[i] \in F PROVE FALSE
    <3> DEFINE L == F \ {nextFree[i]}
    <3>1. listFree = Null \/ listFree \in L
      BY <1>2, <1>4, <1>6 DEF Lists
    <3>2. \A a \in Free : nextFree[a] = nextFree[i] => a = i
      BY <1>4, <1>6 DEF Lists
    <3>3. Closed(L)
      BY <1>2, <1>4, <1>6, <3>2 DEF Closed
    <3> QED
      BY <1>2, <2>2, <3>1, <3>3
  <2> QED
    BY <2>1, <2>2
<1>7. A \subseteq A \ F
  BY <1>1, <1>5, <1>6 DEF Closed
<1> QED
  BY <1>7 DEF A, F

\* The two lists hold the free shares.
LEMMA ListsHoldFree ==
  ASSUME ListTypes, Lists, Reached
  PROVE  Linked(listAlloc) \cup Linked(listFree) = {s \in 0 .. made - 1 : serves[s] = Null}
<1> DEFINE A == Linked(listAlloc)
           F == Linked(listFree)
<1>1. /\ Closed(A) /\ (listAlloc # Null => listAlloc \in A)
      /\ \A C : Closed(C) /\ (listAlloc = Null \/ listAlloc \in C) => A \subseteq C
  BY LinkedLeast DEF ListTypes
<1>2. /\ Closed(F) /\ (listFree # Null => listFree \in F)
      /\ \A C : Closed(C) /\ (listFree = Null \/ listFree \in C) => F \subseteq C
  BY LinkedLeast DEF ListTypes
<1>3. A \subseteq Free /\ F \subseteq Free
  BY <1>1, <1>2, FreeClosed DEF HasHeads
<1> HIDE DEF A, F
<1>4. Closed(A \cup F) /\ HasHeads(A \cup F) /\ A \cup F \in SUBSET Free
  BY <1>1, <1>2, <1>3 DEF Closed, HasHeads
<1>5. A \cup F = Free
  BY <1>4 DEF Reached
<1>6. Free = {s \in 0 .. made - 1 : serves[s] = Null}
  BY WorkShareAssumption DEF ListTypes, Free, Shares
<1> QED
  BY <1>5, <1>6 DEF A, F

(***************************************************************************)
(* No share is lost, whatever the size of the team, the sequence of its    *)
(* loops and the number of shares it starts with: the shares that are in   *)
(* no loop are on list_alloc or on list_free, none is on both, and those   *)
(* two lists contain nothing else, at every step of the threads that take  *)
(* shares from the stack while others push on it.                          *)
(***************************************************************************)
THEOREM FreeListsComplete == Spec => []NoShareLost
<1>1. ListInv => ListTypes /\ Lists /\ Reached
  BY DEF ListInv, ListTypes, TeamInv, Types
<1>2. ListInv => NoShareLost
  BY <1>1, ListsApart, ListsHoldFree DEF NoShareLost
<1> QED
  BY <1>2, ListInvInit, ListInvNext, PTL DEF Spec
=============================================================================
