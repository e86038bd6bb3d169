------------------------------ MODULE WorkShare ------------------------------
(***************************************************************************)
(* The life cycle of work shares (gcc/libgomp/work.c) with the pointer     *)
(* locks, the team barrier and the free lists it rests on, and the calls   *)
(* of bo_schedule_begin and bo_schedule_end that measure each loop.        *)
(*                                                                         *)
(* A team runs a program of loops with schedule(runtime).  The work shares *)
(* form a chain: next_ws of the share of one loop leads to the share of    *)
(* the next, and the first thread that finds it NULL allocates that share. *)
(* The last thread to finish a loop frees the share of the loop before it. *)
(* Every access to a shared word is one action.                            *)
(*                                                                         *)
(* Programs are those of LoopLife.  What a thread does between entering a  *)
(* loop and finishing it is the subject of the iterator modules.           *)
(***************************************************************************)
EXTENDS Integers, FiniteSets, Sequences

CONSTANTS
  Threads,    \* the threads of the team
  Master,     \* the one that calls GOMP_parallel_end
  Programs,   \* the programs the team may run
  Inline,     \* how many work shares gomp_team contains (8 in team.c)
  MaxShares,  \* bound: work shares that may ever exist
  Regions     \* region ids

P == Cardinality(Threads)

Ends  == {"wait", "cancel", "nowait"}
Kinds == {"plain", "combined", "orphan"}

ASSUME WorkShareAssumption ==
  /\ IsFiniteSet(Threads) /\ Master \in Threads
  /\ Inline \in Nat \ {0} /\ MaxShares \in Nat /\ Inline <= MaxShares
  /\ \A p \in Programs :
       /\ p.kind \in Kinds
       /\ p.loops \in Seq([region : Regions, end : Ends])
       /\ p.kind = "combined" => Len(p.loops) = 1

\* "Cancellable work sharing constructs cannot be orphaned" (gomp_work_share_end_cancel).
ASSUME OrphanAssumption ==
  \A p \in Programs :
    p.kind = "orphan" => \A i \in 1 .. Len(p.loops) : p.loops[i].end # "cancel"

Shares == 0 .. MaxShares - 1

\* Values of a pointer lock, and of a list link, that are not pointers.
Null   == -1
Owned  == -2   \* 1: being allocated by the thread that found NULL
Waited == -3   \* 2: some thread sleeps on it

VARIABLES
  prog,       \* the program; constant
  nextWs,     \* nextWs[s]: the pointer lock s->next_ws
  completed,  \* completed[s]: s->threads_completed
  nextFree,   \* nextFree[s]: s->next_free
  listAlloc,  \* team->work_share_list_alloc
  listFree,   \* team->work_share_list_free
  chunk,      \* team->work_share_chunk
  made,       \* how many shares exist: work_shares and the malloced chunks
  awaited,    \* team->barrier.awaited
  gen,        \* team->barrier.generation
  pc,         \* pc[t]: where thread t is
  k,          \* k[t]: the loop thread t has started last (0: none)
  ws,         \* ws[t]: thr->ts.work_share
  last,       \* last[t]: thr->ts.last_work_share
  snap,       \* snap[t]: its copy of list_free, or of the generation
  started,    \* started[r]: the loop that stored _loop_states[r].start last
  measured,   \* measured[i]: observations stored for loop i (history)
  origin,     \* origin[i]: the loop from whose start the last one was taken
  serves      \* serves[s]: the loop that s was initialised for, or Null (history)

lists  == <<nextFree, listAlloc, listFree, chunk, made>>
bar    == <<awaited, gen>>
timing == <<started, measured, origin>>
vars == <<prog, nextWs, completed, nextFree, listAlloc, listFree, chunk, made, awaited, gen,
          pc, k, ws, last, snap, started, measured, origin, serves>>

Last == Len(prog.loops)
End(t)    == prog.loops[k[t]].end
Region(t) == prog.loops[k[t]].region

(***************************************************************************)
(* "between" is before the first loop and after each; the labels up to     *)
(* "wake" belong to gomp_work_share_start and gomp_work_share_init_done,   *)
(* those after "inside" to the _end routines, "joined" is the barrier of   *)
(* gomp_team_end.                                                          *)
(***************************************************************************)
Labels == {"between", "slow", "sleep", "asleep", "alloc", "refill", "begin", "publish",
           "wake", "inside", "free", "push", "record", "release", "barrier", "joined"}

At(t, label)   == pc[t] = label
Goto(t, label) == pc' = [pc EXCEPT ![t] = label]

Init ==
  /\ prog \in Programs
  /\ nextWs = [s \in Shares |-> Null]
  /\ completed = [s \in Shares |-> 0]
  /\ nextFree = [s \in Shares |-> IF 0 < s /\ s + 1 < Inline THEN s + 1 ELSE Null]
  /\ listAlloc = IF 1 < Inline THEN 1 ELSE Null
  /\ listFree = Null
  /\ chunk = Inline /\ made = Inline
  /\ awaited = P /\ gen = 0
  /\ pc = [t \in Threads |->
             CASE prog.kind = "plain"    -> "between"
               [] prog.kind = "combined" -> "inside"
               [] prog.kind = "orphan"   -> IF t = Master THEN "between" ELSE "joined"]
  /\ k = [t \in Threads |-> IF prog.kind = "combined" THEN 1 ELSE 0]
  /\ ws = [t \in Threads |-> IF prog.kind = "orphan" THEN Null ELSE 0]
  /\ last = [t \in Threads |-> Null]
  /\ snap = [t \in Threads |-> 0]
  /\ started = [r \in Regions |->
                  IF prog.kind = "combined" /\ r = prog.loops[1].region THEN 1 ELSE 0]
  /\ measured = [i \in 1 .. Len(prog.loops) |-> 0]
  /\ origin = [i \in 1 .. Len(prog.loops) |-> 0]
  /\ serves = [s \in Shares |-> IF s # 0 THEN Null ELSE k[Master]]

-----------------------------------------------------------------------------
(* gomp_work_share_start: gomp_ptrlock_get on next_ws of the share that    *)
(* the thread is still in.                                                 *)

Starts(t) ==
  /\ At(t, "between")
  /\ prog.kind = "plain"
  /\ k[t] < Last
  /\ k' = [k EXCEPT ![t] = @ + 1]
  /\ last' = [last EXCEPT ![t] = ws[t]]

\* The share is there.
StartKnown(t) ==
  /\ Starts(t)
  /\ nextWs[ws[t]] \in Shares
  /\ ws' = [ws EXCEPT ![t] = nextWs[ws[t]]]
  /\ Goto(t, "inside")
  /\ UNCHANGED <<prog, nextWs, completed, lists, bar, snap, timing, serves>>

\* This thread encountered the loop first.
StartFirst(t) ==
  /\ Starts(t)
  /\ nextWs[ws[t]] = Null
  /\ nextWs' = [nextWs EXCEPT ![ws[t]] = Owned]
  /\ Goto(t, "alloc")
  /\ UNCHANGED <<prog, completed, lists, bar, ws, snap, timing, serves>>

\* Another thread is allocating it: gomp_ptrlock_get_slow.
StartLater(t) ==
  /\ Starts(t)
  /\ nextWs[ws[t]] \in {Owned, Waited}
  /\ Goto(t, "slow")
  /\ UNCHANGED <<prog, nextWs, completed, lists, bar, ws, snap, timing, serves>>

\* mutant: the word is set without looking at it.
MarkWaited_Store(t) ==
  /\ At(t, "slow")
  /\ nextWs' = [nextWs EXCEPT ![last[t]] = Waited]
  /\ Goto(t, "sleep")
  /\ UNCHANGED <<prog, completed, lists, bar, k, ws, last, snap, timing, serves>>

\* The compare-and-swap of 1 by 2.
MarkWaited(t) ==
  /\ At(t, "slow")
  /\ nextWs' = [nextWs EXCEPT ![last[t]] = IF @ = Owned THEN Waited ELSE @]
  /\ Goto(t, "sleep")
  /\ UNCHANGED <<prog, completed, lists, bar, k, ws, last, snap, timing, serves>>

\* mutant: the thread sleeps without looking at the word again.
FutexWait_Blind(t) ==
  /\ At(t, "sleep")
  /\ Goto(t, "asleep")
  /\ UNCHANGED <<prog, nextWs, completed, lists, bar, k, ws, last, snap, timing, serves>>

\* futex_wait returns at once unless the word is still 2.
FutexWait(t) ==
  /\ At(t, "sleep")
  /\ nextWs[last[t]] = Waited
  /\ Goto(t, "asleep")
  /\ UNCHANGED <<prog, nextWs, completed, lists, bar, k, ws, last, snap, timing, serves>>

StopWaiting(t) ==
  /\ At(t, "sleep")
  /\ nextWs[last[t]] # Waited
  /\ ws' = [ws EXCEPT ![t] = nextWs[last[t]]]
  /\ Goto(t, "inside")
  /\ UNCHANGED <<prog, nextWs, completed, lists, bar, k, last, snap, timing, serves>>

-----------------------------------------------------------------------------
(* alloc_work_share, and gomp_init_work_share on the share it returns.     *)

InitShare(t, s) ==
  /\ nextWs' = [nextWs EXCEPT ![s] = Null]
  /\ completed' = [completed EXCEPT ![s] = 0]
  /\ ws' = [ws EXCEPT ![t] = s]
  /\ serves' = [serves EXCEPT ![s] = k[t]]
  /\ Goto(t, "begin")
  /\ UNCHANGED <<prog, bar, k, last, timing>>

AllocCached(t) ==
  /\ At(t, "alloc")
  /\ listAlloc # Null
  /\ listAlloc' = nextFree[listAlloc]
  /\ InitShare(t, listAlloc)
  /\ UNCHANGED <<nextFree, listFree, chunk, made, snap>>

LoadFree(t) ==
  /\ At(t, "alloc")
  /\ listAlloc = Null
  /\ snap' = [snap EXCEPT ![t] = listFree]
  /\ Goto(t, "refill")
  /\ UNCHANGED <<prog, nextWs, completed, lists, bar, k, ws, last, timing, serves>>

\* mutant: the top of the stack is taken without a swap of list_free.
AllocFreed_Top(t) ==
  /\ At(t, "refill")
  /\ snap[t] # Null
  /\ listAlloc' = nextFree[snap[t]]
  /\ listFree' = Null
  /\ InitShare(t, snap[t])
  /\ UNCHANGED <<nextFree, chunk, made, snap>>

\* There are two free shares: all but the top of the stack can be taken.
AllocFreed(t) ==
  /\ At(t, "refill")
  /\ snap[t] # Null
  /\ LET s == nextFree[snap[t]] IN
       /\ s # Null
       /\ nextFree' = [nextFree EXCEPT ![snap[t]] = Null]
       /\ listAlloc' = nextFree[s]
       /\ InitShare(t, s)
  /\ UNCHANGED <<listFree, chunk, made, snap>>

\* A chunk twice as large as the one before.
AllocFresh(t) ==
  /\ At(t, "refill")
  /\ snap[t] # Null => nextFree[snap[t]] = Null
  /\ made + 2 * chunk <= MaxShares
  /\ chunk' = 2 * chunk
  /\ made' = made + chunk'
  /\ nextFree' = [s \in Shares |-> IF made < s /\ s + 1 < made' THEN s + 1
                                   ELSE IF made <= s /\ s < made' THEN Null
                                   ELSE nextFree[s]]
  /\ listAlloc' = made + 1
  /\ InitShare(t, made)
  /\ UNCHANGED <<listFree, snap>>

-----------------------------------------------------------------------------
(* gomp_loop_init, as far as the runtime is concerned, and                 *)
(* gomp_work_share_init_done: gomp_ptrlock_set.                            *)

Begin(t) ==
  /\ At(t, "begin")
  /\ started' = [started EXCEPT ![Region(t)] = k[t]]
  /\ Goto(t, "publish")
  /\ UNCHANGED <<prog, nextWs, completed, lists, bar, k, ws, last, snap, measured, origin,
                 serves>>

Publish(t) ==
  /\ At(t, "publish")
  /\ nextWs' = [nextWs EXCEPT ![last[t]] = ws[t]]
  /\ Goto(t, IF nextWs[last[t]] = Owned THEN "inside" ELSE "wake")
  /\ UNCHANGED <<prog, completed, lists, bar, k, ws, last, snap, timing, serves>>

\* futex_wake of every thread that sleeps on this word.
Wake(t) ==
  /\ At(t, "wake")
  /\ pc' = [u \in Threads |->
              IF u = t THEN "inside"
              ELSE IF pc[u] = "asleep" /\ last[u] = last[t] THEN "sleep" ELSE pc[u]]
  /\ UNCHANGED <<prog, nextWs, completed, lists, bar, k, ws, last, snap, timing, serves>>

-----------------------------------------------------------------------------
(* gomp_work_share_end_nowait.                                             *)

\* mutant: the report that is commented out in the code.
LeaveNowait_Reports(t) ==
  /\ At(t, "inside")
  /\ prog.kind # "orphan" /\ End(t) = "nowait"
  /\ completed[ws[t]] + 1 # P \/ last[t] = Null
  /\ completed' = [completed EXCEPT ![ws[t]] = @ + 1]
  /\ last' = [last EXCEPT ![t] = Null]
  /\ Goto(t, IF completed[ws[t]] + 1 = P THEN "record" ELSE "between")
  /\ UNCHANGED <<prog, nextWs, lists, bar, k, ws, snap, timing, serves>>

\* Not the last thread, or the combined loop, which has no share before it.
LeaveNowait(t) ==
  /\ At(t, "inside")
  /\ prog.kind # "orphan" /\ End(t) = "nowait"
  /\ completed[ws[t]] + 1 # P \/ last[t] = Null
  /\ completed' = [completed EXCEPT ![ws[t]] = @ + 1]
  /\ last' = [last EXCEPT ![t] = Null]
  /\ Goto(t, "between")
  /\ UNCHANGED <<prog, nextWs, lists, bar, k, ws, snap, timing, serves>>

LastNowait(t) ==
  /\ At(t, "inside")
  /\ prog.kind # "orphan" /\ End(t) = "nowait"
  /\ completed[ws[t]] + 1 = P /\ last[t] # Null
  /\ completed' = [completed EXCEPT ![ws[t]] = @ + 1]
  /\ Goto(t, "free")
  /\ UNCHANGED <<prog, nextWs, lists, bar, k, ws, last, snap, timing, serves>>

-----------------------------------------------------------------------------
(* gomp_work_share_end and gomp_work_share_end_cancel: the team barrier.   *)
(* The generation cannot change between the load of it and the decrement   *)
(* of awaited, for the thread has not been counted yet; the two are one    *)
(* action.  There are no tasks and nothing is cancelled.                   *)

\* mutant: the first thread to arrive frees the share, not the last.
Arrive_First(t) ==
  /\ At(t, "inside")
  /\ prog.kind # "orphan" /\ End(t) # "nowait"
  /\ awaited' = awaited - 1
  /\ snap' = [snap EXCEPT ![t] = gen]
  /\ Goto(t, IF awaited # P THEN "barrier"
             ELSE IF last[t] # Null THEN "free"
             ELSE IF End(t) = "cancel" THEN "release"
             ELSE "record")
  /\ UNCHANGED <<prog, nextWs, completed, lists, gen, k, ws, last, timing, serves>>

Arrive(t) ==
  /\ At(t, "inside")
  /\ prog.kind # "orphan" /\ End(t) # "nowait"
  /\ awaited' = awaited - 1
  /\ snap' = [snap EXCEPT ![t] = gen]
  /\ Goto(t, IF awaited # 1 THEN "barrier"
             ELSE IF last[t] # Null THEN "free"
             ELSE IF End(t) = "cancel" THEN "release"
             ELSE "record")
  /\ UNCHANGED <<prog, nextWs, completed, lists, gen, k, ws, last, timing, serves>>

\* mutant: awaited is not set back to the size of the team.
Release_NoReset(t) ==
  /\ At(t, "release")
  /\ gen' = gen + 1
  /\ last' = [last EXCEPT ![t] = Null]
  /\ Goto(t, "between")
  /\ UNCHANGED <<prog, nextWs, completed, lists, awaited, k, ws, snap, timing, serves>>

Release(t) ==
  /\ At(t, "release")
  /\ awaited' = P
  /\ gen' = gen + 1
  /\ last' = [last EXCEPT ![t] = Null]
  /\ Goto(t, "between")
  /\ UNCHANGED <<prog, nextWs, completed, lists, k, ws, snap, timing, serves>>

\* mutant: the thread does not wait for the generation to change.
PassBarrier_Early(t) ==
  /\ At(t, "barrier")
  /\ last' = [last EXCEPT ![t] = Null]
  /\ Goto(t, "between")
  /\ UNCHANGED <<prog, nextWs, completed, lists, bar, k, ws, snap, timing, serves>>

PassBarrier(t) ==
  /\ At(t, "barrier")
  /\ gen # snap[t]
  /\ last' = [last EXCEPT ![t] = Null]
  /\ Goto(t, "between")
  /\ UNCHANGED <<prog, nextWs, completed, lists, bar, k, ws, snap, timing, serves>>

-----------------------------------------------------------------------------
(* free_work_share: push the share on the stack list_free.                 *)

FreeShare(t) ==
  /\ At(t, "free")
  /\ snap' = [snap EXCEPT ![t] = listFree]
  /\ nextFree' = [nextFree EXCEPT ![last[t]] = listFree]
  /\ Goto(t, "push")
  /\ UNCHANGED <<prog, nextWs, completed, listAlloc, listFree, chunk, made, bar, k, ws, last,
                 timing, serves>>

Push(t) ==
  /\ At(t, "push")
  /\ IF listFree = snap[t]
     THEN /\ listFree' = last[t]
          /\ serves' = [serves EXCEPT ![last[t]] = Null]
          /\ Goto(t, "record")
     ELSE UNCHANGED <<listFree, serves>> /\ Goto(t, "free")
  /\ UNCHANGED <<prog, nextWs, completed, nextFree, listAlloc, chunk, made, bar, k, ws, last,
                 snap, timing>>

-----------------------------------------------------------------------------
(* bo_schedule_end, from the _end routines and from GOMP_parallel_end.     *)

Observe(t) ==
  /\ measured' = [measured EXCEPT ![k[t]] = @ + 1]
  /\ origin' = [origin EXCEPT ![k[t]] = started[Region(t)]]

Record(t) ==
  /\ At(t, "record")
  /\ Observe(t)
  /\ IF End(t) = "nowait"
     THEN last' = [last EXCEPT ![t] = Null] /\ Goto(t, "between")
     ELSE UNCHANGED last /\ Goto(t, "release")
  /\ UNCHANGED <<prog, nextWs, completed, lists, bar, k, ws, snap, started, serves>>

\* The master reports the combined loop before it waits in gomp_team_end.
ParallelEnd(t) ==
  /\ At(t, "between")
  /\ prog.kind = "combined" /\ t = Master
  /\ Observe(t)
  /\ Goto(t, "joined")
  /\ UNCHANGED <<prog, nextWs, completed, lists, bar, k, ws, last, snap, started, serves>>

Join(t) ==
  /\ At(t, "between")
  /\ k[t] = Last
  /\ ~(prog.kind = "combined" /\ t = Master)
  /\ Goto(t, "joined")
  /\ UNCHANGED <<prog, nextWs, completed, lists, bar, k, ws, last, snap, timing, serves>>

-----------------------------------------------------------------------------
(* Loops outside any parallel region: a share of their own, no team.       *)

StartOrphan(t) ==
  /\ At(t, "between")
  /\ prog.kind = "orphan"
  /\ k[t] < Last
  /\ k' = [k EXCEPT ![t] = @ + 1]
  /\ started' = [started EXCEPT ![prog.loops[k'[t]].region] = k'[t]]
  /\ Goto(t, "inside")
  /\ UNCHANGED <<prog, nextWs, completed, lists, bar, ws, last, snap, measured, origin, serves>>

EndOrphan(t) ==
  /\ At(t, "inside")
  /\ prog.kind = "orphan"
  /\ Goto(t, IF End(t) = "nowait" THEN "record" ELSE "between")
  /\ UNCHANGED <<prog, nextWs, completed, lists, bar, k, ws, last, snap, timing, serves>>

-----------------------------------------------------------------------------
Step(t) ==
  \/ StartKnown(t) \/ StartFirst(t) \/ StartLater(t)
  \/ MarkWaited(t) \/ FutexWait(t) \/ StopWaiting(t)
  \/ AllocCached(t) \/ LoadFree(t) \/ AllocFreed(t) \/ AllocFresh(t)
  \/ Begin(t) \/ Publish(t) \/ Wake(t)
  \/ LeaveNowait(t) \/ LastNowait(t)
  \/ Arrive(t) \/ Release(t) \/ PassBarrier(t)
  \/ FreeShare(t) \/ Push(t) \/ Record(t)
  \/ ParallelEnd(t) \/ Join(t)
  \/ StartOrphan(t) \/ EndOrphan(t)

Next == \E t \in Threads : Step(t)

Spec == Init /\ [][Next]_vars

\* Every thread is an OS thread that the kernel keeps scheduling.
FairSpec == Spec /\ \A t \in Threads : WF_vars(Step(t))

-----------------------------------------------------------------------------
(* Properties.                                                             *)

\* Labels at which the thread is still in the share of the loop before.
Starting == {"slow", "sleep", "asleep", "alloc", "refill"}

TypeOK ==
  /\ prog \in Programs
  /\ nextWs \in [Shares -> Shares \cup {Null, Owned, Waited}]
  /\ completed \in [Shares -> 0 .. P]
  /\ nextFree \in [Shares -> Shares \cup {Null}]
  /\ listAlloc \in Shares \cup {Null} /\ listFree \in Shares \cup {Null}
  /\ chunk \in Nat /\ made \in 0 .. MaxShares
  /\ awaited \in 0 .. P /\ gen \in Nat
  /\ pc \in [Threads -> Labels]
  /\ k \in [Threads -> 0 .. Last]
  /\ ws \in [Threads -> Shares \cup {Null}]
  /\ last \in [Threads -> Shares \cup {Null}]
  /\ snap \in [Threads -> Int]
  /\ started \in [Regions -> 0 .. Last]
  /\ measured \in [1 .. Last -> Nat]
  /\ origin \in [1 .. Last -> 0 .. Last]
  /\ serves \in [Shares -> (0 .. Last) \cup {Null}]

(***************************************************************************)
(* No use after free.  However far the threads of the team have drifted    *)
(* apart, the share a thread is in (or has left but will still read        *)
(* next_ws of) holds the loop of that thread: it has been neither freed    *)
(* nor initialised again for a later loop.                                 *)
(***************************************************************************)
SharesServe ==
  prog.kind # "orphan" =>
    \A t \in Threads :
      /\ serves[ws[t]] = IF pc[t] \in Starting THEN k[t] - 1 ELSE k[t]
      /\ last[t] # Null /\ pc[t] \in {"begin", "publish", "wake", "inside", "free", "push"} =>
           serves[last[t]] = k[t] - 1

\* The shares on the list that starts with s.
Linked(s) ==
  LET From[n \in 0 .. MaxShares] ==
        IF n = 0 THEN {s} \ {Null}
        ELSE From[n - 1] \cup ({nextFree[i] : i \in From[n - 1]} \ {Null})
  IN From[MaxShares]

(***************************************************************************)
(* The two lists hold the free shares, each on one of them: none is        *)
(* leaked, none is on both lists or on a list while it serves a loop, and  *)
(* the thread that allocates never meets the one that frees.               *)
(***************************************************************************)
NoShareLost ==
  /\ Linked(listAlloc) \cap Linked(listFree) = {}
  /\ Linked(listAlloc) \cup Linked(listFree) = {s \in 0 .. made - 1 : serves[s] = Null}

(***************************************************************************)
(* One observation per loop.  When the region is over, every loop has been *)
(* reported once, except that gomp_work_share_end reports no orphaned loop *)
(* and that a combined loop with a barrier is reported by gomp_work_share_ *)
(* end and by GOMP_parallel_end.  No observation reaches back before the   *)
(* beginning of its loop, and it starts there unless the region has begun  *)
(* another loop meanwhile, which takes a nowait loop.                      *)
(***************************************************************************)
Reports(i) ==
  CASE prog.kind = "orphan" /\ prog.loops[i].end = "wait"   -> 0
    [] prog.kind = "combined" /\ prog.loops[i].end = "wait" -> 2
    [] OTHER                                                -> 1

Overtaken(i) ==
  /\ prog.loops[i].end = "nowait"
  /\ i < Last /\ \E j \in i + 1 .. Last :
       /\ prog.loops[j].region = prog.loops[i].region
       /\ \A h \in i .. j - 1 : prog.loops[h].end = "nowait"

OneObservationPerLoop ==
  \A i \in 1 .. Last :
    /\ measured[i] <= Reports(i)
    /\ (\A t \in Threads : pc[t] = "joined") => measured[i] = Reports(i)
    /\ measured[i] > 0 =>
         origin[i] >= i /\ (~Overtaken(i) => origin[i] = i)

(***************************************************************************)
(* No wake-up is lost.  For a thread that sleeps until a share has been    *)
(* allocated, another one still has to publish that share and will find 2  *)
(* in the pointer lock, or it has found it and is about to wake all        *)
(* sleepers of this lock.  For a thread that the barrier holds, another    *)
(* one is still on its way there, or has come last and has not yet changed *)
(* the generation.                                                         *)
(***************************************************************************)
NoWakeUpLost ==
  \A t \in Threads :
    /\ pc[t] = "asleep" =>
         \E u \in Threads :
           /\ last[u] = last[t]
           /\ \/ pc[u] \in {"alloc", "refill", "begin", "publish"} /\ nextWs[last[t]] = Waited
              \/ pc[u] = "wake"
    /\ pc[t] = "barrier" /\ snap[t] = gen =>
         \E u \in Threads :
           \/ k[u] < k[t]
           \/ k[u] = k[t] /\ pc[u] \in Labels \ {"between", "barrier", "joined"}

(***************************************************************************)
(* Every thread reaches the end of the region: no wake-up is lost, neither *)
(* of a thread that waits for a share to be allocated nor at the barrier.  *)
(***************************************************************************)
AllJoin == <>(\A t \in Threads : pc[t] = "joined")

-----------------------------------------------------------------------------
(* The loops live the life described in LoopLife.                          *)

Entered(t) == IF pc[t] \in Starting \cup {"begin", "publish"} THEN k[t] - 1 ELSE k[t]
Finished(t) == IF pc[t] \in Starting \cup {"begin", "publish", "wake", "inside"}
               THEN k[t] - 1 ELSE k[t]

Life == INSTANCE LoopLife
  WITH opened <- Cardinality({i \in 1 .. Last : \E t \in Threads : Entered(t) >= i}),
       at <- [t \in Threads |-> Entered(t)],
       fin <- [t \in Threads |-> Finished(t)],
       recorded <- {i \in 1 .. Last : measured[i] > 0}

\* A loop is opened once and entered in order; its end is reported when all have left.
ImplementsLoopLife == Life!Spec
=============================================================================
