------------------------------ MODULE Factoring ------------------------------
(***************************************************************************)
(* The factoring iterators of gcc/libgomp/schedules.h: bo_iter_fac2_next,  *)
(* bo_iter_fss_next and bo_iter_ull_fss_next, at the granularity of their  *)
(* accesses to the shared work share: every atomic load and every          *)
(* compare-and-swap is one action, and the local computation between two   *)
(* of them is part of the action that follows it.                          *)
(*                                                                         *)
(* The iterators hand a loop out in batches of nthreads chunks.  Three     *)
(* words of the work share are involved and are never updated together:    *)
(* next (the first index not handed out), barrier (the index where the     *)
(* batch ends) and chunk_size (the chunk of the batch).                    *)
(*                                                                         *)
(* An index of the loop is represented by the number of strides between it *)
(* and the first index, so the sign and the size of incr disappear.  The   *)
(* C expression (end - start) / incr truncates, which matters when end is  *)
(* not a whole number of strides away: loop.ragged says that it is not.         *)
(***************************************************************************)
EXTENDS Integers, FiniteSets

CONSTANTS
  Threads,   \* the threads of the process
  Loops      \* the loops that may be started, see Loop

(***************************************************************************)
(* A loop as gomp_loop_init finds it: how many iterations it has, whether  *)
(* end - start is not a multiple of incr, whether it is an unsigned (_ull) *)
(* loop that counts down, the schedule, and for fss the first chunk that   *)
(* is derived from ws->param.  team is who executes it: in the iterators   *)
(* thr->ts.team has P threads.  nthreads is what gomp_loop_init takes for  *)
(* that number.  It is P for a loop inside the region, but the combined    *)
(* constructs call gomp_loop_init before gomp_team_start: there it is the  *)
(* size of the team outside, or 1.                                         *)
(***************************************************************************)
Loop ==
  [team : SUBSET Threads, nthreads : Nat \ {0}, iters : Nat, ragged : BOOLEAN,
   down : BOOLEAN, sched : {"fac2", "fss"}, first : Nat]

\* (end - start) / incr, the num_tasks of gomp_loop_init: whole strides only.
WholeStrides(l) == IF l.ragged THEN l.iters - 1 ELSE l.iters

(***************************************************************************)
(* x >= 1 in gomp_loop_init whatever ws->param is, so the first batch of   *)
(* fss takes at most all whole strides; for loops that count down          *)
(* num_tasks is computed from unsigned operands that wrapped around and    *)
(* is 0.                                                                   *)
(***************************************************************************)
ASSUME FactoringAssumption ==
  /\ IsFiniteSet(Threads)
  /\ \A l \in Loops :
       /\ l \in Loop /\ l.team # {}
       /\ l.ragged => l.iters > 0
       /\ l.first * l.nthreads <= WholeStrides(l)
       /\ l.sched = "fac2" \/ l.down => l.first = 0
       /\ l.down => l.sched = "fss"

VARIABLES
  loop,        \* the loop that was started; constant afterwards
  next,        \* ws->next
  barrier,     \* ws->barrier
  chunk_size,  \* ws->chunk_size
  pc,          \* pc[t]: where thread t is in the iterator
  start,       \* start[t]: its local start
  tbarrier,    \* tbarrier[t]: its local barrier
  tchunk,      \* tchunk[t]: its local chunk_size
  range,       \* range[t]: the last *pstart, *pend it returned
  exec         \* exec[i]: how often iteration i was handed out (history)

wsvars == <<loop, next, barrier, chunk_size>>
locals == <<start, tbarrier, tchunk>>
vars   == <<loop, next, barrier, chunk_size, pc, start, tbarrier, tchunk, range, exec>>

Team     == loop.team
P        == Cardinality(Team)
Iters    == loop.iters
NumTasks == WholeStrides(loop)

Iterations == 0 .. Iters - 1

(***************************************************************************)
(* The program counter.  "call" is outside the iterator (before the first  *)
(* call, or executing the block that the last call returned), "done" is    *)
(* after a call that returned false.  "head" is the top of while (1).      *)
(***************************************************************************)
Labels == {"call", "loadBarrier", "loadChunk", "head", "casBarrier", "casNext",
           "reNext", "reBarrier", "reNextOnly", "done", "trap"}

\* R: whole strides from s to the end.
R(s) == NumTasks - s

\* s + k * incr; the _ull iterators write s + k * -incr when counting down.
Ahead(s, k) == IF loop.down THEN s - k ELSE s + k

(***************************************************************************)
(* F.  fac2 divides by param = 2.0 and by nthreads.  In fss, 1 / R is an   *)
(* integer division: b2 is 0 for R > 1, so x = 2, and for R = 1 the        *)
(* quotient R / x is below 1 whatever b2 is.                               *)
(***************************************************************************)
RawF_Whole(s) == R(s)           \* mutant: what remains is not divided up
RawF(s)     == R(s) \div (2 * P)
F(s)        == IF RawF(s) <= 1 THEN 1 ELSE RawF(s)
NBarrier(s) == IF RawF(s) <= 1 THEN Iters ELSE Ahead(s, RawF(s) * P)

\* fss evaluates 1 / R, which traps on zero.
DividesByZero(s) == loop.sched = "fss" /\ R(s) = 0

\* mutant: the last chunk is not cut off at the end of the loop.
NEnd_NoCut(t) == Ahead(start[t], tchunk[t])

\* mutant: the last chunk stops at the last whole stride.
NEnd_WholeStrides(t) ==
  IF tchunk[t] < R(start[t]) THEN Ahead(start[t], tchunk[t])
  ELSE Ahead(start[t], R(start[t]))

\* nend, from the local chunk.
NEnd(t) == IF tchunk[t] < R(start[t]) THEN Ahead(start[t], tchunk[t]) ELSE Iters

(***************************************************************************)
(* What gomp_loop_init leaves in chunk_size and barrier: for fss the first *)
(* batch, for fac2 a chunk but no batch (first is 0).                      *)
(***************************************************************************)
FirstChunk ==
  IF loop.sched = "fss" THEN loop.first ELSE NumTasks \div (2 * loop.nthreads)
FirstBarrier == loop.first * loop.nthreads

\* A trapped thread takes the process down with it.
Running == \A t \in Threads : pc[t] # "trap"

At(t, label)   == t \in Team /\ Running /\ pc[t] = label
Goto(t, label) == pc' = [pc EXCEPT ![t] = label]

Init ==
  /\ loop \in Loops
  /\ next = 0
  /\ barrier = FirstBarrier
  /\ chunk_size = FirstChunk
  /\ pc = [t \in Threads |-> "call"]
  /\ start = [t \in Threads |-> 0]
  /\ tbarrier = [t \in Threads |-> 0]
  /\ tchunk = [t \in Threads |-> 0]
  /\ range = [t \in Threads |-> <<0, 0>>]
  /\ exec = [i \in Iterations |-> 0]

-----------------------------------------------------------------------------
(* The three loads on entry, in the order of the code.                     *)

\* mutant: chunk_size is loaded before barrier.
Enter_ChunkFirst(t) ==
  /\ At(t, "call")
  /\ start' = [start EXCEPT ![t] = next]
  /\ tchunk' = [tchunk EXCEPT ![t] = chunk_size]
  /\ Goto(t, "reBarrier")
  /\ UNCHANGED <<wsvars, tbarrier, range, exec>>

Enter(t) ==
  /\ At(t, "call")
  /\ start' = [start EXCEPT ![t] = next]
  /\ Goto(t, "loadBarrier")
  /\ UNCHANGED <<wsvars, tbarrier, tchunk, range, exec>>

LoadBarrier(t) ==
  /\ At(t, "loadBarrier")
  /\ tbarrier' = [tbarrier EXCEPT ![t] = barrier]
  /\ Goto(t, "loadChunk")
  /\ UNCHANGED <<wsvars, start, tchunk, range, exec>>

LoadChunk(t) ==
  /\ At(t, "loadChunk")
  /\ tchunk' = [tchunk EXCEPT ![t] = chunk_size]
  /\ Goto(t, "head")
  /\ UNCHANGED <<wsvars, start, tbarrier, range, exec>>

-----------------------------------------------------------------------------
(* The body of while (1).                                                  *)

\* mutant: off by one in the test for the end of the loop.
ReturnFalse_Early(t) ==
  /\ At(t, "head")
  /\ start[t] >= Iters - 1
  /\ Goto(t, "done")
  /\ UNCHANGED <<wsvars, locals, range, exec>>

ReturnFalse(t) ==
  /\ At(t, "head")
  /\ start[t] = Iters
  /\ Goto(t, "done")
  /\ UNCHANGED <<wsvars, locals, range, exec>>

AtBarrier(t) ==
  /\ At(t, "head")
  /\ start[t] # Iters
  /\ tbarrier[t] = start[t]

Trap(t) ==
  /\ AtBarrier(t)
  /\ DividesByZero(start[t])
  /\ Goto(t, "trap")
  /\ UNCHANGED <<wsvars, locals, range, exec>>

CasChunkOk(t) ==
  /\ AtBarrier(t)
  /\ ~DividesByZero(start[t])
  /\ chunk_size = tchunk[t]
  /\ chunk_size' = F(start[t])
  /\ tchunk' = [tchunk EXCEPT ![t] = F(start[t])]
  /\ Goto(t, "casBarrier")
  /\ UNCHANGED <<loop, next, barrier, start, tbarrier, range, exec>>

CasChunkFail(t) ==
  /\ AtBarrier(t)
  /\ ~DividesByZero(start[t])
  /\ chunk_size # tchunk[t]
  /\ tchunk' = [tchunk EXCEPT ![t] = chunk_size]
  /\ Goto(t, "reNext")
  /\ UNCHANGED <<wsvars, start, tbarrier, range, exec>>

\* After a failed swap of chunk_size: reload next, then barrier.
ReloadNext(t) ==
  /\ At(t, "reNext")
  /\ start' = [start EXCEPT ![t] = next]
  /\ Goto(t, "reBarrier")
  /\ UNCHANGED <<wsvars, tbarrier, tchunk, range, exec>>

ReloadBarrier(t) ==
  /\ At(t, "reBarrier")
  /\ tbarrier' = [tbarrier EXCEPT ![t] = barrier]
  /\ Goto(t, "head")
  /\ UNCHANGED <<wsvars, start, tchunk, range, exec>>

CasBarrierOk(t) ==
  /\ At(t, "casBarrier")
  /\ barrier = tbarrier[t]
  /\ barrier' = NBarrier(start[t])
  /\ tbarrier' = [tbarrier EXCEPT ![t] = NBarrier(start[t])]
  /\ Goto(t, "casNext")
  /\ UNCHANGED <<loop, next, chunk_size, start, tchunk, range, exec>>

CasBarrierFail(t) ==
  /\ At(t, "casBarrier")
  /\ barrier # tbarrier[t]
  /\ tbarrier' = [tbarrier EXCEPT ![t] = barrier]
  /\ Goto(t, "reNextOnly")
  /\ UNCHANGED <<wsvars, start, tchunk, range, exec>>

\* After a failed swap of barrier: reload next and keep the chunk just written.
ReloadNextOnly(t) ==
  /\ At(t, "reNextOnly")
  /\ start' = [start EXCEPT ![t] = next]
  /\ Goto(t, "head")
  /\ UNCHANGED <<wsvars, tbarrier, tchunk, range, exec>>

AtNext(t) ==
  \/ At(t, "casNext")
  \/ /\ At(t, "head")
     /\ start[t] # Iters
     /\ tbarrier[t] # start[t]

\* mutant: ws->next is stored without comparing it.
CasNextOk_Store(t) ==
  /\ AtNext(t)
  /\ next' = NEnd(t)
  /\ range' = [range EXCEPT ![t] = <<start[t], NEnd(t)>>]
  /\ exec' = [i \in Iterations |->
                IF start[t] <= i /\ i < NEnd(t) THEN exec[i] + 1 ELSE exec[i]]
  /\ Goto(t, "call")
  /\ UNCHANGED <<loop, barrier, chunk_size, locals>>

CasNextOk(t) ==
  /\ AtNext(t)
  /\ next = start[t]
  /\ next' = NEnd(t)
  /\ range' = [range EXCEPT ![t] = <<start[t], NEnd(t)>>]
  /\ exec' = [i \in Iterations |->
                IF start[t] <= i /\ i < NEnd(t) THEN exec[i] + 1 ELSE exec[i]]
  /\ Goto(t, "call")
  /\ UNCHANGED <<loop, barrier, chunk_size, locals>>

\* mutant: the value found in ws->next is not taken over.
CasNextFail_NoReload(t) ==
  /\ AtNext(t)
  /\ next # start[t]
  /\ Goto(t, "loadBarrier")
  /\ UNCHANGED <<wsvars, locals, range, exec>>

CasNextFail(t) ==
  /\ AtNext(t)
  /\ next # start[t]
  /\ start' = [start EXCEPT ![t] = next]
  /\ Goto(t, "loadBarrier")
  /\ UNCHANGED <<wsvars, tbarrier, tchunk, range, exec>>

-----------------------------------------------------------------------------
Step(t) ==
  \/ Enter(t) \/ LoadBarrier(t) \/ LoadChunk(t)
  \/ ReturnFalse(t) \/ Trap(t)
  \/ CasChunkOk(t) \/ CasChunkFail(t) \/ ReloadNext(t) \/ ReloadBarrier(t)
  \/ CasBarrierOk(t) \/ CasBarrierFail(t) \/ ReloadNextOnly(t)
  \/ CasNextOk(t) \/ CasNextFail(t)

\* The loop is over (or the process has been killed).
Over ==
  /\ ~Running \/ \A t \in Team : pc[t] = "done"
  /\ UNCHANGED vars

Next == (\E t \in Threads : Step(t)) \/ Over

Spec == Init /\ [][Next]_vars

\* Every thread is an OS thread that the kernel keeps scheduling.
FairSpec == Spec /\ \A t \in Threads : WF_vars(Step(t))

-----------------------------------------------------------------------------
(* Properties.                                                             *)

\* Every variable holds values of its C type; the shared indices stay in the loop.
TypeOK ==
  /\ loop \in Loops
  /\ next \in 0 .. Iters
  /\ barrier \in 0 .. Iters
  /\ chunk_size \in Nat
  /\ pc \in [Threads -> Labels]
  /\ start \in [Threads -> 0 .. Iters]
  /\ tbarrier \in [Threads -> 0 .. Iters]
  /\ tchunk \in [Threads -> Nat]
  /\ range \in [Threads -> (0 .. Iters) \X (0 .. Iters)]
  /\ exec \in [Iterations -> Nat]

(***************************************************************************)
(* Exact cover.  However the loads and swaps of the threads interleave,    *)
(* the iterations below ws->next have been handed out exactly once and the *)
(* others not at all; and when a thread is told that no work is left, that *)
(* is the whole loop.                                                      *)
(***************************************************************************)
EachIterationOnce ==
  /\ \A i \in Iterations : exec[i] = IF i < next THEN 1 ELSE 0
  /\ (\E t \in Threads : pc[t] = "done") => next = Iters

(***************************************************************************)
(* A call that returns true hands out at least one iteration.  chunk_size  *)
(* may well be 0 after gomp_loop_init (num_tasks < nthreads): what saves   *)
(* the iterator is that chunk_size is swapped before barrier, and that a   *)
(* thread loads next and barrier before chunk_size.                        *)
(***************************************************************************)
NoEmptyBlock ==
  [][\A t \in Threads : (pc[t] # "call" /\ pc'[t] = "call") => next' > next]_vars

\* The largest chunk that a batch rule may compute: half of an even share of the loop.
HalfShare == IF NumTasks \div (2 * P) < 1 THEN 1 ELSE NumTasks \div (2 * P)

\* A partial stride comes on top of the last block.
PartialStride == IF loop.ragged THEN 1 ELSE 0

(***************************************************************************)
(* No block is larger than half of an even share of the loop, not even one *)
(* of a thread whose chunk or barrier was stale when it swapped next.  The *)
(* exception is the first batch of fss, whose chunk is made for as many    *)
(* threads as gomp_loop_init sees.  The chunk that gomp_loop_init makes    *)
(* for fac2, half of the loop in a combined construct, is never used.      *)
(***************************************************************************)
NoBlockAboveShare ==
  \A t \in Threads :
    LET size == range[t][2] - range[t][1]
    IN  \/ size <= HalfShare + PartialStride
        \/ range[t][1] < FirstBarrier /\ size <= loop.first + PartialStride

\* Labels reached with a chunk that this call has read or written itself.
Committed == {"casBarrier", "casNext", "reNext", "reBarrier", "reNextOnly"}

\* Chunks of the batch rule; gomp_loop_init may leave 0 or far too large a chunk.
Fits(c) == c \in 1 .. HalfShare

\* Where the blocks of the first batch start, and where it ends.
FirstStarts == {k * loop.first : k \in 0 .. loop.nthreads}

(***************************************************************************)
(* What the threads can rely on between their accesses.  A local start is  *)
(* never ahead of ws->next.  A chunk that does not fit is the one from     *)
(* gomp_loop_init, and whoever is about to use it has a start and a        *)
(* barrier of the first batch: it stays inside that batch, or is at its    *)
(* end and replaces the chunk before it can swap next.                     *)
(***************************************************************************)
StaleLocals ==
  /\ \A t \in Threads :
       /\ start[t] <= next
       /\ pc[t] \in {"casBarrier", "casNext"} => start[t] # Iters
       /\ pc[t] \in Committed => Fits(tchunk[t])
       /\ pc[t] = "head" /\ ~Fits(tchunk[t]) =>
            /\ tchunk[t] = FirstChunk
            /\ tbarrier[t] = FirstBarrier
            /\ start[t] \in FirstStarts \cup {Iters}
  /\ ~Fits(chunk_size) =>
       /\ chunk_size = FirstChunk /\ barrier = FirstBarrier
       /\ next \in FirstStarts \cup {Iters}
       /\ \A t \in Threads :
            /\ start[t] \in FirstStarts \cup {Iters}
            /\ pc[t] \notin Committed
            /\ pc[t] \in {"loadChunk", "head"} => tbarrier[t] = FirstBarrier
            /\ pc[t] = "head" => tchunk[t] = FirstChunk

(***************************************************************************)
(* Every thread is eventually turned away: the retry loops around the      *)
(* three swaps neither starve a thread nor chase each other for ever.      *)
(* The one exception is the loop without a whole stride, whose division by *)
(* zero ends the process.                                                  *)
(***************************************************************************)
AllTurnedAway ==
  <>(\/ \A t \in Team : pc[t] = "done"
     \/ NumTasks = 0 /\ ~Running)

\* The iterator implements the abstract assignment of iterations to threads.
Assign == INSTANCE LoopAssign
  WITH iters <- Iters, handed <- next, away <- {t \in Threads : pc[t] = "done"}

ImplementsAssign == Assign!Spec

(***************************************************************************)
(* gcc/libgomp/loop.c, above the _start routines: a call returns true if   *)
(* there is any work for this thread, and false if all work was assigned.  *)
(* A call that ends in a trap does neither.                                *)
(***************************************************************************)
CallsReturn == \A t \in Threads : pc[t] # "trap"

(***************************************************************************)
(* gcc/libgomp/loop_ull.c, above the _start routines: the block that is    *)
(* returned is an iteration block of the loop.                             *)
(***************************************************************************)
BlocksInsideLoop == \A t \in Threads : range[t][1] >= 0 /\ range[t][2] >= 0
=============
