------------------------------- MODULE Weighted -------------------------------
(***************************************************************************)
(* The iterators for loops whose weights are known: gomp_iter_binlpt_next  *)
(* and gomp_iter_hss_next of gcc/libgomp/thirdparty_schedules.h, and the   *)
(* part of gomp_loop_init that prepares a loop for them.                   *)
(*                                                                         *)
(* A BinLPT thread looks for its next iterations in a map from iterations  *)
(* to threads and touches nothing that another thread writes, except that  *)
(* the number of iterations is in a global, __ntasks.  An HSS thread works *)
(* under ws->lock, on the shared loop_start and wremaining and on the      *)
(* globals __ntasks and __tasks.  The globals are those of the loop that   *)
(* was initialised last.                                                   *)
(*                                                                         *)
(* The team executes a sequence of loops with stride 1.  A call of an      *)
(* iterator, with the block it returns, is one action: the calls of HSS    *)
(* exclude each other, those of BinLPT commute.                            *)
(***************************************************************************)
EXTENDS BinLPT, FiniteSets

CONSTANTS
  P,      \* team->nthreads; the threads are numbered from 0
  Plans,  \* what the team may be asked to do
  Wrap    \* 2 to the power of the width of unsigned (2^32 in the code)

Threads == 0 .. P - 1

(***************************************************************************)
(* A plan: sched is "binlpt" or "hss", maxThreads what omp_get_max_threads *)
(* returns, nowait whether the loops end without a barrier.  Each loop has *)
(* n iterations from start on, with weights task[0] .. task[n - 1], and    *)
(* map, the BinLPT map it has already: from the state file, where the      *)
(* tuner has put one, or from an execution of the loop with another number *)
(* of threads.  It is empty if there is none.                              *)
(*                                                                         *)
(* bo_binlpt_load_loop sorts 2 * maxThreads chunks in room for n, and a    *)
(* thread that is still in a loop when a longer one is initialised, or     *)
(* whose map was made for fewer iterations, reads behind the end of its    *)
(* map; none of this happens in a plan.                                    *)
(***************************************************************************)
ASSUME WeightedAssumption ==
  /\ P \in Nat \ {0} /\ Wrap \in Nat \ {0}
  /\ \A p \in Plans :
       /\ p.sched \in {"binlpt", "hss"}
       /\ p.maxThreads \in Nat \ {0} /\ p.nowait \in BOOLEAN
       /\ p.len \in Nat
       /\ \A l \in 1 .. p.len :
            /\ p.loops[l].n \in Nat \ {0} /\ p.loops[l].start \in Nat
            /\ p.loops[l].task \in [0 .. p.loops[l].n - 1 -> Nat]
            /\ p.loops[l].map \in [{} -> Nat] \cup [0 .. p.loops[l].n - 1 -> Nat]
            /\ p.sched = "binlpt" /\ DOMAIN p.loops[l].map = {} =>
                 2 * p.maxThreads <= p.loops[l].n
            /\ p.nowait /\ 1 < l => p.loops[l].n <= p.loops[l - 1].n

VARIABLES
  plan,        \* the plan; constant
  opened,      \* the loop that was initialised last: __tasks and __ntasks are of it
  ntasks,      \* __ntasks
  loopStart,   \* loopStart[l]: ws->loop_start in the work share of loop l
  wremaining,  \* wremaining[l]: ws->wremaining
  taskmap,     \* taskmap[l]: what bo_binlpt_load_loop returns for loop l; constant
  threadStart, \* threadStart[l][t]: ws->thread_start[t]
  at,          \* at[t]: the loop that thread t has entered last
  away,        \* away[l]: the threads that were told that no work is left
  exec         \* exec[l][i]: how often iteration i was executed (history)

shared == <<loopStart, wremaining, threadStart>>
vars == <<plan, opened, ntasks, loopStart, wremaining, taskmap, threadStart, at, away, exec>>

Loops == 1 .. plan.len
N(l)  == plan.loops[l].n
Task(l) == plan.loops[l].task
Iterations(l) == 0 .. N(l) - 1

\* Loop l has no map yet: loop.binlpt.size() is 0.
MapIsMade(l) == DOMAIN plan.loops[l].map = {}

\* bo_binlpt_load_loop: the map is made only if there is none.
BinlptMap(l) ==
  IF MapIsMade(l) THEN TaskMap(Task(l), N(l), plan.maxThreads) ELSE plan.loops[l].map

Ceil(a, b) == (a + b - 1) \div b

Init ==
  /\ plan \in Plans
  /\ opened = 0 /\ ntasks = 0
  /\ loopStart = [l \in Loops |-> plan.loops[l].start]
  /\ wremaining = [l \in Loops |-> 0]
  /\ taskmap = [l \in Loops |-> IF plan.sched = "binlpt" THEN BinlptMap(l)
                                ELSE [i \in Iterations(l) |-> 0]]
  /\ threadStart = [l \in Loops |-> [t \in Threads |-> 0]]
  /\ at = [t \in Threads |-> 0]
  /\ away = [l \in Loops |-> {}]
  /\ exec = [l \in Loops |-> [i \in Iterations(l) |-> 0]]

-----------------------------------------------------------------------------
(* Entering the next loop.  The first thread initialises it.               *)

MayEnter(t, l) ==
  /\ l \in Loops
  /\ l > 1 => t \in away[l - 1] /\ (plan.nowait \/ away[l - 1] = Threads)

InitLoop(l) ==
  /\ opened' = l
  /\ ntasks' = N(l)
  /\ loopStart' = [loopStart EXCEPT ![l] = plan.loops[l].start]
  /\ IF plan.sched = "binlpt"
     THEN /\ threadStart' = [threadStart EXCEPT ![l] = [t \in Threads |-> 0]]
          /\ UNCHANGED wremaining
     ELSE /\ wremaining' = [wremaining EXCEPT ![l] = Sum(Task(l), N(l))[N(l)] % Wrap]
          /\ UNCHANGED threadStart

Enter(t) ==
  LET l == at[t] + 1 IN
  /\ MayEnter(t, l)
  /\ at' = [at EXCEPT ![t] = l]
  /\ IF opened < l THEN InitLoop(l) ELSE UNCHANGED <<opened, ntasks, shared>>
  /\ UNCHANGED <<plan, taskmap, away, exec>>

-----------------------------------------------------------------------------
InLoop(t) == at[t] > 0 /\ t \notin away[at[t]]

\* Bound: executions are counted up to two.
OneMore(n) == IF n < 2 THEN n + 1 ELSE n

\* The block lo .. hi - 1 of iterations of loop l, counted from its first.
Execute(l, lo, hi) ==
  exec' = [exec EXCEPT ![l] =
             [i \in Iterations(l) |-> IF lo <= i /\ i < hi THEN OneMore(@[i]) ELSE @[i]]]

TurnAway(t) == away' = [away EXCEPT ![at[t]] = @ \cup {t}]

(***************************************************************************)
(* gomp_iter_binlpt_next: the next run of iterations that the map gives to *)
(* this thread.                                                            *)
(***************************************************************************)
Mine(t) == {i \in threadStart[at[t]][t] .. ntasks - 1 : taskmap[at[t]][i] = t}

\* mutant: the search goes on one iteration behind the end of the block.
BinlptBlock_Past(t) ==
  LET l  == at[t]
      lo == Least(Mine(t))
      hi == Least({ntasks} \cup {i \in lo + 1 .. ntasks - 1 : taskmap[l][i] # t})
  IN /\ InLoop(t) /\ plan.sched = "binlpt"
     /\ Mine(t) # {}
     /\ threadStart' = [threadStart EXCEPT ![l][t] = hi + 1]
     /\ Execute(l, lo, hi)
     /\ UNCHANGED <<plan, opened, ntasks, loopStart, wremaining, taskmap, at, away>>


\* mutant: the search goes on behind the first iteration of the block.
BinlptBlock_Next(t) ==
  LET l  == at[t]
      lo == Least(Mine(t))
      hi == Least({ntasks} \cup {i \in lo + 1 .. ntasks - 1 : taskmap[l][i] # t})
  IN /\ InLoop(t) /\ plan.sched = "binlpt"
     /\ Mine(t) # {}
     /\ threadStart' = [threadStart EXCEPT ![l][t] = lo + 1]
     /\ Execute(l, lo, hi)
     /\ UNCHANGED <<plan, opened, ntasks, loopStart, wremaining, taskmap, at, away>>

BinlptBlock(t) ==
  LET l  == at[t]
      lo == Least(Mine(t))
      hi == Least({ntasks} \cup {i \in lo + 1 .. ntasks - 1 : taskmap[l][i] # t})
  IN /\ InLoop(t) /\ plan.sched = "binlpt"
     /\ Mine(t) # {}
     /\ threadStart' = [threadStart EXCEPT ![l][t] = hi]
     /\ Execute(l, lo, hi)
     /\ UNCHANGED <<plan, opened, ntasks, loopStart, wremaining, taskmap, at, away>>

BinlptEnd(t) ==
  /\ InLoop(t) /\ plan.sched = "binlpt"
  /\ Mine(t) = {}
  /\ TurnAway(t)
  /\ UNCHANGED <<plan, opened, ntasks, shared, taskmap, at, exec>>

-----------------------------------------------------------------------------
(***************************************************************************)
(* gomp_iter_hss_next: from loop_start on, iterations whose weight comes   *)
(* closest to 1 / (1.5 * nthreads) of what remains.                        *)
(***************************************************************************)
Weight(lo, hi) ==
  LET sum == Sum(Task(opened), ntasks) IN sum[hi] - sum[lo]

ChunkSize(l) ==
  LET share == Ceil(2 * wremaining[l], 3 * P) IN IF share < 1 THEN 1 ELSE share

\* mutant: the block ends with the iteration that makes it as heavy as its share.
Fits_Over(l, lo, i) == Weight(lo, i + 1) >= ChunkSize(l)

\* Does the block from lo end with iteration i?
Fits(l, lo, i) ==
  LET w1 == Weight(lo, i + 1)
      w2 == IF i + 1 < ntasks THEN Weight(lo, i + 2) ELSE 0
  IN /\ w2 > ChunkSize(l)
     /\ w1 >= ChunkSize(l) \/ w2 - ChunkSize(l) > ChunkSize(l) - w1

HssEndOf(l, lo) ==
  IF lo < ntasks
  THEN Least({ntasks} \cup {i + 1 : i \in {j \in lo .. ntasks - 1 : Fits(l, lo, j)}})
  ELSE lo

(***************************************************************************)
(* Only loop_start = __ntasks makes the call return false.  When it is     *)
(* beyond, the block is empty but true is returned, and the code that      *)
(* expand_omp_for_generic puts around the call executes the body before    *)
(* its test.                                                               *)
(***************************************************************************)
HssBlock(t) ==
  LET l     == at[t]
      lo    == loopStart[l]
      hi    == HssEndOf(l, lo)
      first == plan.loops[l].start
  IN /\ InLoop(t) /\ plan.sched = "hss"
     /\ lo # ntasks
     /\ loopStart' = [loopStart EXCEPT ![l] = hi]
     /\ wremaining' =
          [wremaining EXCEPT ![l] = IF lo < hi THEN (@ - Weight(lo, hi)) % Wrap ELSE @]
     /\ Execute(l, lo - first, (IF lo < hi THEN hi ELSE lo + 1) - first)
     /\ UNCHANGED <<plan, opened, ntasks, taskmap, threadStart, at, away>>

HssEnd(t) ==
  /\ InLoop(t) /\ plan.sched = "hss"
  /\ loopStart[at[t]] = ntasks
  /\ TurnAway(t)
  /\ UNCHANGED <<plan, opened, ntasks, shared, taskmap, at, exec>>

-----------------------------------------------------------------------------
Step(t) ==
  Enter(t) \/ BinlptBlock(t) \/ BinlptEnd(t) \/ HssBlock(t) \/ HssEnd(t)

Over == plan.len > 0 => away[plan.len] = Threads

\* The team goes on with something else.
Finished == Over /\ UNCHANGED vars

Next == (\E t \in Threads : Step(t)) \/ Finished

Spec == Init /\ [][Next]_vars

\* Every thread is an OS thread that the kernel keeps scheduling.
FairSpec == Spec /\ \A t \in Threads : WF_vars(Step(t))

-----------------------------------------------------------------------------
(* Properties.                                                             *)

TypeOK ==
  /\ plan \in Plans
  /\ opened \in 0 .. plan.len /\ ntasks \in Nat
  /\ loopStart \in [Loops -> Nat]
  /\ wremaining \in [Loops -> 0 .. Wrap - 1]
  /\ \A l \in Loops :
       /\ DOMAIN taskmap[l] = Iterations(l)
       /\ threadStart[l] \in [Threads -> 0 .. N(l)]
       /\ exec[l] \in [Iterations(l) -> 0 .. 2]
  /\ at \in [Threads -> 0 .. plan.len]
  /\ away \in [Loops -> SUBSET Threads]

(***************************************************************************)
(* Each iteration once.  No iteration is executed twice; when the team is  *)
(* through with a loop, all of it has been executed, except what a BinLPT  *)
(* map gives to threads the team does not have: one that was made for      *)
(* omp_get_max_threads threads or loaded from the state file, where the    *)
(* tuner numbers the threads from 1.  A nowait loop may lose iterations    *)
(* when another number of iterations overwrites __ntasks.                  *)
(***************************************************************************)
Undisturbed(l) == plan.nowait => \A m \in Loops : N(m) = N(l)
Taken(l, i)    == plan.sched = "binlpt" => taskmap[l][i] \in Threads

EachIterationOnce ==
  \A l \in Loops : \A i \in Iterations(l) :
    /\ exec[l][i] <= 1
    /\ away[l] = Threads /\ Undisturbed(l) =>
         exec[l][i] = IF Taken(l, i) THEN 1 ELSE 0

(***************************************************************************)
(* The longest a thread is busy with a map that binlpt_balance makes is    *)
(* within Graham's bound, 4/3 - 1/(3 m) for m threads, of the best         *)
(* distribution of the chunks.  Nothing is said of a map that the loop has *)
(* already: it was made for other weights or another number of threads.    *)
(* The maps do not change: they are looked at before the first loop.       *)
(***************************************************************************)
Part(w, g, t, n) == Sum([x \in 0 .. n - 1 |-> IF g[x] = t THEN w[x] ELSE 0], n)[n]

MapNearBest ==
  plan.sched = "binlpt" /\ opened = 0 =>
    LET m == plan.maxThreads
        c == 2 * m
        Team == 0 .. m - 1
    IN \A l \in Loops : MapIsMade(l) =>
       \A best \in [0 .. c - 1 -> Team] : \A t \in Team : \E u \in Team :
         3 * m * Part(Task(l), taskmap[l], t, N(l)) <=
           (4 * m - 1) * Part(Chunks(Task(l), N(l), c), best, u, c)

Heaviest(l) == CHOOSE w \in {Task(l)[i] : i \in Iterations(l)} :
                 \A i \in Iterations(l) : Task(l)[i] <= w

(***************************************************************************)
(* An HSS block of more than one iteration is never heavier than its share *)
(* of what remains by more than half an iteration.                         *)
(***************************************************************************)
BlockFitsShare ==
  [][\A l \in Loops :
       loopStart'[l] > loopStart[l] + 1 =>
         2 * (Weight(loopStart[l], loopStart'[l]) - ChunkSize(l)) <= Heaviest(opened)]_vars

\* Every thread gets through all loops.
AllTurnedAway == <>Over

(***************************************************************************)
(* gcc/libgomp/loop.c, above the _start routines: a call returns false if  *)
(* all work was assigned to other threads prior to its arrival.            *)
(***************************************************************************)
AllWorkAssigned ==
  \A l \in Loops : away[l] # {} => \A i \in Iterations(l) : exec[l][i] > 0
==============================================================================
