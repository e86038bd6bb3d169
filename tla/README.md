# bosched: a verification development

bosched tunes the scheduling of OpenMP loops by Bayesian optimisation. It is a
modified libgomp (`src/gcc/libgomp`), a runtime library that is linked into the
target program (`src/*.cpp`, `src/*.hpp`) and an offline tuner
(`src/bosched.jl`, `src/LABO`). This directory holds TLA+ models of the parts
where threads or processes interact, TLC configurations that check them on
small instances, and TLAPS proofs for every value of the constants.

## 1. Inventory

| Part | Source | State it keeps | Operations | Hard because |
|---|---|---|---|---|
| Factoring iterators (fac2, fss, BO_FSS) | `schedules.h`, `gomp_loop_init` in `loop.c` | `ws->next`, `ws->barrier`, `ws->chunk_size`; locals of each thread | `bo_iter_fac2_next`, `bo_iter_fss_next`, `_ull` forms | three words, swapped one at a time without a lock; stale locals |
| Self-scheduling iterators (dynamic, css, guided, tss, tape) | `iter.c`, `schedules.h` | `ws->next`, `ws->count`, `ws->mode` | `*_next` | lost swaps, fetch-and-add past the end, overflow, unsigned wrap-around |
| Unsigned loops | `loop_ull.c`, `iter_ull.c`, `schedules.h` | the `_ull` fields | the same | counting down in unsigned arithmetic |
| BinLPT, HSS | `thirdparty_schedules.h`, `utils.hpp` | `ws->taskmap`, `ws->thread_start`, `ws->wremaining`, globals `__ntasks`, `__tasks` | `gomp_iter_binlpt_next`, `gomp_iter_hss_next` | globals shared by consecutive nowait loops |
| Work-share life cycle | `work.c`, `loop.c`, `parallel.c`, `team.c` | `next_ws` (pointer lock), `threads_completed`, free lists, the team barrier | `gomp_work_share_start`, `_init_done`, `_end`, `_end_nowait`, `_end_cancel` | threads in different loops at once; one begin and one end per loop |
| State file | `bosched.cpp`, `state_io.hpp`, `loop_state.hpp` | `.bostate.<prog>.json`, its `.lock`, `_loop_states`, `_is_new_file` | `bo_load_data` (constructor), `bo_schedule_parameter`, `bo_schedule_begin`, `bo_schedule_end`, `bo_save_data` (destructor) | overlapping processes, crashes, stale memory, uninitialised fields |
| Tuner | `bosched.jl`, `LABO/` | the same file | `update_dataset`, `bosched_mode`, `main` | takes no lock; depends on what every earlier execution stored |
| Workload parameters | `param.hpp` | `_params` | `load_workload_params` | nothing concurrent |
| Profiling | `profile.cpp` | `_timestamp`, `_loads` | `iteration_profile_start`, `_stop` | slots indexed by the raw loop variable |
| Statistics | `tls.cpp`, `performance.hpp` | `_total_runtime`, time stamps per thread | `iteration_start_record`, `_stop_record` | atomic sum only |
| Schedule selection | `env.c`, `loop.c` | `run_sched_var`, `run_sched_chunk_size` | `parse_schedule`, `GOMP_loop_runtime_start` | sequential |
| NUMA merging | `merge_states.py` | state files of the nodes | `main` | several files, no locks |
| Simulator, compiler changes | `simulation/`, `gcc/gcc/omp-expand.c` | none at run time | | |

How they interact. The compiler passes a region id to the `GOMP_loop_*` calls.
The first thread that reaches a loop allocates the work share
(`gomp_work_share_start`) and initialises it in `gomp_loop_init`, which asks the runtime for the parameter of the region
(`bo_schedule_parameter`) and reports the beginning (`bo_schedule_begin`). All
threads then call the iterator until it returns false; the end routine reports
the end (`bo_schedule_end`). When the program exits, the destructor writes one
row of observations per loop to the state file. The tuner reads that file,
chooses the next parameter of each loop and writes it back.

What makes each part correct: the iterators hand out every iteration once and
finish; a work share is not reused while a thread is in it, and every beginning
has one end; the state file stays readable, loses no observation, and its
parameters are used. `PROJECT.json` lists the hazards of the code at their lines,
with the properties that cover them.

## 2. Modules

| Module | Models |
|---|---|
| `LoopAssign` | what a work-sharing loop promises: iterations in order, in non-empty blocks, each once, and nobody turned away early |
| `Factoring` | fac2 and fss, per access to the work share; implements `LoopAssign` |
| `SelfScheduling` | dynamic, css, guided, tss and tape, per access; implements `LoopAssign` |
| `BinLPT` | `binlpt_balance` as functions: cutting into chunks, sorting, dealing |
| `Weighted` | the BinLPT and HSS iterators over consecutive loops, with the globals they read |
| `LoopLife` | what a parallel region promises about its loops: opened once, entered in order, barriers kept, measured when they are over |
| `WorkShare` | work shares, pointer locks, team barrier, free lists and the calls that measure a loop, per access; implements `LoopLife` |
| `BoState` | executions, the state file, its lock file, the tuner, crashes |
| `FactoringProofs`, `SelfSchedulingProofs`, `BinLPTProofs`, `WeightedProofs`, `BoStateProofs`, `WorkflowProofs`, `SharesProofs`, `LoopLifeProofs` | theorems, section 5 |
| `MCFactoring`, `MCSelfScheduling`, `MCWeighted`, `MCWorkShare`, `MCBoState` | teams, loops, programs and environments for TLC |

How they fit together. `WorkShare` brings a thread into a loop ("inside") and out
of it; what it does inside is the business of `Factoring`, `SelfScheduling` or
`Weighted`, each of which starts with an initialised work share and ends when
every thread has been told that no work is left. `Weighted` has a sequence of
loops of its own, because its globals outlive a loop. One observation of
`WorkShare` per loop is what `BoState` calls executing a loop.

### Indices

In `Factoring` and `SelfScheduling` an index is the number of strides between it
and the first index of the loop, so the sign and the size of `incr` disappear. The
iterators compute `(end - start) / incr`, which drops a partial last stride; the
field `ragged` of a loop says that there is one. Then `NumTasks = Iters - 1`
although the loop has `Iters` iterations, and the index `Iters` stands for `end`.

### Factoring

The variable `loop` is the loop that was started, chosen in `Init` from the
constant `Loops` and then constant. Its field `team` is who executes it, and `nthreads`
what `gomp_loop_init` takes for the size of the team. The two differ in combined
constructs: `gomp_parallel_loop_start` calls `gomp_loop_init` before `gomp_team_start`
(`loop.c:1052`), so it sees the team outside, normally one thread. `FirstChunk` and
`FirstBarrier` are what it leaves in the work share. The variables `next`, `barrier` and
`chunk_size` are the fields of the work share; `start`, `tbarrier` and `tchunk` are
the local variables of a thread, and `pc` is its place between two accesses. The
three loads on entry are `Enter`, `LoadBarrier` and `LoadChunk`. At the top of the
loop a thread returns false (`ReturnFalse`), starts a batch if its `start` is at
its `barrier` (`CasChunkOk`/`CasChunkFail`, then `CasBarrierOk`/`CasBarrierFail`,
with the reloads of each failure), and finally swaps `next`
(`CasNextOk`/`CasNextFail`). `range` is what the last successful call returned,
`exec` counts how often each iteration was handed out. Both are there for the
properties only.

Loads are relaxed in the source. The model performs them in program order, which
is what the x86-64 build does; `NoEmptyBlock` depends on it (the mutant
`Enter_ChunkFirst` swaps two of them and breaks it).

Two observations made while modelling, which no property states:

* the comment at `schedules.h:83` that `ws->next` is the only word that changes
  does not hold for these two iterators;
* a thread with stale locals can swap an older, larger chunk back in, and `next`
  can jump over `barrier`; from then on no batch is started and the chunk stays
  as it is. `NoBlockAboveShare` is what remains true: after the first batch of fss no
  block exceeds `HalfShare`, half of an even share of the loop (but at least one
  iteration), plus the partial stride.

### SelfScheduling

`loop` is a variable here too. `Mode` is the overflow protection of
`gomp_loop_init` and `gomp_loop_ull_init`, with the `nthreads` they see: `base` is how far
the loop starts from 0 (from `ULLONG_MAX` when a `gomp_ull` counts down), `Last` where
the word ends, `Edge` how much of it the comparison uses. `FetchAdd` is the whole of a
mode 1 call; `Wrapped` makes `ws->next` wrap round when the addition leaves the word.
`Protected` says that a loop has the room it needs: if `nthreads` is too small, the
loop must end that far below the edge anyway. Every other schedule
loads `next` (`Load`; tss first numbers its call, `CountCall`), and then returns
false, wins the compare-and-swap or loses it. `Wrap` is 2 to the width of a long,
`HalfWord` the square root of that, halved.

`Tape3K` gives the chunk of tape for v = 3 in integers: 2K <= 2T + 9 and
(2T + 9 - 2K)^2 >= 9 (8T + 9) is K <= T + 4.5 - 3 sqrt(2T + 2.25) without the root.
For T in 2 .. 5 the value is -1 and becomes the largest unsigned number, so the
caller takes everything that is left.

### BinLPT and Weighted

A plan is what the team is asked to do: the schedule, what `omp_get_max_threads`
returned when the runtime computed the maps, whether the loops are nowait, and the
loops with the weight of every iteration and the map they have already, if any:
`bo_binlpt_load_loop` makes a map only when none was loaded from the state file or left
by an earlier execution of the loop (`BinlptMap`). `Enter` brings a thread to its next loop;
the first one prepares it (`InitLoop`) and with that replaces `__ntasks` and
`__tasks`, the variables `ntasks` and `opened`. A call of an iterator is one action:
HSS holds `ws->lock` throughout, and a BinLPT call writes only what no other
thread reads.

`TaskMap` is `binlpt_balance`, with the pairwise exchanges of `insertion` in the
order of the code, since equal weights end up in another order under another sort.
`HssBlock` with `lo` beyond `ntasks` executes one iteration: the call returns true
with an empty block, and the code around it tests after the body.

### WorkShare

`pc` names the places between two accesses of a shared word. `gomp_ptrlock_get` is
`StartKnown`, `StartFirst` (0 becomes 1) or `StartLater`, which goes on with the
compare-and-swap of 1 by 2 (`MarkWaited`), `FutexWait` or `StopWaiting`;
`gomp_ptrlock_set` is `Publish` and, when somebody waits, `Wake`. `alloc_work_share`
is `AllocCached`, `LoadFree`, then `AllocFreed` or `AllocFresh`; `free_work_share` is
`FreeShare` and `Push` with its retry. `Arrive` is `gomp_barrier_wait_start`, after
which the last thread frees, records and releases and the others wait in
`PassBarrier`. `Record` and `ParallelEnd` call `bo_schedule_end`; `Begin` is
`bo_schedule_begin`.

A program (constant `Programs`) is a parallel region with loops that end with a
barrier, a cancellation barrier or without one, a combined construct whose loop is
open when the team starts, or a sequence of loops outside any region.
`serves`, `measured` and `origin` are history variables: which loop a share was
initialised for, how often a loop was reported, and from which loop's beginning
its time was taken.

The refinement of `LoopLife` computes `at` and `fin` from `pc` and `k`: a thread has
entered a loop once the share is known to it, and finished it with its arrival at
the barrier or its increment of `threads_completed`.

### BoState

An execution `p` goes through `Start` (or `StartFails`), any number of `Execute`,
`Exit`, `Lock` (or `LockBusy`), `Truncate`, `Write` and `Unlock`; the tuner through
`TuneRead` (or `TuneFails`), `TuneTruncate` and `TuneWrite`. `Crash` and `TuneCrash`
may come in between. Values of parameters are replaced by their origin (`"draw"`
from the Sobol sequence, `"tuned"`, `"best"`, `"indet"` for a field that was never
assigned), and a list of observations by whether each is a row or empty (`"hole"`).
`num_tasks` is `"real"`, `"zero"` after an execution without a whole iteration, or
unassigned; an unassigned one may or may not be 0 when it is written, and reading
the last element of an empty row may or may not end the process.

The constants describe the workflow: `Serial` (one process at a time), `EveryLoop`
(an execution reaches every loop), `Empty` (a loop may have no iteration),
`Crashes`, and the environments `Envs`. The history variables are `total`
(executions that reached the end of the program with observations), `tuned` and
`failed`.

## 3. Runs

| Run | Instance | Checks |
|---|---|---|
| `factoring_loops` | eight loops. Inside a region: fac2 with 2 threads and 17 iterations; fss with 2 threads and a large first batch; fss with 3 threads, 5 iterations, a partial stride and first chunk 0; fss with only a partial stride. Initialised for one thread: fac2 with 10 iterations, fss with a first block of 5 of 7 iterations, and of all whole strides. Initialised for three and executed by two: fss | `TypeOK`, `EachIterationOnce`, `NoBlockAboveShare`, `StaleLocals`, `NoEmptyBlock`, `AllTurnedAway`, `ImplementsAssign` |
| `factoring_trap` | the loop with only a partial stride | `CallsReturn` is violated |
| `factoring_down` | 2 threads, an unsigned loop counting down | `BlocksInsideLoop` is violated |
| `selfscheduling` | 3 threads, twelve loops, signed and unsigned, up and down, two of them combined, words of 8 bits | `TypeOK`, `NoOverflow`, `ImplementsAssign`, `AllTurnedAway` |
| `weighted_plans` | 2 threads; every loop of 5 iterations with weights 0, 1, 4; pairs of loops with and without nowait; a map for 3 threads; maps that are there already | `TypeOK`, `EachIterationOnce`, `MapNearBest`, `BlockFitsShare`, `AllTurnedAway` |
| `weighted_late` | HSS loops that start at 1 and 2 | `AllWorkAssigned` is violated |
| `workshare_team` | 3 threads; four nowait loops; barriers, cancellation and nowait mixed; combined and orphaned loops | `TypeOK`, `SharesServe`, `NoShareLost`, `OneObservationPerLoop`, `NoWakeUpLost`, `ImplementsLoopLife`, `AllJoin` |
| `bostate_workflow` | one process at a time, 2 loops, 6 executions, 3 tunings | `TypeOK`, `RunsAreRecorded`, `FileStaysUsable`, `ResultsAreUsed` |
| `bostate_overlap` | 2 processes, tuner, crashes, every environment, loops without iterations, 4 executions, 2 tunings | `WritersExclude`, `NoInventedRows`, `TornFileIsLocked` |
| `bostate_missed` | an execution may miss a loop | `EveryRunStarts` is violated |
| `bostate_eval` | EVAL before the first tuning | `EvalUsesBest` is violated |
| `bostate_concurrent` | 2 overlapping executions | `RunsAreRecorded` is violated |

Why the bounds are enough.

* `factoring_loops`: with 2 threads and 17 iterations fac2 goes through batches with
  chunks 4, 2 and 1, so locals of every earlier batch meet every later one. Three
  threads on the fss loop let two stale threads meet, and `first = 0` (a large
  parameter) is the case in which `gomp_loop_init` leaves a chunk of 0 and the
  first batch starts at the first index. The combined loops start with a chunk of
  half of the loop (fac2) and with first blocks up to the whole of it (fss).
* `selfscheduling`: the loops are placed at the edges, on both sides of the overflow
  protection for a long and for a `gomp_ull` in both directions, and for a combined loop
  at the last base at which it is `Protected`; a tss loop with enough calls for the chunk to wrap round, a tape loop
  whose T passes from 7 through 5 .. 2. A word of 8 bits is enough because only
  the distance to the end of the word matters.
* `weighted_plans`: five iterations with weights 0, 1 and 4 give maps with empty
  chunks, ties and one heavy iteration, and HSS blocks with and without
  look-ahead. A second loop that is shorter, or has other weights, meets threads that
  are still in the first. A map with the numbers 1 and 2, as the tuner writes it for two
  threads, and one that gives everything to thread 0 stand for maps that are there
  already. Executions are counted up to 2 (`OneMore`).
* `workshare_team`: with three threads one can be in a loop, one in the next and one
  allocating the one after. gomp_team has `Inline` shares, 8 in the code and 1 here, so
  that the second chunk is malloced at once, and four nowait loops are enough for a
  freed share to be used again; `MaxShares = 7` is never the reason why an
  allocation is not possible (`AllJoin` would fail). A lost wake-up needs one waiter,
  a race of two waiters with the publisher three threads.
* `BoState`: six executions and three tunings allow warm-up, tuning, use and
  re-tuning in every order; two processes and the tuner already give every
  pairwise overlap. `MaxRuns` and `MaxTunings` are bounds in guards.

Deadlock is checked everywhere except in `workshare_team`, where the team is
dissolved when the region is over; `AllJoin` says that it always gets there.

Fairness. `FairSpec` assumes weak fairness of every thread's step: the threads of a
team are OS threads which the kernel keeps scheduling. It does not assume that a
swap succeeds. In the iterators no step waits for another thread; `AllTurnedAway`
follows because a swap fails only when another one succeeded and the number of
successful swaps is bounded. In `WorkShare` threads do wait, asleep on a futex or at
the barrier, and `AllJoin` says that what they wait for always comes. `BoState`
makes no liveness claim: a user may stop at any time.

Every property of a passing run has a mutant in the module, next to the definition
it replaces and marked as such: a small change of the code that the property
detects.

## 4. What the properties say about the code

Those that are violated:

* `factoring_trap`: `for (i = 0; i < 1; i += 2)` under fss has an iteration but no
  whole stride; `1 / R` divides by zero (`schedules.h:298`, `:389`).
* `factoring_down`: unsigned loops that count down add the stride
  (`schedules.h:398`, `:441`), so blocks lie outside the loop.
* `weighted_late`: HSS compares the first value of the loop variable with the number
  of iterations (`thirdparty_schedules.h:168`). A loop that starts at s > 0 loses its
  last s iterations (the run shows 5 iterations from 2 on, of which 3 are executed); one
  that starts beyond its number of iterations never ends.
* `bostate_missed`: an execution that does not reach every loop can make a later
  load read the last element of an empty row (`state_io.hpp:39`).
* `bostate_eval`: EVAL before the first tuning uses a parameter nobody assigned
  (`bosched.cpp:417`).
* `bostate_concurrent`: overlapping executions lose observations
  (`bosched.cpp:227`, `:245`).

Conditions and exceptions in those that hold describe the code as well:

* `RunsAreRecorded` and the other workflow properties need no overlap, no crash, a
  BO schedule in every execution, every loop reached, and no loop without
  iterations (`write_state` drops it, `state_io.hpp:67`).
* `EachIterationOnce` of `Weighted` has two. `Undisturbed`: under nowait, a next loop of
  another length overwrites `__ntasks` while threads are in the previous one, which
  then loses iterations. `Taken`: a map may give iterations to threads the team does not
  have, and nobody executes them. It may have been made for `omp_get_max_threads` threads
  of a larger team, be left from one, or come from the state file: the tuner, which is
  written in Julia, numbers the threads from 1 (`simulation/binlpt_utils.jl:61`), the
  runtime from 0 (`thirdparty_schedules.h:34`).
* `NoBlockAboveShare` excepts the first batch of fss. Its chunk is made for as many threads
  as `gomp_loop_init` sees, so in a combined loop the first block may be the whole loop,
  and the other threads find nothing to do. The chunk that `gomp_loop_init` makes for
  fac2, half of a combined loop, does no harm: the first thread is at a barrier
  and replaces it before it can swap `next`.
* `NoOverflow` and the other properties of `SelfScheduling` are about loops that are
  `Protected`. A loop inside a region always is (`InsideRegionsProtected`). A combined
  loop has room for two chunks only (`loop.c:201` with `nthreads` = 1), while a team of P
  threads may add up to P + 1 beyond the end. In a word of 8 bits, a combined loop of 5
  iterations from 115 on with chunk 3 still uses fetch-and-add; its end is 120, and when
  three threads have been turned away `next` has passed 127 and wrapped round. A further
  call would be given a block far outside the loop. No thread of the team is left to
  make it in this loop; with larger teams an overflow comes before the last threads
  have been turned away.
* `TornFileIsLocked` ends with the first tuning: the tuner writes without the lock
  (`bosched.jl:387`). `NoInventedRows` is an upper bound: that rows vanish with a loop
  that had no iteration (`state_io.hpp:67`) does not violate it.
* `OneObservationPerLoop`: a combined loop with a barrier is reported twice, by
  `gomp_work_share_end` and by `GOMP_parallel_end`; an orphaned loop with a barrier is
  begun and never reported; a nowait loop whose region is entered again is timed
  from the later entry.
* `SharesServe` holds with 3 threads in any loop: the share of a loop is freed only by
  the last thread that leaves the loop after it, and by then nobody reads its
  `next_ws`.

## 5. Proofs

All theorems hold for every value of the constants that satisfies the assumptions
of the modules, and the further conditions named here.

`FactoringProofs`, for loops that do not count down (the others leave their bounds,
`factoring_down`):

* `Invariance`: `Spec => [](TypeOK /\ EachIterationOnce /\ NoBlockAboveShare /\ StaleLocals)`.
  `EachIterationOnce` is not inductive alone: a compare-and-swap of `next` preserves
  it only if the block it hands out starts at `next` and ends neither before it nor
  behind the loop. That needs what a thread knows about its stale locals:
  `start[t] <= next`; a thread about to swap has not seen the end; and a chunk that does
  not fit, 0 or larger than `HalfShare`, is the `FirstChunk` of `gomp_loop_init`. As long as
  it is in the work share, every index that anybody has seen is where a block of
  the first batch starts, or the end, and so is the start of a thread that holds it later. Such
  a thread is inside the first batch and stays there, or is at its barrier and replaces
  the chunk. These are the conjuncts of `StaleLocals`, and `IInv` is their conjunction
  with `TypeOK`, `EachIterationOnce` and `NoBlockAboveShare`. Nothing relates
  `loop.nthreads` to the team; all that is assumed is that the first batch fits
  the loop for the former. `FirstBatch` says that a step inside the first batch leads to
  the next block of it or to the end.
* `GrantsAreNotEmpty`: from `IInv`, the chunk with which a thread swaps `next` is
  positive.
* `Refinement`: `Spec => ImplementsAssign`. `CasNextOk` maps to `Take`, `ReturnFalse`
  to `TurnAway`, every other action to a stutter.
* `TrapsOnlyWithoutWholeStride`: fss divides by zero only if `NumTasks = 0`. With a
  whole stride, no thread stands at a barrier on the last, partial one.

`SelfSchedulingProofs`, for loops that are `Protected` (a hypothesis of the theorems, not an
assumption of the module):

* `Invariance`: `Spec => [](TypeOK /\ Cover)`. The invariant `IInv` adds
  `LocalsOK` (stale locals) and `Room`: under fetch-and-add, `next` lies behind the
  end by less than one chunk, plus one chunk for every thread that has been turned
  away. A thread is turned away once, so one chunk per thread is the most that can
  be added too much, and a `Protected` loop has room for that: the addition does not wrap
  round (`NoWrap`).
* `RoomIsEnough`: `Spec => NoOverflow`, since every step but an addition sets `next` to the
  end of a block (`NextGrows`).
* `InsideRegionsProtected`: a loop whose initialisation sees the team that executes it is
  `Protected`, because that is what the comparison in `gomp_loop_init` tests.
* `Refinement`: `Spec => ImplementsAssign`, with `next` cut at the end of the loop.
  Chunks that wrapped round are still positive, so a `Take` is never empty.

`BinLPTProofs`, about `binlpt_balance` for every loop length, all weights and every
number of threads. `Cuts`, `SortMap` and `Dealt` are functions defined by recursion; the
lemma `Recursion` shows that a function with a given first value and given steps exists,
and `Upwards` is induction over such a function. Both are stated for sets and functions,
not for operators.

* `MapReachesThreads`: every iteration is given to one of the threads the map is for.
  `CutsAreInOrder` and `ChunksCover` say that the chunks are contiguous from 0 to n,
  `DealtRange` that there is a least loaded thread for each of them.
* `SortMapSorts`: `sort` leaves every chunk in the map once, the lighter before the
  heavier. Its inner loop goes on exchanging after an entry has moved, so the invariant
  is stated per comparison: a pair that has been compared is in order and stays so
  (`OrderedUpTo`), where pairs are compared row by row (`RowByRow`).
* `MapNearBestMap`: Graham's bound. No thread is busy longer than 4/3 - 1/(3 T) times the
  longest that a thread is busy in any distribution of the same 2 T chunks. The argument
  uses that there are only twice as many chunks as threads. Sorting makes the dealing
  `Greedy` from the heaviest chunk on (`DealtGreedily`), and the loads it compares are what
  the threads have in the map (`LoadsAreParts`, `PartsOfChunks`). Take the last chunk of a
  thread. If it is one of the first T, the thread has nothing else (`FirstRound`), and in
  any distribution somebody has this chunk. If it is number T + i, the thread had at most
  the weight of chunk T - i + 1 before (`SecondRound`, which counts the threads that are
  heavier). Among the T + i heaviest chunks, count the first T - i + 1 twice: that
  makes 2 T + 1, so in any distribution somebody has chunks that count for 3
  (`SomeoneHasMuch`). Either he has at least chunk T - i + 1 and chunk T + i, which is as
  much as the thread has, or three times the weight of chunk T + i. In the second case
  that chunk is at most a third of his load, and what the thread had before is at most
  the average (`BoundBySmallLast`).

`WeightedProofs`:

* `EachOnce`: `Spec => []EachIterationOnce`, whatever the weights and the maps are, for
  plans whose nowait loops agree in length and whose HSS loops start at 0 (`Calm`). The
  invariant `PInv` says that `__ntasks` fits the loop of every thread that is still in
  one, that BinLPT has executed exactly what the map gives to a thread before its
  `thread_start`, and HSS exactly what lies before `loop_start`. The lemma
  `LeastIsLeast` (from the well-foundedness of the naturals) gives the ends of blocks.
* `WeightedTypes`: `Spec => []TypeOK`, for every plan. A BinLPT search ends at `__ntasks`,
  which may be of a later loop; that it does not pass the end of the thread's own loop
  needs that lengths never grow under nowait (`Shrinking`, by induction along the loops,
  from the assumption on plans) and that barriers leave nobody behind (`Globals`).
* `BlocksFitTheirShare`: `Spec => BlockFitsShare`, for every plan. A block ends no later
  than the first iteration that `Fits` (`EndOfBlock`), so the iteration before its end did
  not, and the last one adds its own weight to the sum (`LastWeight`).
* `FullTeamsComplete`: under `Calm`, a team of at least `omp_get_max_threads` threads has
  executed each iteration exactly once when it is through with a loop, if the maps that
  the loops have already name threads of the team only (`OwnMaps`). Then all maps do
  (`MapsFitTeam`): the new ones by `MapReachesThreads`. So the exception `Taken` of
  `EachIterationOnce` does not arise.
* `HssAssignsAll`: under `Calm`, `Spec => []AllWorkAssigned` when all plans are HSS. The run
  `weighted_late` shows what happens when a loop does not start at 0.
* `MapsAreNearBest`: `Spec => []MapNearBest`, for every plan and every map that is made and
  not there already. The maps do not change (`MapsAreMade`), so this is `MapNearBestMap` of `BinLPTProofs`.

`BoStateProofs`:

* `OneWriter`: a writer implies the lock file and excludes every other writer. The
  converse fails after a crash, so the invariant is stated as an implication.
* `TornFilesAreMarked`: until the first tuning, a torn file comes with the lock file.
  The invariant adds that nobody is past its `Write` while the file is torn.
* `NoRowTwice`: `Spec => []NoInventedRows`, for every interleaving of executions, tunings
  and crashes, in every environment, with loops missed or empty. `RowInv` says that no
  copy of the rows (the file, the memory of an execution however old, the tuner) holds
  more of a loop than were observed, and that the observation of an execution that has not saved yet is in `total` but not in its
  memory: that is why writing stale memory back loses rows but never doubles one. The
  lemmas before it count the rows of appended, joined and filtered lists.
* `StateFileTypes`: `Spec => []TypeOK`. That no loop is observed more often than `MaxRuns`
  needs `RangeInv`: the observations of a loop and the executions that are running are
  together at most the executions started.

`WorkflowProofs`, under `Workflow` (serial, every loop reached and not empty, no
crashes, a BO schedule or EVAL):

* `WorkflowIsSafe`: `Spec => [](EveryRunStarts /\ FileStaysUsable /\ RunsAreRecorded /\
  ResultsAreUsed)`. EVAL before the first tuning is included, since it saves nothing.
  The four depend on each other, so `WInv` proves them together: what is written is
  `Sound` (no loop missing, no hole, a last row for a loop in warm-up and keys for any
  other); memory holds, per stage, the rows of the file and, when it is about to be
  saved, one more execution for every loop; a torn file and the lock have an owner
  that is still at work; loops of the last tuning stay tuned in the file, in memory
  and in the tuner.

`SharesProofs`, for every team, every sequence of loops and every number of work
shares in the team:

* `NoUseAfterFree`: `Spec => []SharesServe`. That the share a thread stands on is still
  there follows from nothing one thread knows, so the invariant `TeamInv` describes the
  whole team. `Chain`: the shares in use hold different loops, and `next_ws` of each
  leads to the next. `OneOpens`: while a thread allocates the share of a loop, nobody
  is in that loop, hence nobody can have seen its share or open it again. `Leaving`:
  `threads_completed` counts the threads that have finished the loop, a share lives
  until all have finished the loop *after* it, and the last of them, who frees it, is
  alone. `Barrier`: the count of the team barrier, and that a thread it lets go means
  it holds back nobody else; so the last to arrive is the last to finish. `Lists`: the
  links of the free lists reach no share twice, or an allocation could take a share
  that is on a list a second time. `Places` says what each label of a thread implies.
  One lemma shows that a step keeps each part (`PlacesNext` to `ListsNext`).

* `FreeListsComplete`: `Spec => []NoShareLost`, on top of `TeamInv`. `Lists` forbids that two links lead to one
  share, but not a ring of free shares that no list reaches. `Reached` closes that gap
  without counting steps along the links: every set of free shares that contains the
  heads of both lists and follows the links contains all free shares. Taking from
  `list_alloc` and each access of `Push` keep it. `Linked`, which follows the links in as
  many rounds as there are shares, is then shown to be such a set.

`LoopLifeProofs`, for every team and every program:

* `EveryLoopMeasured`: `Spec => []OneObservationPerLoop`. How often a loop has been
  reported is a function of where the threads are (`Counts`): once when all have finished
  it and nobody is still on the way to `bo_schedule_end`, plus once by the master of a
  combined loop that has left the region. `Recorders` says that one thread at a time
  reports, and only what all have finished; `Times` that the time of a region is that of
  the latest loop of it that anybody has begun, which no thread can be ahead of. For loops
  outside a region (`Alone`) only the master moves. `LoopInv` is the disjunction of the two.
* `WorkShareTypes`: `Spec => []TypeOK`. That `threads_completed` does not pass the size of
  the team is a count of the threads that have left the loop (`Completions`).
* `LoopsLiveAsPromised`: `Spec => ImplementsLoopLife`. `opened` is mapped to the number of
  loops that somebody has entered, which is the position of the thread that is furthest
  (`Furthest`, `OpenedIs`). `Publish` of a new share, or the entry of an orphaned loop,
  is `Open`; the entry of a later thread is `Enter`; leaving is `Finish`; a first report is
  `Record`; every other access is a stutter. The lemma `GoesOn` carries the barrier: a
  thread that starts its next loop has seen the whole team finish this one, and its report.
* `EverySleeperIsWoken`: `Spec => []NoWakeUpLost`. `Wakers`, on top of `TeamInv`, says who
  has to act: a pointer lock of a share in use that is 1 or 2 has a thread that is still
  going to publish it; for a sleeper whose lock has been published, somebody is about to
  call `futex_wake`; when all threads have arrived at the barrier, one is still going to
  change the generation. It needs the futex call to compare the word before it
  sleeps, and the publisher to see in its exchange that the word has become 2.
* `NoDeadlock`: in every reachable state some thread's next step is possible, until all
  have reached the end of the region. If all waited, nobody would be asleep, since whoever
  wakes a sleeper does not wait; and a thread held by the barrier has one that is not
  there yet, which would be held at an earlier loop, although the barrier of that loop
  has let the first one pass. This is about the guards of actions (`CanGoOn`), not
  termination, and it takes malloc to succeed: `MaxShares` is not a guard there.

These theorems use `OrphanAssumption`, that no program has an orphaned loop with a
cancellation barrier: `gomp_work_share_end_cancel` says that there is none.

Only model-checked:

* Termination (`AllTurnedAway`, `AllJoin`): liveness is outside the prover's reach.
* The violated properties, whose counterexamples TLC finds.

## 6. Not modelled

* In `WorkShare`: an actual cancellation, tasks executed at the barrier, ordered and
  doacross loops, sections and single, nested teams. `gomp_ptrlock` without futex.
* In `Weighted`: strides other than 1 and accesses outside the arrays (loops with fewer
  iterations than chunks; a map for fewer iterations than the loop has; a longer nowait
  loop that follows a shorter one; `thread_start` of a combined loop, which is allocated for
  one thread).
* In `SelfScheduling`: what happens in a combined loop that is not `Protected`, once `next`
  has wrapped round.
* Unsigned tss and tape counting down, which repeat the sign error of fss, and
  `bo_iter_ull_fac2_next`, which also divides by a `ws->param` that
  `gomp_loop_ull_init` never sets. `SelfSchedulingAssumption` excludes a chunk of 0,
  which css can get for an unsigned loop with one thread (`num_tasks` and `log(1)` are
  0; `schedules.h:46`): the fetch-and-add would return empty blocks for ever.
* Memory orders weaker than program order; builds without atomic builtins.
* The unsynchronised map `_loop_states` and the process-wide flag `_is_bo_schedule`.
* Profiling: its arrays are indexed by the raw loop variable and replaced by every
  loop, also while threads measure an earlier nowait loop; what such a write does is
  undefined. The first call of a thread in a combined loop (`loop.c:777`) stops a
  measurement that was never started and writes slot 0. Statistics: a single atomic sum.
* Values of parameters and measurements, the optimiser, HDF5 and JSON syntax.
* `NUMA`, `PROFILE`, `LOOPSTAT`, `FALLBACK` and `HIST`; the modes `classic`, `both`
  and `visualize` of the tuner; `merge_states.py`.
* Static scheduling (no shared state), the simulator, and the upstream GCC tree,
  which is nearly all of the repository.

## 7. Plan

Every safety and action property that a passing run checks is proved. What is left:

1. `Profile`: slots written by concurrent threads, indexed by the raw loop variable,
   with the arrays replaced while a previous nowait loop is still measured.
2. BinLPT on loops with fewer iterations than chunks, where `sort` leaves its array.
