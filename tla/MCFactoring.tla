----------------------------- MODULE MCFactoring -----------------------------
(* Model-checking instances of Factoring: the teams and the loops.         *)
EXTENDS Factoring

CONSTANTS t1, t2, t3

Team2 == {t1, t2}
Team3 == {t1, t2, t3}

\* Loops inside a region: gomp_loop_init sees the team that executes them.
HalvingLoop ==  \* fac2 with several batches
  [team |-> Team2, nthreads |-> 2, iters |-> 17, ragged |-> FALSE, down |-> FALSE,
   sched |-> "fac2", first |-> 0]

RaggedLoop ==   \* fss, the last stride is partial; the first chunk is 0
  [team |-> Team3, nthreads |-> 3, iters |-> 5, ragged |-> TRUE, down |-> FALSE,
   sched |-> "fss", first |-> 0]

BatchLoop ==    \* fss, the first batch takes nearly everything
  [team |-> Team2, nthreads |-> 2, iters |-> 7, ragged |-> FALSE, down |-> FALSE,
   sched |-> "fss", first |-> 2]

SingleLoop ==   \* fss, one iteration that is shorter than a stride
  [team |-> Team3, nthreads |-> 3, iters |-> 1, ragged |-> TRUE, down |-> FALSE,
   sched |-> "fss", first |-> 0]

DownLoop ==     \* an unsigned fss loop that counts down
  [team |-> Team2, nthreads |-> 2, iters |-> 8, ragged |-> FALSE, down |-> TRUE,
   sched |-> "fss", first |-> 0]

\* Combined constructs: gomp_loop_init sees the team outside.
CombinedHalving ==  \* fac2, the chunk from gomp_loop_init is half of the loop
  [HalvingLoop EXCEPT !.nthreads = 1, !.iters = 10]

CombinedBatch ==    \* fss, the first batch is one block of five
  [BatchLoop EXCEPT !.nthreads = 1, !.first = 5]

CombinedWhole ==    \* fss without variance: the first block is the whole loop
  [RaggedLoop EXCEPT !.nthreads = 1, !.first = 4]

NestedBatch ==      \* fss, the team outside is larger than the one that executes
  [BatchLoop EXCEPT !.nthreads = 3]

UpLoops     == {HalvingLoop, RaggedLoop, BatchLoop, SingleLoop,
                CombinedHalving, CombinedBatch, CombinedWhole, NestedBatch}
SingleLoops == {SingleLoop}
DownLoops   == {DownLoop}
=============================================================================
