-------------------------------- MODULE BinLPT --------------------------------
(***************************************************************************)
(* binlpt_balance of utils.hpp: the iterations of a loop, whose weights    *)
(* are known, are cut into 2 * nthreads contiguous chunks, and the chunks  *)
(* are given to the threads heaviest first, each to the thread that has    *)
(* the least so far.                                                       *)
(*                                                                         *)
(* The weights of a loop are a function a on 0 .. n - 1.                   *)
(***************************************************************************)
EXTENDS Integers

\* compute_cummulativesum, and the total in Sum(a, n)[n].
Sum(a, n) ==
  LET S[i \in 0 .. n] == IF i = 0 THEN 0 ELSE S[i - 1] + a[i - 1] IN S

Least(S) == CHOOSE x \in S : \A y \in S : x <= y

(***************************************************************************)
(* compute_chunksizes: chunk k of c is Cuts[k] .. Cuts[k + 1] - 1.  It     *)
(* ends as soon as it is heavier than the average, the last one at n.      *)
(***************************************************************************)
Cuts(a, n, c) ==
  LET sum == Sum(a, n)
      Cut[k \in 0 .. c] ==
        IF k = 0 THEN 0
        ELSE IF k = c THEN n
        ELSE LET i == Cut[k - 1]
             IN Least({n} \cup {j \in i + 1 .. n : sum[j] - sum[i] > sum[n] \div c})
  IN Cut

\* compute_chunks.
Chunks(a, n, c) ==
  LET sum == Sum(a, n)
      cut == Cuts(a, n, c)
  IN [k \in 0 .. c - 1 |-> sum[cut[k + 1]] - sum[cut[k]]]

(***************************************************************************)
(* sort, with the exchanges of insertion in their order: position i is     *)
(* compared with every later position j.  The result maps a position to    *)
(* the chunk that is there, lightest first.                                *)
(***************************************************************************)
SortMap(w, c) ==
  LET Pass[m \in 0 .. c * c] ==
        IF m = 0 THEN [i \in 0 .. c - 1 |-> i]
        ELSE LET map == Pass[m - 1]
                 i == (m - 1) \div c
                 j == (m - 1) % c
             IN IF i < j /\ w[map[j]] < w[map[i]]
                THEN [map EXCEPT ![i] = map[j], ![j] = map[i]]
                ELSE map
  IN Pass[c * c]

\* The first of the threads with the smallest load.
LeastLoaded(load, nthreads) ==
  Least({t \in 0 .. nthreads - 1 : \A u \in 0 .. nthreads - 1 : load[t] <= load[u]})

\* mutant: the chunks are given out lightest first.
Dealt_LightFirst(w, c, nthreads) ==
  LET map == SortMap(w, c)
      Deal[m \in 0 .. c] ==
        IF m = 0
        THEN [thread |-> [k \in 0 .. c - 1 |-> 0], load |-> [t \in 0 .. nthreads - 1 |-> 0]]
        ELSE LET d == Deal[m - 1]
                 k == map[m - 1]
                 t == LeastLoaded(d.load, nthreads)
             IN IF w[k] = 0 THEN d
                ELSE [thread |-> [d.thread EXCEPT ![k] = t],
                      load   |-> [d.load EXCEPT ![t] = @ + w[k]]]
  IN Deal[c]

\* Which thread gets which chunk; chunks without weight stay with thread 0.
Dealt(w, c, nthreads) ==
  LET map == SortMap(w, c)
      Deal[m \in 0 .. c] ==
        IF m = 0
        THEN [thread |-> [k \in 0 .. c - 1 |-> 0], load |-> [t \in 0 .. nthreads - 1 |-> 0]]
        ELSE LET d == Deal[m - 1]
                 k == map[c - m]
                 t == LeastLoaded(d.load, nthreads)
             IN IF w[k] = 0 THEN d
                ELSE [thread |-> [d.thread EXCEPT ![k] = t],
                      load   |-> [d.load EXCEPT ![t] = @ + w[k]]]
  IN Deal[c]

\* binlpt_balance, as bo_binlpt_load_loop calls it: iteration i goes to TaskMap[i].
TaskMap(a, n, nthreads) ==
  LET c == 2 * nthreads
      cut == Cuts(a, n, c)
      dealt == Dealt(Chunks(a, n, c), c, nthreads)
  IN [i \in 0 .. n - 1 |->
        dealt.thread[CHOOSE k \in 0 .. c - 1 : cut[k] <= i /\ i < cut[k + 1]]]
===============================================================================
