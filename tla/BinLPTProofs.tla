----------------------------- MODULE BinLPTProofs -----------------------------
(***************************************************************************)
(* Proofs about BinLPT: what binlpt_balance computes, for every loop and   *)
(* every number of threads.                                                *)
(***************************************************************************)
EXTENDS BinLPT, WellFoundedInduction, TLAPS

\* Least is what its name says.
LEMMA LeastIsLeast ==
  ASSUME NEW S \in SUBSET Nat, S # {}
  PROVE  Least(S) \in S /\ \A y \in S : Least(S) <= y
<1>0. PICK R : /\ IsWellFoundedOn(R, Nat)
               /\ R = {ss \in Nat \X Nat : ss[1] < ss[2]}
  BY NatLessThanWellFounded DEF OpToRel
<1>1. PICK x \in S : \A y \in S : ~(<<y, x>> \in R)
  BY <1>0, WFMin
<1>2. \A y \in S : x <= y
  <2>1. \A a, b \in Nat : a < b => <<a, b>> \in R
    BY <1>0
  <2>2. ASSUME NEW y \in S PROVE x <= y
    <3>1. x \in Nat /\ y \in Nat
      OBVIOUS
    <3>2. ~(y < x)
      BY <1>1, <2>1, <3>1
    <3> QED
      BY <3>1, <3>2
  <2> QED
    BY <2>2
<1> QED
  BY <1>2 DEF Least

-----------------------------------------------------------------------------
(* Functions that are defined by recursion on 0 .. n.                      *)

\* Induction up to n, for a set.
LEMMA Upwards ==
  ASSUME NEW n \in Nat, NEW G, 0 \in G, \A i \in 1 .. n : i - 1 \in G => i \in G
  PROVE  \A i \in 0 .. n : i \in G
<1> DEFINE Bad == (0 .. n) \ G
<1> SUFFICES ASSUME Bad # {} PROVE FALSE
  OBVIOUS
<1>1. PICK i \in Bad : \A k \in Bad : i <= k
  <2>1. Bad \in SUBSET Nat
    OBVIOUS
  <2> QED
    BY <2>1, LeastIsLeast
<1>2. i \in 1 .. n /\ i - 1 \in 0 .. n /\ ~(i <= i - 1)
  BY <1>1
<1>3. i - 1 \in G
  BY <1>1, <1>2
<1> QED
  BY <1>1, <1>2, <1>3

\* g starts with z and goes on with F, in S.
GoesOn(g, n, S, z, F) ==
  g \in [0 .. n -> S] /\ g[0] = z /\ \A i \in 1 .. n : g[i] = F[i][g[i - 1]]

\* A function that is given by its first value and its steps exists.
LEMMA Recursion ==
  ASSUME NEW n \in Nat, NEW S, NEW z \in S, NEW F \in [1 .. n -> [S -> S]]
  PROVE  \E g : GoesOn(g, n, S, z, F)
<1> DEFINE Rec(g, m) == /\ g \in [0 .. m -> S] /\ g[0] = z
                        /\ \A i \in 1 .. m : g[i] = F[i][g[i - 1]]
           Given(m) == \E g : Rec(g, m)
           G == {m \in 0 .. n : Given(m)}
<1>1. \A m : m \in G <=> m \in 0 .. n /\ Given(m)
  <2> HIDE DEF Given
  <2> QED
    OBVIOUS
<1> HIDE DEF G
<1>2. 0 \in G
  <2> DEFINE h == [i \in 0 .. 0 |-> z]
  <2>1. Rec(h, 0)
    OBVIOUS
  <2> HIDE DEF h
  <2>2. Given(0) /\ 0 \in 0 .. n
    BY <2>1
  <2> HIDE DEF Given
  <2> QED
    BY <1>1, <2>2
<1>3. ASSUME NEW m \in 1 .. n, m - 1 \in G PROVE m \in G
  <2>1. PICK g : Rec(g, m - 1)
    BY <1>1, <1>3
  <2> DEFINE h == [i \in 0 .. m |-> IF i = m THEN F[m][g[m - 1]] ELSE g[i]]
  <2>2. g[m - 1] \in S
    BY <2>1
  <2>3. F[m][g[m - 1]] \in S
    BY <2>2
  <2>4. \A i \in 0 .. m - 1 : i \in 0 .. m /\ h[i] = g[i] /\ g[i] \in S
    BY <2>1
  <2>5. h \in [0 .. m -> S] /\ h[0] = z /\ h[m] = F[m][g[m - 1]]
    BY <2>1, <2>3, <2>4
  <2> HIDE DEF h
  <2>6. ASSUME NEW i \in 1 .. m PROVE h[i] = F[i][h[i - 1]]
    <3>1. CASE i = m
      BY <2>4, <2>5, <3>1
    <3>2. CASE i # m
      <4>1. i \in 1 .. m - 1 /\ i \in 0 .. m - 1 /\ i - 1 \in 0 .. m - 1
        BY <3>2
      <4> QED
        BY <2>1, <2>4, <4>1
    <3> QED
      BY <3>1, <3>2
  <2>7. Rec(h, m)
    BY <2>5, <2>6
  <2>8. Given(m) /\ m \in 0 .. n
    BY <2>7
  <2> HIDE DEF Given
  <2> QED
    BY <1>1, <2>8
<1>4. \A m \in 0 .. n : m \in G
  BY <1>2, <1>3, Upwards
<1>5. PICK g : Rec(g, n)
  BY <1>1, <1>4
<1> QED
  BY <1>5 DEF GoesOn

\* compute_cummulativesum adds the next weight to the sum of those before.
LEMMA SumSteps ==
  ASSUME NEW n \in Nat, NEW a \in [0 .. n - 1 -> Nat]
  PROVE  /\ Sum(a, n)[0] = 0
         /\ \A i \in 0 .. n : Sum(a, n)[i] \in Nat
         /\ \A i \in 1 .. n : Sum(a, n)[i] = Sum(a, n)[i - 1] + a[i - 1]
<1> DEFINE F == [i \in 1 .. n |-> [x \in Nat |-> x + a[i - 1]]]
           Is(g) == g = [i \in 0 .. n |-> IF i = 0 THEN 0 ELSE g[i - 1] + a[i - 1]]
           s == Sum(a, n)
<1>1. F \in [1 .. n -> [Nat -> Nat]]
  OBVIOUS
<1>2. \A i \in 1 .. n, x \in Nat : F[i][x] = x + a[i - 1]
  OBVIOUS
<1> HIDE DEF F
<1>3. PICK g \in [0 .. n -> Nat] : g[0] = 0 /\ \A i \in 1 .. n : g[i] = F[i][g[i - 1]]
  <2>1. PICK g : GoesOn(g, n, Nat, 0, F)
    BY <1>1, Recursion, Zenon
  <2> QED
    BY <2>1 DEF GoesOn
<1>4. Is(g)
  <2>1. \A i \in 1 .. n : g[i] = g[i - 1] + a[i - 1]
    <3>1. \A i \in 1 .. n : g[i - 1] \in Nat
      BY <1>3
    <3> QED
      BY <1>2, <1>3, <3>1
  <2> QED
    BY <1>3, <2>1
<1>5. Is(s)
  BY <1>4 DEF Sum
<1> HIDE DEF s
<1>6. s[0] = 0 /\ \A i \in 1 .. n : s[i] = s[i - 1] + a[i - 1]
  BY <1>5
<1>7. \A i \in 0 .. n : s[i] \in Nat
  <2> DEFINE G == {i \in 0 .. n : s[i] \in Nat}
  <2>1. 0 \in G
    BY <1>6
  <2>2. \A i \in 1 .. n : i - 1 \in G => i \in G
    BY <1>6
  <2>3. \A i \in 0 .. n : i \in G
    <3> HIDE DEF G
    <3> QED
      BY <2>1, <2>2, Upwards
  <2> QED
    BY <2>3
<1> QED
  BY <1>6, <1>7 DEF s

\* Some iteration of a loop is the heaviest.
LEMMA HeaviestExists ==
  ASSUME NEW n \in Nat \ {0}, NEW a \in [0 .. n - 1 -> Nat]
  PROVE  \E j \in 0 .. n - 1 : \A i \in 0 .. n - 1 : a[i] <= a[j]
<1> DEFINE Top(m) == \E j \in 0 .. m - 1 : \A i \in 0 .. m - 1 : a[i] <= a[j]
           Bad == {m \in 1 .. n : ~Top(m)}
<1>0. /\ Bad \in SUBSET Nat /\ \A m \in 1 .. n : m \in Bad \/ Top(m)
      /\ \A m \in Bad : m \in 1 .. n /\ ~Top(m)
  <2> HIDE DEF Top
  <2> QED
    OBVIOUS
<1> HIDE DEF Bad
<1> SUFFICES ASSUME Bad # {} PROVE FALSE
  <2>1. n \in 1 .. n /\ n \notin Bad => Top(n)
    BY <1>0
  <2> QED
    BY <2>1
<1>1. PICK m \in Bad : \A k \in Bad : m <= k
  BY <1>0, LeastIsLeast
<1>m. m \in 1 .. n /\ ~Top(m)
  BY <1>0
<1>2. m # 1
  <2>1. Top(1)
    <3>1. \A i \in 0 .. 1 - 1 : i = 0 /\ a[i] \in Nat
      OBVIOUS
    <3> QED
      BY <3>1
  <2> QED
    BY <1>m, <2>1
<1>3. m - 1 \in 1 .. n /\ m - 1 \notin Bad
  BY <1>1, <1>m, <1>2
<1>4. PICK j \in 0 .. (m - 1) - 1 : \A i \in 0 .. (m - 1) - 1 : a[i] <= a[j]
  BY <1>0, <1>3
<1>5. a[j] \in Nat /\ a[m - 1] \in Nat /\ j \in 0 .. m - 1 /\ m - 1 \in 0 .. m - 1
  BY <1>m, <1>3, <1>4
<1>6. \A i \in 0 .. m - 1 : a[i] \in Nat /\ (i = m - 1 \/ i \in 0 .. (m - 1) - 1)
  BY <1>m
<1>7. CASE a[m - 1] <= a[j]
  <2>1. \A i \in 0 .. m - 1 : a[i] <= a[j]
    BY <1>4, <1>6, <1>7
  <2> QED
    BY <1>m, <1>5, <2>1
<1>8. CASE a[j] <= a[m - 1]
  <2>1. \A i \in 0 .. m - 1 : a[i] <= a[m - 1]
    <3> SUFFICES ASSUME NEW i \in 0 .. m - 1 PROVE a[i] <= a[m - 1]
      OBVIOUS
    <3>1. a[i] \in Nat /\ (i = m - 1 \/ a[i] <= a[j])
      BY <1>4, <1>6
    <3> QED
      BY <1>5, <1>8, <3>1
  <2> QED
    BY <1>m, <1>5, <2>1
<1> QED
  BY <1>5, <1>7, <1>8

-----------------------------------------------------------------------------
(* What binlpt_balance computes.                                           *)

LEMMA SumGrows ==
  ASSUME NEW n \in Nat, NEW a \in [0 .. n - 1 -> Nat], NEW i \in 0 .. n, NEW j \in i .. n
  PROVE  Sum(a, n)[i] <= Sum(a, n)[j]
<1> DEFINE s == Sum(a, n)
           G == {k \in 0 .. n : i <= k => s[i] <= s[k]}
<1>1. /\ \A k \in 0 .. n : s[k] \in Nat
      /\ \A k \in 1 .. n : s[k] = s[k - 1] + a[k - 1]
  BY SumSteps
<1> HIDE DEF s
<1>2. 0 \in G
  BY <1>1
<1>3. ASSUME NEW k \in 1 .. n, k - 1 \in G PROVE k \in G
  <2>1. k \in 0 .. n /\ k - 1 \in 0 .. n /\ a[k - 1] \in Nat
    OBVIOUS
  <2>2. s[i] \in Nat /\ s[k] \in Nat /\ s[k - 1] \in Nat /\ s[k] = s[k - 1] + a[k - 1]
    BY <1>1, <2>1
  <2>3. CASE i = k
    BY <2>1, <2>2, <2>3
  <2>4. CASE i # k
    <3>1. i <= k => s[i] <= s[k - 1]
      BY <1>3, <2>1, <2>4
    <3> QED
      BY <2>1, <2>2, <3>1
  <2> QED
    BY <2>3, <2>4
<1>4. \A k \in 0 .. n : k \in G
  <2> HIDE DEF G
  <2> QED
    BY <1>2, <1>3, Upwards
<1> QED
  BY <1>4 DEF s

\* compute_chunksizes cuts from 0 to n and never backwards.
LEMMA CutsAreInOrder ==
  ASSUME NEW n \in Nat, NEW a, NEW c \in Nat \ {0}
  PROVE  /\ Cuts(a, n, c)[0] = 0 /\ Cuts(a, n, c)[c] = n
         /\ \A k \in 0 .. c : Cuts(a, n, c)[k] \in 0 .. n
         /\ \A k \in 1 .. c : Cuts(a, n, c)[k - 1] <= Cuts(a, n, c)[k]
<1> DEFINE cut == Cuts(a, n, c)
           sum == Sum(a, n)
           Ends(i) == {n} \cup {j \in i + 1 .. n : sum[j] - sum[i] > sum[n] \div c}
           F == [k \in 1 .. c |-> [i \in 0 .. n |-> IF k = c THEN n ELSE Least(Ends(i))]]
           Is(g) == g = [k \in 0 .. c |->
                           IF k = 0 THEN 0
                           ELSE IF k = c THEN n
                           ELSE LET i == g[k - 1] IN Least(Ends(i))]
<1>1. ASSUME NEW i \in 0 .. n PROVE Least(Ends(i)) \in i .. n
  <2> DEFINE E == Ends(i)
  <2>1. E \subseteq i .. n /\ n \in E
    OBVIOUS
  <2> HIDE DEF E
  <2>2. E \in SUBSET Nat /\ E # {}
    BY <2>1
  <2>3. Least(E) \in E
    BY <2>2, LeastIsLeast
  <2>4. Least(E) \in i .. n
    BY <2>1, <2>3
  <2> QED
    BY <2>4 DEF E
<1> HIDE DEF Ends
<1>2. F \in [1 .. c -> [0 .. n -> 0 .. n]]
  BY <1>1
<1>3. /\ \A i \in 0 .. n : F[c][i] = n
      /\ \A k \in 1 .. c, i \in 0 .. n : k # c => F[k][i] = Least(Ends(i))
  OBVIOUS
<1> HIDE DEF F
<1>4. PICK g : g \in [0 .. c -> 0 .. n] /\ g[0] = 0 /\ \A k \in 1 .. c : g[k] = F[k][g[k - 1]]
  <2>1. 0 \in 0 .. n /\ c \in Nat
    OBVIOUS
  <2>2. PICK g : GoesOn(g, c, 0 .. n, 0, F)
    BY <1>2, <2>1, Recursion, Zenon
  <2> QED
    BY <2>2 DEF GoesOn
<1>5. Is(g)
  <2>1. ASSUME NEW k \in 1 .. c
        PROVE  g[k] = IF k = c THEN n ELSE Least(Ends(g[k - 1]))
    <3>1. g[k - 1] \in 0 .. n
      BY <1>4
    <3> QED
      BY <1>3, <1>4, <3>1
  <2> QED
    BY <1>4, <2>1
<1>6. Is(cut)
  BY <1>5 DEF Cuts, Ends
<1> HIDE DEF cut
<1>7. cut[0] = 0 /\ cut[c] = n
  BY <1>6
<1>8. \A k \in 1 .. c : k # c => cut[k] = Least(Ends(cut[k - 1]))
  BY <1>6
<1>9. \A k \in 0 .. c : cut[k] \in 0 .. n
  <2> DEFINE G == {k \in 0 .. c : cut[k] \in 0 .. n}
  <2>1. 0 \in G
    BY <1>7
  <2>2. ASSUME NEW k \in 1 .. c, k - 1 \in G PROVE k \in G
    <3>1. cut[k - 1] \in 0 .. n
      BY <2>2
    <3>2. k # c => cut[k] \in cut[k - 1] .. n
      BY <1>1, <1>8, <3>1
    <3> QED
      BY <1>7, <3>1, <3>2
  <2>3. \A k \in 0 .. c : k \in G
    <3> HIDE DEF G
    <3> QED
      BY <2>1, <2>2, Upwards
  <2> QED
    BY <2>3
<1>10. ASSUME NEW k \in 1 .. c PROVE cut[k - 1] <= cut[k]
  <2>1. cut[k - 1] \in 0 .. n
    BY <1>9
  <2>2. k # c => cut[k] \in cut[k - 1] .. n
    BY <1>1, <1>8, <2>1
  <2> QED
    BY <1>7, <2>1, <2>2
<1> QED
  BY <1>7, <1>9, <1>10 DEF cut

\* Every iteration is in a chunk.
LEMMA ChunksCover ==
  ASSUME NEW n \in Nat, NEW a, NEW c \in Nat \ {0}, NEW i \in 0 .. n - 1
  PROVE  \E k \in 0 .. c - 1 : Cuts(a, n, c)[k] <= i /\ i < Cuts(a, n, c)[k + 1]
<1> DEFINE cut == Cuts(a, n, c)
           G == {k \in 0 .. c : cut[k] <= i}
<1>1. /\ cut[0] = 0 /\ cut[c] = n /\ \A k \in 0 .. c : cut[k] \in 0 .. n
  BY CutsAreInOrder
<1> HIDE DEF cut
<1> SUFFICES ASSUME ~\E k \in 0 .. c - 1 : cut[k] <= i /\ i < cut[k + 1] PROVE FALSE
  BY DEF cut
<1>2. 0 \in G
  BY <1>1
<1>3. ASSUME NEW k \in 1 .. c, k - 1 \in G PROVE k \in G
  <2>1. k - 1 \in 0 .. c - 1 /\ cut[k - 1] <= i /\ (k - 1) + 1 = k
    BY <1>3
  <2>2. ~(i < cut[k])
    BY <2>1
  <2> QED
    BY <1>1, <2>2
<1>4. c \in G
  <2> HIDE DEF G
  <2> QED
    BY <1>2, <1>3, Upwards
<1> QED
  BY <1>1, <1>4

LEMMA ChunkWeights ==
  ASSUME NEW n \in Nat, NEW a \in [0 .. n - 1 -> Nat], NEW c \in Nat \ {0}
  PROVE  Chunks(a, n, c) \in [0 .. c - 1 -> Nat]
<1> DEFINE cut == Cuts(a, n, c)
           sum == Sum(a, n)
<1>1. ASSUME NEW k \in 0 .. c - 1 PROVE sum[cut[k + 1]] - sum[cut[k]] \in Nat
  <2>1. k \in 0 .. c /\ k + 1 \in 1 .. c /\ k + 1 \in 0 .. c /\ (k + 1) - 1 = k
    OBVIOUS
  <2>2. cut[k] \in 0 .. n /\ cut[k + 1] \in 0 .. n /\ cut[k] <= cut[k + 1]
    BY <2>1, CutsAreInOrder
  <2> HIDE DEF cut
  <2>3. sum[cut[k]] <= sum[cut[k + 1]]
    BY <2>2, SumGrows
  <2>4. sum[cut[k]] \in Nat /\ sum[cut[k + 1]] \in Nat
    BY <2>2, SumSteps
  <2> QED
    BY <2>3, <2>4
<1>2. Chunks(a, n, c) = [k \in 0 .. c - 1 |-> sum[cut[k + 1]] - sum[cut[k]]]
  BY DEF Chunks
<1> HIDE DEF cut, sum
<1> QED
  BY <1>1, <1>2

\* One comparison of insertion: the lighter of the chunks at i and j, i < j, comes first.
Exchanged(w, map, i, j) ==
  IF i < j /\ w[map[j]] < w[map[i]]
  THEN [map EXCEPT ![i] = map[j], ![j] = map[i]]
  ELSE map

\* sort is c * c comparisons, one after the other.
Comparisons(pass, w, c) ==
  /\ pass \in [0 .. c * c -> [0 .. c - 1 -> 0 .. c - 1]]
  /\ pass[0] = [i \in 0 .. c - 1 |-> i]
  /\ \A m \in 1 .. c * c :
       pass[m] = Exchanged(w, pass[m - 1], (m - 1) \div c, (m - 1) % c)
  /\ SortMap(w, c) = pass[c * c]

LEMMA SortSteps ==
  ASSUME NEW w, NEW c \in Nat \ {0}
  PROVE  \E pass : Comparisons(pass, w, c)
<1> DEFINE M == [0 .. c - 1 -> 0 .. c - 1]
           first == [i \in 0 .. c - 1 |-> i]
           Swap(m, map) ==
             LET i == (m - 1) \div c
                 j == (m - 1) % c
             IN IF i < j /\ w[map[j]] < w[map[i]]
                THEN [map EXCEPT ![i] = map[j], ![j] = map[i]]
                ELSE map
           F == [m \in 1 .. c * c |-> [map \in M |-> Swap(m, map)]]
           Is(g) == g = [m \in 0 .. c * c |-> IF m = 0 THEN first ELSE Swap(m, g[m - 1])]
           pass == CHOOSE g : Is(g)
<1>1. c * c \in Nat /\ first \in M
  OBVIOUS
<1>2. ASSUME NEW m \in 1 .. c * c, NEW map \in M PROVE Swap(m, map) \in M
  <2> DEFINE i == (m - 1) \div c
             j == (m - 1) % c
  <2>1. m - 1 \in Nat
    BY <1>1
  <2>2. i \in Nat /\ j \in 0 .. c - 1
    BY <2>1
  <2> HIDE DEF i, j
  <2>3. CASE i < j
    <3>1. i \in 0 .. c - 1 /\ map[i] \in 0 .. c - 1 /\ map[j] \in 0 .. c - 1
      BY <2>2, <2>3
    <3>2. [map EXCEPT ![i] = map[j], ![j] = map[i]] \in M
      BY <2>2, <3>1
    <3> QED
      BY <3>2 DEF i, j
  <2>4. CASE ~(i < j)
    BY <2>4 DEF i, j
  <2> QED
    BY <2>3, <2>4
<1>a. \A m, map : Swap(m, map) = Exchanged(w, map, (m - 1) \div c, (m - 1) % c)
  BY DEF Exchanged
<1> HIDE DEF Swap, first, M
<1>3. F \in [1 .. c * c -> [M -> M]] /\ \A m \in 1 .. c * c, map \in M : F[m][map] = Swap(m, map)
  BY <1>2
<1> HIDE DEF F
<1>4. PICK g : g \in [0 .. c * c -> M] /\ g[0] = first
               /\ \A m \in 1 .. c * c : g[m] = F[m][g[m - 1]]
  <2>1. PICK g : GoesOn(g, c * c, M, first, F)
    BY <1>1, <1>3, Recursion, Zenon
  <2> QED
    BY <2>1 DEF GoesOn
<1>5. Is(g)
  <2>1. ASSUME NEW m \in 1 .. c * c PROVE g[m] = Swap(m, g[m - 1])
    <3>1. m - 1 \in 0 .. c * c
      BY <1>1
    <3>2. g[m - 1] \in M
      BY <1>4, <3>1
    <3> QED
      BY <1>3, <1>4, <3>2
  <2> QED
    BY <1>1, <1>4, <2>1
<1>6. Is(pass)
  BY <1>5
<1>7. SortMap(w, c) = pass[c * c]
  BY DEF SortMap, Swap, first
<1> HIDE DEF pass
<1>b. pass[0] = first /\ \A m \in 1 .. c * c : pass[m] = Swap(m, pass[m - 1])
  BY <1>1, <1>6
<1>8. \A m \in 0 .. c * c : pass[m] \in M
  <2> DEFINE G == {m \in 0 .. c * c : pass[m] \in M}
  <2>1. 0 \in G
    BY <1>1, <1>b
  <2>2. ASSUME NEW m \in 1 .. c * c, m - 1 \in G PROVE m \in G
    <3>1. pass[m - 1] \in M /\ m \in 0 .. c * c
      BY <2>2
    <3> QED
      BY <1>2, <1>b, <3>1
  <2>3. \A m \in 0 .. c * c : m \in G
    <3> HIDE DEF G
    <3> QED
      BY <1>1, <2>1, <2>2, Upwards
  <2> QED
    BY <2>3
<1>9. pass \in [0 .. c * c -> M]
  BY <1>6, <1>8
<1> QED
  BY <1>7, <1>9, <1>a, <1>b DEF M, first, Comparisons

\* However insertion exchanges positions, every position holds a chunk.
LEMMA SortMapRange ==
  ASSUME NEW w, NEW c \in Nat \ {0}
  PROVE  SortMap(w, c) \in [0 .. c - 1 -> 0 .. c - 1]
<1>1. c * c \in 0 .. c * c
  OBVIOUS
<1>2. PICK pass : Comparisons(pass, w, c)
  BY SortSteps
<1> QED
  BY <1>1, <1>2 DEF Comparisons

\* Quotient and remainder.
LEMMA Division ==
  ASSUME NEW x \in Nat, NEW c \in Nat \ {0}
  PROVE  x \div c \in Nat /\ x % c \in 0 .. c - 1 /\ x = (x \div c) * c + (x % c)
<1>1. x \div c \in Nat /\ x % c \in 0 .. c - 1
  OBVIOUS
<1>2. x = c * (x \div c) + (x % c)
  OBVIOUS
<1> QED
  BY <1>1, <1>2

LEMMA InBetween ==
  ASSUME NEW x \in Nat, NEW y \in Nat, NEW z \in Nat, x < y, y < z
  PROVE  x # y /\ x # z /\ x < z
OBVIOUS

LEMMA OneBefore ==
  ASSUME NEW x \in Nat, NEW m \in Nat
  PROVE  x < m <=> x <= m - 1
OBVIOUS

\* Comparisons are made row by row: (p, q) before (i, j).
LEMMA RowByRow ==
  ASSUME NEW c \in Nat, NEW p \in 0 .. c - 1, NEW q \in 0 .. c - 1,
         NEW i \in Nat, NEW j \in 0 .. c - 1
  PROVE  /\ p * c + q \in Nat
         /\ p * c + q <= i * c + j <=> p < i \/ (p = i /\ q <= j)
         /\ p * c + q < i * c + j <=> p < i \/ (p = i /\ q < j)
<1>1. \A x, y \in Nat : x < y => x * c + c <= y * c
  <2> SUFFICES ASSUME NEW x \in Nat, NEW y \in Nat, x < y PROVE x * c + c <= y * c
    OBVIOUS
  <2>1. PICK d \in Nat : y = x + 1 + d
    <3>1. y - x - 1 \in Nat /\ y = x + 1 + (y - x - 1)
      OBVIOUS
    <3> QED
      BY <3>1
  <2>2. y * c = x * c + c + d * c
    BY <2>1
  <2>3. d * c \in Nat /\ x * c \in Nat
    OBVIOUS
  <2> QED
    BY <2>2, <2>3
<1>2. PICK x \in Nat, y \in Nat : x = p * c /\ y = i * c
  <2>1. p * c \in Nat /\ i * c \in Nat
    OBVIOUS
  <2> QED
    BY <2>1
<1>6. SUFFICES /\ x + q \in Nat
               /\ x + q <= y + j <=> p < i \/ (p = i /\ q <= j)
               /\ x + q < y + j <=> p < i \/ (p = i /\ q < j)
  BY <1>2
<1>3. CASE p < i
  <2>1. x + c <= y
    BY <1>1, <1>2, <1>3
  <2> QED
    BY <1>2, <1>3, <2>1
<1>4. CASE p = i
  BY <1>2, <1>4
<1>5. CASE i < p
  <2>1. y + c <= x
    BY <1>1, <1>2, <1>5
  <2> QED
    BY <1>2, <1>5, <2>1
<1> QED
  BY <1>3, <1>4, <1>5

\* new is map after a comparison of i with j; the others keep their chunks.
Compared(w, c, map, new, i, j) ==
  /\ new \in [0 .. c - 1 -> 0 .. c - 1]
  /\ \A p \in 0 .. c - 1 : p # i /\ p # j => new[p] = map[p]
  /\ \/ new[i] = map[i] /\ new[j] = map[j]
     \/ new[i] = map[j] /\ new[j] = map[i]
  /\ w[new[i]] <= w[new[j]] /\ w[new[i]] <= w[map[i]]

LEMMA ComparisonOrders ==
  ASSUME NEW c \in Nat \ {0}, NEW w \in [0 .. c - 1 -> Nat],
         NEW map \in [0 .. c - 1 -> 0 .. c - 1],
         NEW i \in Nat, NEW j \in 0 .. c - 1, i < j
  PROVE  Compared(w, c, map, Exchanged(w, map, i, j), i, j)
<1>1. i \in 0 .. c - 1 /\ i # j
  OBVIOUS
<1>2. map[i] \in 0 .. c - 1 /\ map[j] \in 0 .. c - 1
  BY <1>1
<1>3. w[map[i]] \in Nat /\ w[map[j]] \in Nat
  BY <1>2
<1>4. CASE w[map[j]] < w[map[i]]
  <2> DEFINE e == [map EXCEPT ![i] = map[j], ![j] = map[i]]
  <2>1. /\ e \in [0 .. c - 1 -> 0 .. c - 1]
        /\ \A p \in 0 .. c - 1 : p # i /\ p # j => e[p] = map[p]
        /\ e[i] = map[j] /\ e[j] = map[i]
    BY <1>1, <1>2
  <2>2. Exchanged(w, map, i, j) = e
    BY <1>4 DEF Exchanged
  <2> HIDE DEF e
  <2>3. w[e[i]] <= w[e[j]] /\ w[e[i]] <= w[map[i]]
    <3>1. PICK x \in Nat, y \in Nat : x = w[map[i]] /\ y = w[map[j]]
      BY <1>3
    <3>2. y < x => y <= x
      OBVIOUS
    <3>3. w[e[i]] = y /\ w[e[j]] = x
      BY <2>1, <3>1
    <3> QED
      BY <1>4, <3>1, <3>2, <3>3
  <2>4. Compared(w, c, map, e, i, j)
    BY <2>1, <2>3 DEF Compared
  <2> QED
    BY <2>2, <2>4
<1>5. CASE ~(w[map[j]] < w[map[i]])
  <2>1. Exchanged(w, map, i, j) = map
    BY <1>5 DEF Exchanged
  <2>2. w[map[i]] <= w[map[j]] /\ w[map[i]] <= w[map[i]]
    <3>1. PICK x \in Nat, y \in Nat : x = w[map[i]] /\ y = w[map[j]]
      BY <1>3
    <3>2. ~(y < x) => x <= y /\ x <= x
      OBVIOUS
    <3> QED
      BY <1>5, <3>1, <3>2
  <2>3. Compared(w, c, map, map, i, j)
    BY <2>2 DEF Compared
  <2> QED
    BY <2>1, <2>3
<1> QED
  BY <1>4, <1>5

\* map has every chunk once.
Permutes(map, c) ==
  /\ map \in [0 .. c - 1 -> 0 .. c - 1]
  /\ \A p, q \in 0 .. c - 1 : map[p] = map[q] => p = q
  /\ \A k \in 0 .. c - 1 : \E p \in 0 .. c - 1 : map[p] = k

LEMMA ComparisonPermutes ==
  ASSUME NEW c \in Nat \ {0}, NEW w \in [0 .. c - 1 -> Nat],
         NEW map, Permutes(map, c),
         NEW i \in Nat, NEW j \in 0 .. c - 1
  PROVE  Permutes(Exchanged(w, map, i, j), c)
<1>1. map \in [0 .. c - 1 -> 0 .. c - 1]
  BY DEF Permutes
<1>2. CASE ~(i < j)
  <2>1. Exchanged(w, map, i, j) = map
    BY <1>2 DEF Exchanged
  <2> QED
    BY <2>1
<1>3. CASE i < j
  <2> DEFINE new == Exchanged(w, map, i, j)
  <2>1. Compared(w, c, map, new, i, j)
    BY <1>1, <1>3, ComparisonOrders
  <2> HIDE DEF new
  <2>2. i \in 0 .. c - 1 /\ i # j
    BY <1>3
  <2>3. ASSUME NEW p \in 0 .. c - 1, NEW q \in 0 .. c - 1, new[p] = new[q] PROVE p = q
    <3>1. /\ map[i] # map[j]
          /\ \A x \in 0 .. c - 1 : x # i => map[x] # map[i]
          /\ \A x \in 0 .. c - 1 : x # j => map[x] # map[j]
      BY <2>2 DEF Permutes
    <3>2. \/ new[i] = map[i] /\ new[j] = map[j]
          \/ new[i] = map[j] /\ new[j] = map[i]
      BY <2>1 DEF Compared
    <3>3. \A x \in 0 .. c - 1 : x # i /\ x # j => new[x] = map[x]
      BY <2>1 DEF Compared
    <3>4. \A x \in 0 .. c - 1 : x # i /\ x # j => new[x] # new[i] /\ new[x] # new[j]
      BY <3>1, <3>2, <3>3
    <3>5. new[i] # new[j]
      BY <3>1, <3>2
    <3>6. CASE p # i /\ p # j /\ q # i /\ q # j
      <4>1. map[p] = map[q]
        BY <2>3, <3>3, <3>6
      <4> QED
        BY <4>1 DEF Permutes
    <3>7. CASE (p = i \/ p = j) /\ (q = i \/ q = j)
      BY <2>3, <3>5, <3>7
    <3> QED
      BY <2>3, <3>4, <3>6, <3>7
  <2>4. ASSUME NEW k \in 0 .. c - 1 PROVE \E p \in 0 .. c - 1 : new[p] = k
    <3>1. PICK p \in 0 .. c - 1 : map[p] = k
      BY DEF Permutes
    <3>2. CASE p # i /\ p # j
      BY <2>1, <3>1, <3>2 DEF Compared
    <3>3. CASE p = i
      BY <2>1, <2>2, <3>1, <3>3 DEF Compared
    <3>4. CASE p = j
      BY <2>1, <2>2, <3>1, <3>4 DEF Compared
    <3> QED
      BY <3>2, <3>3, <3>4
  <2>5. Permutes(new, c)
    <3>1. new \in [0 .. c - 1 -> 0 .. c - 1]
      BY <2>1 DEF Compared
    <3> QED
      BY <2>3, <2>4, <3>1 DEF Permutes
  <2> QED
    BY <2>5 DEF new
<1> QED
  BY <1>2, <1>3

\* The positions below m in the order of the comparisons are compared: all are in order.
OrderedUpTo(w, c, map, m) ==
  \A p, q \in 0 .. c - 1 : p < q /\ p * c + q < m => w[map[p]] <= w[map[q]]

LEMMA ComparisonsOrder ==
  ASSUME NEW c \in Nat \ {0}, NEW w \in [0 .. c - 1 -> Nat],
         NEW map \in [0 .. c - 1 -> 0 .. c - 1], NEW m \in Nat \ {0},
         OrderedUpTo(w, c, map, m - 1)
  PROVE  OrderedUpTo(w, c, Exchanged(w, map, (m - 1) \div c, (m - 1) % c), m)
<1> DEFINE i == (m - 1) \div c
           j == (m - 1) % c
           new == Exchanged(w, map, i, j)
<1>1. m - 1 \in Nat /\ m \in Nat
  OBVIOUS
<1>2. i \in Nat /\ j \in 0 .. c - 1 /\ m - 1 = i * c + j
  <2>1. PICK x \in Nat : x = m - 1
    BY <1>1
  <2> QED
    BY <2>1, Division
<1> HIDE DEF i, j
\* In the order of the comparisons (p, q) comes before (i, j), or is it.
<1>3. \A p, q \in 0 .. c - 1 :
        /\ p * c + q < m <=> p < i \/ (p = i /\ q <= j)
        /\ p * c + q < m - 1 <=> p < i \/ (p = i /\ q < j)
  <2> SUFFICES ASSUME NEW p \in 0 .. c - 1, NEW q \in 0 .. c - 1
               PROVE  /\ p * c + q < m <=> p < i \/ (p = i /\ q <= j)
                      /\ p * c + q < m - 1 <=> p < i \/ (p = i /\ q < j)
    OBVIOUS
  <2>1. /\ p * c + q \in Nat
        /\ p * c + q <= i * c + j <=> p < i \/ (p = i /\ q <= j)
        /\ p * c + q < i * c + j <=> p < i \/ (p = i /\ q < j)
    BY <1>2, RowByRow
  <2>2. PICK x \in Nat : x = p * c + q
    BY <2>1
  <2>3. x < m <=> x <= m - 1
    <3>1. m \in Nat
      BY <1>1
    <3> QED
      BY <3>1, OneBefore
  <2> QED
    BY <1>2, <2>1, <2>2, <2>3
<1> DEFINE Rises(p, q) == w[map[p]] <= w[map[q]]
<1>4. \A p, q \in 0 .. c - 1 : p < q /\ (p < i \/ (p = i /\ q < j)) => Rises(p, q)
  BY <1>3 DEF OrderedUpTo
<1> HIDE DEF Rises
<1>5. SUFFICES ASSUME NEW p \in 0 .. c - 1, NEW q \in 0 .. c - 1, p < q,
                      p < i \/ (p = i /\ q <= j)
               PROVE  w[new[p]] <= w[new[q]]
  BY <1>3 DEF OrderedUpTo, i, j
<1>6. CASE ~(i < j)
  <2>1. Rises(p, q)
    <3>1. p < i \/ (p = i /\ q < j)
      BY <1>2, <1>5, <1>6
    <3> QED
      BY <1>4, <1>5, <3>1
  <2>2. new = map
    BY <1>6 DEF Exchanged
  <2> QED
    BY <2>1, <2>2 DEF Rises
<1>7. CASE i < j
  <2>1. Compared(w, c, map, new, i, j)
    BY <1>2, <1>7, ComparisonOrders
  <2> HIDE DEF new
  <2>2. i \in 0 .. c - 1
    BY <1>2, <1>7
  <2>3. CASE p = i /\ q = j
    BY <2>1, <2>3 DEF Compared
  <2>4. CASE p = i /\ q # j
    <3>1. q < j /\ q # i
      BY <1>2, <1>5, <2>4
    <3>2. new[q] = map[q] /\ w[new[i]] <= w[map[i]]
      BY <2>1, <2>4, <3>1 DEF Compared
    <3>3. Rises(i, q)
      BY <1>4, <1>5, <2>4, <3>1
    <3>4. new[i] \in 0 .. c - 1 /\ map[i] \in 0 .. c - 1 /\ map[q] \in 0 .. c - 1
      BY <2>1, <2>2 DEF Compared
    <3>5. PICK x \in Nat, y \in Nat, z \in Nat :
            x = w[new[i]] /\ y = w[map[i]] /\ z = w[map[q]]
      BY <3>4
    <3>6. x <= y /\ y <= z
      BY <3>2, <3>3, <3>5 DEF Rises
    <3>7. x <= z
      BY <3>6
    <3> QED
      BY <2>4, <3>2, <3>5, <3>7
  <2>5. CASE p < i
    <3>1. p # i /\ p # j /\ p < j
      <4>1. p \in Nat /\ i \in Nat /\ j \in Nat
        BY <1>2
      <4> QED
        BY <1>7, <2>5, <4>1, InBetween
    <3>2. new[p] = map[p]
      BY <2>1, <3>1 DEF Compared
    <3>3. Rises(p, q) /\ Rises(p, i) /\ Rises(p, j)
      BY <1>2, <1>4, <1>5, <2>2, <2>5, <3>1
    <3>4. new[q] = map[q] \/ new[q] = map[i] \/ new[q] = map[j]
      BY <2>1 DEF Compared
    <3> QED
      BY <3>2, <3>3, <3>4 DEF Rises
  <2> QED
    BY <1>2, <1>5, <2>2, <2>3, <2>4, <2>5
<1> QED
  BY <1>6, <1>7

(***************************************************************************)
(* sort leaves every chunk in the map once, the lighter before the heavier,*)
(* although its insertion passes over all pairs and exchanges as it goes.  *)
(***************************************************************************)
THEOREM SortMapSorts ==
  ASSUME NEW c \in Nat \ {0}, NEW w \in [0 .. c - 1 -> Nat]
  PROVE  /\ Permutes(SortMap(w, c), c)
         /\ \A p, q \in 0 .. c - 1 : p < q => w[SortMap(w, c)[p]] <= w[SortMap(w, c)[q]]
<1>1. PICK pass : Comparisons(pass, w, c)
  BY SortSteps
<1> DEFINE Good(m) == Permutes(pass[m], c) /\ OrderedUpTo(w, c, pass[m], m)
           G == {m \in 0 .. c * c : Good(m)}
<1>2. c * c \in Nat
  OBVIOUS
<1>3. 0 \in G
  <2>1. Permutes(pass[0], c)
    <3> DEFINE first == [i \in 0 .. c - 1 |-> i]
    <3>1. first \in [0 .. c - 1 -> 0 .. c - 1] /\ \A i \in 0 .. c - 1 : first[i] = i
      OBVIOUS
    <3> HIDE DEF first
    <3>2. Permutes(first, c)
      BY <3>1 DEF Permutes
    <3> QED
      BY <1>1, <3>2 DEF Comparisons, first
  <2>2. OrderedUpTo(w, c, pass[0], 0)
    <3>1. ASSUME NEW p \in 0 .. c - 1, NEW q \in 0 .. c - 1 PROVE ~(p * c + q < 0)
      <4>1. p * c + q \in Nat
        BY RowByRow
      <4> QED
        BY <4>1
    <3> QED
      BY <3>1 DEF OrderedUpTo
  <2> QED
    BY <1>2, <2>1, <2>2
<1>4. ASSUME NEW m \in 1 .. c * c, m - 1 \in G PROVE m \in G
  <2>1. Good(m - 1) /\ m \in 0 .. c * c /\ m \in Nat \ {0} /\ m - 1 \in Nat
    BY <1>2, <1>4
  <2> DEFINE i == (m - 1) \div c
             j == (m - 1) % c
  <2>2. i \in Nat /\ j \in 0 .. c - 1
    <3>1. PICK x \in Nat : x = m - 1
      BY <2>1
    <3> QED
      BY <3>1, Division
  <2>3. pass[m] = Exchanged(w, pass[m - 1], i, j)
    BY <1>1 DEF Comparisons
  <2>4. pass[m - 1] \in [0 .. c - 1 -> 0 .. c - 1]
    BY <2>1 DEF Permutes
  <2>5. OrderedUpTo(w, c, pass[m], m)
    <3>1. OrderedUpTo(w, c, pass[m - 1], m - 1)
      BY <2>1
    <3> QED
      BY <2>1, <2>3, <2>4, <3>1, ComparisonsOrder
  <2>6. Permutes(pass[m], c)
    <3> HIDE DEF i, j
    <3> QED
      BY <2>1, <2>2, <2>3, ComparisonPermutes
  <2> QED
    BY <2>1, <2>5, <2>6
<1>5. Good(c * c)
  <2>1. \A m \in 0 .. c * c : m \in G
    <3> HIDE DEF G
    <3> QED
      BY <1>2, <1>3, <1>4, Upwards
  <2>2. c * c \in 0 .. c * c
    BY <1>2
  <2> QED
    BY <2>1, <2>2
<1>6. \A p, q \in 0 .. c - 1 : p * c + q < c * c
  <2> SUFFICES ASSUME NEW p \in 0 .. c - 1, NEW q \in 0 .. c - 1 PROVE p * c + q < c * c
    OBVIOUS
  <2>1. p * c + q \in Nat /\ p * c + q < c * c + 0
    <3>1. 0 \in 0 .. c - 1 /\ p < c
      OBVIOUS
    <3> QED
      BY <3>1, RowByRow
  <2> QED
    BY <2>1
<1>7. SortMap(w, c) = pass[c * c]
  BY <1>1 DEF Comparisons
<1> QED
  BY <1>5, <1>6, <1>7 DEF OrderedUpTo

\* LeastLoaded is a thread with the smallest load.
LEMMA LeastLoadedIsLeast ==
  ASSUME NEW T \in Nat \ {0}, NEW load \in [0 .. T - 1 -> Nat]
  PROVE  /\ LeastLoaded(load, T) \in 0 .. T - 1
         /\ \A u \in 0 .. T - 1 : load[LeastLoaded(load, T)] <= load[u]
<1> DEFINE L == {load[t] : t \in 0 .. T - 1}
           B == {t \in 0 .. T - 1 : \A u \in 0 .. T - 1 : load[t] <= load[u]}
<1>1. L \in SUBSET Nat /\ load[0] \in L /\ \A u \in 0 .. T - 1 : load[u] \in L
  OBVIOUS
<1>2. Least(L) \in L /\ \A x \in L : Least(L) <= x
  <2> HIDE DEF L
  <2> QED
    BY <1>1, LeastIsLeast
<1>3. PICK t \in 0 .. T - 1 : load[t] = Least(L)
  BY <1>2
<1>4. t \in B
  BY <1>1, <1>2, <1>3
<1>5. B \in SUBSET Nat /\ B # {}
  BY <1>4
<1>6. \A x \in B : x \in 0 .. T - 1 /\ \A u \in 0 .. T - 1 : load[x] <= load[u]
  OBVIOUS
<1> HIDE DEF B
<1>7. Least(B) \in B
  BY <1>5, LeastIsLeast
<1>8. LeastLoaded(load, T) = Least(B)
  BY DEF LeastLoaded, B
<1> QED
  BY <1>6, <1>7, <1>8

\* compute_thread_assignment gives chunk k to the thread with the least.
Given(d, w, k, T) ==
  IF w[k] = 0 THEN d
  ELSE [thread |-> [d.thread EXCEPT ![k] = LeastLoaded(d.load, T)],
        load   |-> [d.load EXCEPT ![LeastLoaded(d.load, T)] = @ + w[k]]]

Dealings(c, T) == [thread : [0 .. c - 1 -> 0 .. T - 1], load : [0 .. T - 1 -> Nat]]

\* It does so chunk after chunk, from the end of the map.
Deals(deal, w, c, T) ==
  /\ deal \in [0 .. c -> Dealings(c, T)]
  /\ \A t \in 0 .. T - 1 : deal[0].load[t] = 0
  /\ \A m \in 1 .. c : deal[m] = Given(deal[m - 1], w, SortMap(w, c)[c - m], T)
  /\ Dealt(w, c, T) = deal[c]

LEMMA DealSteps ==
  ASSUME NEW c \in Nat \ {0}, NEW w \in [0 .. c - 1 -> Nat], NEW T \in Nat \ {0}
  PROVE  \E deal : Deals(deal, w, c, T)
<1> DEFINE D == [thread : [0 .. c - 1 -> 0 .. T - 1], load : [0 .. T - 1 -> Nat]]
           map == SortMap(w, c)
           none == [thread |-> [k \in 0 .. c - 1 |-> 0], load |-> [t \in 0 .. T - 1 |-> 0]]
           Give(m, d) ==
             LET k == map[c - m]
                 t == LeastLoaded(d.load, T)
             IN IF w[k] = 0 THEN d
                ELSE [thread |-> [d.thread EXCEPT ![k] = t],
                      load   |-> [d.load EXCEPT ![t] = @ + w[k]]]
           F == [m \in 1 .. c |-> [d \in D |-> Give(m, d)]]
           Is(g) == g = [m \in 0 .. c |-> IF m = 0 THEN none ELSE Give(m, g[m - 1])]
           deal == CHOOSE g : Is(g)
<1>1. c \in Nat /\ none \in D /\ \A t \in 0 .. T - 1 : none.load[t] = 0
  OBVIOUS
<1>2. ASSUME NEW m \in 1 .. c, NEW d \in D PROVE Give(m, d) \in D
  <2> DEFINE k == map[c - m]
             t == LeastLoaded(d.load, T)
             e == [thread |-> [d.thread EXCEPT ![k] = t],
                   load   |-> [d.load EXCEPT ![t] = @ + w[k]]]
  <2>1. c - m \in 0 .. c - 1 /\ map \in [0 .. c - 1 -> 0 .. c - 1]
    BY SortMapRange
  <2> HIDE DEF map
  <2>2. k \in 0 .. c - 1
    BY <2>1
  <2>3. t \in 0 .. T - 1
    BY LeastLoadedIsLeast
  <2>4. w[k] \in Nat
    BY <2>2
  <2> HIDE DEF k, t
  <2>5. d.thread \in [0 .. c - 1 -> 0 .. T - 1] /\ d.load \in [0 .. T - 1 -> Nat]
    OBVIOUS
  <2>6. d.load[t] + w[k] \in Nat
    <3>1. PICK x \in Nat, y \in Nat : x = d.load[t] /\ y = w[k]
      BY <2>3, <2>4, <2>5
    <3>2. x + y \in Nat
      OBVIOUS
    <3> QED
      BY <3>1, <3>2
  <2>7. /\ [d.thread EXCEPT ![k] = t] \in [0 .. c - 1 -> 0 .. T - 1]
        /\ [d.load EXCEPT ![t] = @ + w[k]] \in [0 .. T - 1 -> Nat]
    BY <2>3, <2>5, <2>6
  <2>8. e \in D
    BY <2>7
  <2>9. Give(m, d) = IF w[k] = 0 THEN d ELSE e
    BY DEF k, t
  <2> QED
    BY <2>8, <2>9
<1>a. \A m, d : Give(m, d) = Given(d, w, map[c - m], T)
  BY DEF Given
<1> HIDE DEF Give, none, D
<1>3. F \in [1 .. c -> [D -> D]] /\ \A m \in 1 .. c, d \in D : F[m][d] = Give(m, d)
  BY <1>2
<1> HIDE DEF F
<1>4. PICK g : g \in [0 .. c -> D] /\ g[0] = none /\ \A m \in 1 .. c : g[m] = F[m][g[m - 1]]
  <2>1. PICK g : GoesOn(g, c, D, none, F)
    BY <1>1, <1>3, Recursion, Zenon
  <2> QED
    BY <2>1 DEF GoesOn
<1>5. Is(g)
  <2>1. ASSUME NEW m \in 1 .. c PROVE g[m] = Give(m, g[m - 1])
    <3>1. g[m - 1] \in D
      BY <1>4
    <3> QED
      BY <1>3, <1>4, <3>1
  <2> QED
    BY <1>4, <2>1
<1>6. Is(deal)
  BY <1>5
<1>7. Dealt(w, c, T) = deal[c]
  BY DEF Dealt, Give, none
<1> HIDE DEF deal
<1>b. deal[0] = none /\ \A m \in 1 .. c : deal[m] = Give(m, deal[m - 1])
  BY <1>1, <1>6
<1>8. \A m \in 0 .. c : deal[m] \in D
  <2> DEFINE G == {m \in 0 .. c : deal[m] \in D}
  <2>1. 0 \in G
    BY <1>1, <1>b
  <2>2. ASSUME NEW m \in 1 .. c, m - 1 \in G PROVE m \in G
    <3>1. deal[m - 1] \in D /\ m \in 0 .. c
      BY <2>2
    <3> QED
      BY <1>2, <1>b, <3>1
  <2>3. \A m \in 0 .. c : m \in G
    <3> HIDE DEF G
    <3> QED
      BY <1>1, <2>1, <2>2, Upwards
  <2> QED
    BY <2>3
<1>9. deal \in [0 .. c -> D]
  BY <1>6, <1>8
<1> QED
  BY <1>1, <1>7, <1>9, <1>a, <1>b DEF D, Deals, Dealings

\* compute_thread_assignment: every chunk is given to one of the threads.
LEMMA DealtRange ==
  ASSUME NEW c \in Nat \ {0}, NEW w \in [0 .. c - 1 -> Nat], NEW T \in Nat \ {0}
  PROVE  Dealt(w, c, T).thread \in [0 .. c - 1 -> 0 .. T - 1]
<1>1. PICK deal : Deals(deal, w, c, T)
  BY DealSteps
<1>2. c \in 0 .. c
  OBVIOUS
<1> QED
  BY <1>1, <1>2 DEF Deals, Dealings

(***************************************************************************)
(* binlpt_balance gives every iteration to one of the threads it was made  *)
(* for, whatever the weights are.                                          *)
(***************************************************************************)
THEOREM MapReachesThreads ==
  ASSUME NEW n \in Nat, NEW a \in [0 .. n - 1 -> Nat], NEW T \in Nat \ {0}
  PROVE  TaskMap(a, n, T) \in [0 .. n - 1 -> 0 .. T - 1]
<1> DEFINE c == 2 * T
           cut == Cuts(a, n, c)
           thread == Dealt(Chunks(a, n, c), c, T).thread
           Chunk(i) == CHOOSE k \in 0 .. c - 1 : cut[k] <= i /\ i < cut[k + 1]
<1>1. c \in Nat \ {0}
  OBVIOUS
<1>2. TaskMap(a, n, T) = [i \in 0 .. n - 1 |-> thread[Chunk(i)]]
  BY DEF TaskMap
<1> HIDE DEF c
<1>3. thread \in [0 .. c - 1 -> 0 .. T - 1]
  <2>1. Chunks(a, n, c) \in [0 .. c - 1 -> Nat]
    BY <1>1, ChunkWeights
  <2> QED
    BY <1>1, <2>1, DealtRange
<1>4. ASSUME NEW i \in 0 .. n - 1 PROVE Chunk(i) \in 0 .. c - 1
  <2>1. \E k \in 0 .. c - 1 : cut[k] <= i /\ i < cut[k + 1]
    BY <1>1, ChunksCover
  <2> QED
    BY <2>1
<1> HIDE DEF thread, Chunk
<1> QED
  BY <1>2, <1>3, <1>4

-----------------------------------------------------------------------------
(* Laws of the sums.                                                       *)

\* All of a, the total that compute_cummulativesum leaves at the end.
Total(a, n) == Sum(a, n)[n]

\* The weights a of the chunks, or iterations, that g gives to thread t.
Of(a, g, t, n) == [x \in 0 .. n - 1 |-> IF g[x] = t THEN a[x] ELSE 0]

LEMMA TotalIsNat ==
  ASSUME NEW n \in Nat, NEW a \in [0 .. n - 1 -> Nat]
  PROVE  Total(a, n) \in Nat
<1>1. n \in 0 .. n
  OBVIOUS
<1> QED
  BY <1>1, SumSteps DEF Total

\* Changing the weight of one changes the total by as much.
LEMMA TotalChanges ==
  ASSUME NEW n \in Nat, NEW a \in [0 .. n - 1 -> Nat], NEW b \in [0 .. n - 1 -> Nat],
         NEW k \in 0 .. n - 1, \A i \in 0 .. n - 1 : i # k => b[i] = a[i]
  PROVE  Total(b, n) + a[k] = Total(a, n) + b[k]
<1> DEFINE s == Sum(a, n)
           r == Sum(b, n)
           Same(i) == IF k < i THEN r[i] + a[k] = s[i] + b[k] ELSE r[i] = s[i]
           G == {i \in 0 .. n : Same(i)}
<1>1. /\ s[0] = 0 /\ \A i \in 0 .. n : s[i] \in Nat
      /\ \A i \in 1 .. n : s[i] = s[i - 1] + a[i - 1]
  BY SumSteps
<1>2. /\ r[0] = 0 /\ \A i \in 0 .. n : r[i] \in Nat
      /\ \A i \in 1 .. n : r[i] = r[i - 1] + b[i - 1]
  BY SumSteps
<1>3. a[k] \in Nat /\ b[k] \in Nat
  OBVIOUS
<1> HIDE DEF s, r
<1>4. 0 \in G
  <2>1. 0 \in 0 .. n /\ ~(k < 0)
    OBVIOUS
  <2>2. Same(0)
    BY <1>1, <1>2, <2>1
  <2> QED
    BY <2>1, <2>2
<1>5. ASSUME NEW i \in 1 .. n, i - 1 \in G PROVE i \in G
  <2>1. /\ i - 1 \in 0 .. n - 1 /\ i - 1 \in 0 .. n /\ i \in 0 .. n
        /\ a[i - 1] \in Nat /\ b[i - 1] \in Nat
    OBVIOUS
  <2>2. /\ r[i] = r[i - 1] + b[i - 1] /\ s[i] = s[i - 1] + a[i - 1]
        /\ r[i - 1] \in Nat /\ s[i - 1] \in Nat /\ Same(i - 1)
    BY <1>1, <1>2, <1>5, <2>1
  <2>3. Same(i)
    <3>1. CASE k = i - 1
      BY <1>3, <2>1, <2>2, <3>1
    <3>2. CASE k # i - 1
      <4>1. b[i - 1] = a[i - 1]
        BY <2>1, <3>2
      <4>2. CASE k < i - 1
        <5>1. k < i /\ r[i - 1] + a[k] = s[i - 1] + b[k]
          BY <2>2, <4>2
        <5>2. (r[i - 1] + b[i - 1]) + a[k] = (s[i - 1] + b[i - 1]) + b[k]
          <6>1. PICK p \in Nat, q \in Nat, x \in Nat, y \in Nat, z \in Nat :
                  /\ p = r[i - 1] /\ q = s[i - 1] /\ x = a[k] /\ y = b[k] /\ z = b[i - 1]
            BY <1>3, <2>1, <2>2
          <6>2. p + x = q + y
            BY <5>1, <6>1
          <6>3. (p + z) + x = (q + z) + y
            BY <6>2
          <6> QED
            BY <6>1, <6>3
        <5>3. r[i] + a[k] = s[i] + b[k]
          BY <2>2, <4>1, <5>2, Zenon
        <5> QED
          BY <5>1, <5>3
      <4>3. CASE ~(k < i - 1)
        <5>1. ~(k < i) /\ r[i - 1] = s[i - 1]
          BY <2>2, <3>2, <4>3
        <5> QED
          BY <2>2, <4>1, <5>1
      <4> QED
        BY <4>2, <4>3
    <3> QED
      BY <3>1, <3>2
  <2> QED
    BY <2>1, <2>3
<1>6. \A i \in 0 .. n : i \in G
  <2> HIDE DEF G
  <2> QED
    BY <1>4, <1>5, Upwards
<1>7. Same(n) /\ k < n
  BY <1>6
<1> QED
  BY <1>7 DEF Total, s, r

\* A total is at least, and at most, what every weight is, times their number.
LEMMA TotalAtMost ==
  ASSUME NEW n \in Nat, NEW a \in [0 .. n - 1 -> Nat], NEW q \in Nat,
         \A i \in 0 .. n - 1 : a[i] <= q
  PROVE  Total(a, n) <= n * q
<1> DEFINE s == Sum(a, n)
           G == {i \in 0 .. n : s[i] <= i * q}
<1>1. /\ s[0] = 0 /\ \A i \in 0 .. n : s[i] \in Nat
      /\ \A i \in 1 .. n : s[i] = s[i - 1] + a[i - 1]
  BY SumSteps
<1> HIDE DEF s
<1>2. 0 \in G
  BY <1>1
<1>3. ASSUME NEW i \in 1 .. n, i - 1 \in G PROVE i \in G
  <2>1. /\ i \in 0 .. n /\ s[i - 1] <= (i - 1) * q /\ s[i - 1] \in Nat
        /\ s[i] = s[i - 1] + a[i - 1] /\ a[i - 1] \in Nat /\ a[i - 1] <= q
    BY <1>1, <1>3
  <2>2. (i - 1) * q + q = i * q /\ (i - 1) * q \in Int
    OBVIOUS
  <2>3. s[i] <= i * q
    BY <2>1, <2>2
  <2> QED
    BY <2>1, <2>3
<1>4. \A i \in 0 .. n : i \in G
  <2> HIDE DEF G
  <2> QED
    BY <1>2, <1>3, Upwards
<1>5. n \in G
  BY <1>4
<1> QED
  BY <1>5 DEF Total, s

LEMMA TotalAtLeast ==
  ASSUME NEW n \in Nat, NEW a \in [0 .. n - 1 -> Nat], NEW q \in Nat,
         \A i \in 0 .. n - 1 : q <= a[i]
  PROVE  n * q <= Total(a, n)
<1> DEFINE s == Sum(a, n)
           G == {i \in 0 .. n : i * q <= s[i]}
<1>1. /\ s[0] = 0 /\ \A i \in 0 .. n : s[i] \in Nat
      /\ \A i \in 1 .. n : s[i] = s[i - 1] + a[i - 1]
  BY SumSteps
<1> HIDE DEF s
<1>2. 0 \in G
  BY <1>1
<1>3. ASSUME NEW i \in 1 .. n, i - 1 \in G PROVE i \in G
  <2>1. /\ i \in 0 .. n /\ (i - 1) * q <= s[i - 1] /\ s[i - 1] \in Nat
        /\ s[i] = s[i - 1] + a[i - 1] /\ a[i - 1] \in Nat /\ q <= a[i - 1]
    BY <1>1, <1>3
  <2>2. (i - 1) * q + q = i * q /\ (i - 1) * q \in Int
    OBVIOUS
  <2>3. i * q <= s[i]
    BY <2>1, <2>2
  <2> QED
    BY <2>1, <2>3
<1>4. \A i \in 0 .. n : i \in G
  <2> HIDE DEF G
  <2> QED
    BY <1>2, <1>3, Upwards
<1>5. n \in G
  BY <1>4
<1> QED
  BY <1>5 DEF Total, s

\* Heavier weights, heavier total.
LEMMA TotalGrows ==
  ASSUME NEW n \in Nat, NEW a \in [0 .. n - 1 -> Nat], NEW b \in [0 .. n - 1 -> Nat],
         \A i \in 0 .. n - 1 : a[i] <= b[i]
  PROVE  Total(a, n) <= Total(b, n)
<1> DEFINE s == Sum(a, n)
           r == Sum(b, n)
           G == {i \in 0 .. n : s[i] <= r[i]}
<1>1. /\ s[0] = 0 /\ \A i \in 0 .. n : s[i] \in Nat
      /\ \A i \in 1 .. n : s[i] = s[i - 1] + a[i - 1]
  BY SumSteps
<1>2. /\ r[0] = 0 /\ \A i \in 0 .. n : r[i] \in Nat
      /\ \A i \in 1 .. n : r[i] = r[i - 1] + b[i - 1]
  BY SumSteps
<1> HIDE DEF s, r
<1>3. 0 \in G
  BY <1>1, <1>2
<1>4. ASSUME NEW i \in 1 .. n, i - 1 \in G PROVE i \in G
  <2>1. /\ i \in 0 .. n /\ i - 1 \in 0 .. n - 1 /\ i - 1 \in 0 .. n
        /\ a[i - 1] \in Nat /\ b[i - 1] \in Nat /\ a[i - 1] <= b[i - 1]
    OBVIOUS
  <2>2. s[i - 1] <= r[i - 1] /\ s[i - 1] \in Nat /\ r[i - 1] \in Nat
    BY <1>1, <1>2, <1>4, <2>1
  <2> QED
    BY <1>1, <1>2, <2>1, <2>2
<1>5. \A i \in 0 .. n : i \in G
  <2> HIDE DEF G
  <2> QED
    BY <1>3, <1>4, Upwards
<1>6. n \in G
  BY <1>5
<1> QED
  BY <1>6 DEF Total, s, r

\* No weight is more than the total.
LEMMA TotalHas ==
  ASSUME NEW n \in Nat, NEW a \in [0 .. n - 1 -> Nat], NEW k \in 0 .. n - 1
  PROVE  a[k] <= Total(a, n)
<1> DEFINE b == [a EXCEPT ![k] = 0]
<1>1. b \in [0 .. n - 1 -> Nat] /\ b[k] = 0 /\ \A i \in 0 .. n - 1 : i # k => b[i] = a[i]
  OBVIOUS
<1> HIDE DEF b
<1>2. Total(b, n) + a[k] = Total(a, n) + b[k]
  <2>1. b \in [0 .. n - 1 -> Nat]
    BY <1>1
  <2>2. \A i \in 0 .. n - 1 : i # k => b[i] = a[i]
    BY <1>1
  <2> QED
    BY <2>1, <2>2, TotalChanges
<1>3. Total(a, n) \in Nat /\ Total(b, n) \in Nat /\ a[k] \in Nat
  BY <1>1, TotalIsNat
<1> QED
  BY <1>1, <1>2, <1>3

\* What the threads have together is all there is.
Whole(a, g, n, m) == Total([t \in 0 .. m - 1 |-> Total(Of(a, g, t, n), n)], m) = Total(a, n)

LEMMA PartsMakeWhole ==
  ASSUME NEW n \in Nat, NEW m \in Nat, NEW a \in [0 .. n - 1 -> Nat],
         NEW g \in [0 .. n - 1 -> 0 .. m - 1]
  PROVE  Whole(a, g, n, m)
<1> DEFINE s == Sum(a, n)
           r == [t \in 0 .. m - 1 |-> Sum(Of(a, g, t, n), n)]
           L(i) == [t \in 0 .. m - 1 |-> r[t][i]]
           G == {i \in 0 .. n : Total(L(i), m) = s[i]}
<1>1. /\ s[0] = 0 /\ \A i \in 0 .. n : s[i] \in Nat
      /\ \A i \in 1 .. n : s[i] = s[i - 1] + a[i - 1]
  BY SumSteps
<1>2. ASSUME NEW t \in 0 .. m - 1
      PROVE  /\ r[t][0] = 0 /\ \A i \in 0 .. n : r[t][i] \in Nat
             /\ \A i \in 1 .. n : r[t][i] = r[t][i - 1] + (IF g[i - 1] = t THEN a[i - 1] ELSE 0)
  <2> DEFINE b == Of(a, g, t, n)
  <2>1. b \in [0 .. n - 1 -> Nat]
        /\ \A x \in 0 .. n - 1 : b[x] = IF g[x] = t THEN a[x] ELSE 0
    BY DEF Of
  <2>2. r[t] = Sum(b, n)
    OBVIOUS
  <2> HIDE DEF b, r
  <2>3. /\ Sum(b, n)[0] = 0 /\ \A i \in 0 .. n : Sum(b, n)[i] \in Nat
        /\ \A i \in 1 .. n : Sum(b, n)[i] = Sum(b, n)[i - 1] + b[i - 1]
    BY <2>1, SumSteps
  <2>4. \A i \in 1 .. n : i - 1 \in 0 .. n - 1
    OBVIOUS
  <2> QED
    BY <2>1, <2>2, <2>3, <2>4
<1>3. Total([t \in 0 .. m - 1 |-> Total(Of(a, g, t, n), n)], m) = Total(L(n), m)
  <2>1. [t \in 0 .. m - 1 |-> Total(Of(a, g, t, n), n)] = L(n)
    BY DEF Total
  <2> QED
    BY <2>1
<1> HIDE DEF r, s
<1>4. \A i \in 0 .. n : L(i) \in [0 .. m - 1 -> Nat]
  BY <1>2
<1>5. 0 \in G
  <2>1. L(0) \in [0 .. m - 1 -> Nat] /\ \A t \in 0 .. m - 1 : L(0)[t] <= 0
    BY <1>2
  <2> HIDE DEF L
  <2>2. Total(L(0), m) <= m * 0 /\ Total(L(0), m) \in Nat
    BY <2>1, TotalAtMost, TotalIsNat
  <2>3. Total(L(0), m) = 0
    BY <2>2
  <2> QED
    BY <1>1, <2>3
<1>6. ASSUME NEW i \in 1 .. n, i - 1 \in G PROVE i \in G
  <2>1. /\ i \in 0 .. n /\ i - 1 \in 0 .. n /\ i - 1 \in 0 .. n - 1
        /\ g[i - 1] \in 0 .. m - 1 /\ a[i - 1] \in Nat
    OBVIOUS
  <2>2. L(i) \in [0 .. m - 1 -> Nat] /\ L(i - 1) \in [0 .. m - 1 -> Nat]
    BY <1>4, <2>1
  <2>3. /\ \A t \in 0 .. m - 1 : t # g[i - 1] => L(i)[t] = L(i - 1)[t]
        /\ L(i)[g[i - 1]] = L(i - 1)[g[i - 1]] + a[i - 1]
    BY <1>2, <2>1
  <2>4. Total(L(i - 1), m) = s[i - 1]
    BY <1>6
  <2> HIDE DEF L
  <2>5. Total(L(i), m) + L(i - 1)[g[i - 1]] = Total(L(i - 1), m) + L(i)[g[i - 1]]
    BY <2>1, <2>2, <2>3, TotalChanges
  <2>6. L(i - 1)[g[i - 1]] \in Nat /\ Total(L(i), m) \in Nat /\ Total(L(i - 1), m) \in Nat
    BY <2>1, <2>2, TotalIsNat
  <2> DEFINE new == L(i)[g[i - 1]]
             old == L(i - 1)[g[i - 1]]
  <2>7. Total(L(i), m) + old = Total(L(i - 1), m) + new /\ new = old + a[i - 1] /\ old \in Nat
    BY <2>3, <2>5, <2>6
  <2>9. Total(L(i), m) = Total(L(i - 1), m) + a[i - 1]
    <3>1. PICK p \in Nat, q \in Nat, o \in Nat, x \in Nat :
            /\ p = Total(L(i), m) /\ q = Total(L(i - 1), m)
            /\ o = old /\ x = a[i - 1]
      <4> HIDE DEF old
      <4> QED
        BY <2>1, <2>6, <2>7
    <3>2. p + o = q + (o + x)
      BY <2>7, <3>1
    <3>3. p = q + x
      BY <3>2
    <3> QED
      BY <3>1, <3>3
  <2>8. Total(L(i), m) = s[i]
    BY <1>1, <2>4, <2>9
  <2> QED
    BY <2>1, <2>8 DEF L
<1>7. \A i \in 0 .. n : i \in G
  <2> HIDE DEF G
  <2> QED
    BY <1>5, <1>6, Upwards
<1>8. n \in G
  BY <1>7
<1> QED
  BY <1>3, <1>8 DEF Total, s, Whole

-----------------------------------------------------------------------------
(* The chunks in the order in which they are given out, and who gets them.  *)

\* order has every chunk once, none heavier than the one before it.
HeaviestFirst(order, w, c) ==
  /\ order \in [1 .. c -> 0 .. c - 1]
  /\ \A r, s \in 1 .. c : order[r] = order[s] => r = s
  /\ \A k \in 0 .. c - 1 : \E r \in 1 .. c : order[r] = k
  /\ \A r, s \in 1 .. c : r < s => w[order[s]] <= w[order[r]]

\* Chunk order[r] goes to pick[r], which has the least of all before, and adds to what it has.
Greedy(order, pick, load, w, c, T) ==
  /\ pick \in [1 .. c -> 0 .. T - 1]
  /\ load \in [0 .. c -> [0 .. T - 1 -> Nat]]
  /\ \A t \in 0 .. T - 1 : load[0][t] = 0
  /\ \A r \in 1 .. c : \A u \in 0 .. T - 1 : load[r - 1][pick[r]] <= load[r - 1][u]
  /\ \A r \in 1 .. c : load[r][pick[r]] = load[r - 1][pick[r]] + w[order[r]]
  /\ \A r \in 1 .. c : \A u \in 0 .. T - 1 : u # pick[r] => load[r][u] = load[r - 1][u]

\* thread has the chunks where the order gave them, unless they have no weight.
Gives(thread, order, pick, w, c, T) ==
  /\ thread \in [0 .. c - 1 -> 0 .. T - 1]
  /\ \A r \in 1 .. c : w[order[r]] # 0 => thread[order[r]] = pick[r]

LEMMA MapIsHeaviestFirst ==
  ASSUME NEW c \in Nat \ {0}, NEW w \in [0 .. c - 1 -> Nat]
  PROVE  HeaviestFirst([r \in 1 .. c |-> SortMap(w, c)[c - r]], w, c)
<1> DEFINE map == SortMap(w, c)
           order == [r \in 1 .. c |-> map[c - r]]
<1>1. Permutes(map, c) /\ \A p, q \in 0 .. c - 1 : p < q => w[map[p]] <= w[map[q]]
  BY SortMapSorts
<1> HIDE DEF map
<1>2. \A r \in 1 .. c : c - r \in 0 .. c - 1 /\ order[r] = map[c - r]
  OBVIOUS
<1>3. order \in [1 .. c -> 0 .. c - 1]
  <2>1. map \in [0 .. c - 1 -> 0 .. c - 1]
    BY <1>1 DEF Permutes
  <2> QED
    BY <1>2, <2>1
<1> HIDE DEF order
<1>4. ASSUME NEW r \in 1 .. c, NEW s \in 1 .. c, order[r] = order[s] PROVE r = s
  <2>1. c - r = c - s
    BY <1>1, <1>2, <1>4 DEF Permutes
  <2> QED
    BY <2>1
<1>5. ASSUME NEW k \in 0 .. c - 1 PROVE \E r \in 1 .. c : order[r] = k
  <2>1. PICK p \in 0 .. c - 1 : map[p] = k
    BY <1>1 DEF Permutes
  <2>2. c - p \in 1 .. c /\ c - (c - p) = p
    OBVIOUS
  <2>3. order[c - p] = k
    BY <1>2, <2>1, <2>2
  <2> QED
    BY <2>2, <2>3
<1>6. ASSUME NEW r \in 1 .. c, NEW s \in 1 .. c, r < s PROVE w[order[s]] <= w[order[r]]
  <2>1. c - s < c - r
    BY <1>6
  <2> QED
    BY <1>1, <1>2, <2>1
<1> QED
  BY <1>3, <1>4, <1>5, <1>6 DEF HeaviestFirst, order, map

\* compute_thread_assignment is greedy, the heaviest chunk first.
LEMMA DealtGreedily ==
  ASSUME NEW c \in Nat \ {0}, NEW w \in [0 .. c - 1 -> Nat], NEW T \in Nat \ {0}
  PROVE  \E order, pick, load :
           /\ HeaviestFirst(order, w, c)
           /\ Greedy(order, pick, load, w, c, T)
           /\ Gives(Dealt(w, c, T).thread, order, pick, w, c, T)
<1>1. PICK deal : Deals(deal, w, c, T)
  BY DealSteps
<1> DEFINE map == SortMap(w, c)
           order == [r \in 1 .. c |-> map[c - r]]
           pick == [r \in 1 .. c |-> LeastLoaded(deal[r - 1].load, T)]
           load == [r \in 0 .. c |-> deal[r].load]
<1>2. HeaviestFirst(order, w, c)
  BY MapIsHeaviestFirst
<1> HIDE DEF map
<1>3. ASSUME NEW r \in 0 .. c
      PROVE  /\ deal[r] \in Dealings(c, T) /\ load[r] = deal[r].load
             /\ deal[r].load \in [0 .. T - 1 -> Nat]
             /\ deal[r].thread \in [0 .. c - 1 -> 0 .. T - 1]
  BY <1>1 DEF Deals, Dealings
<1>4. \A r \in 1 .. c : order[r] = map[c - r] /\ pick[r] = LeastLoaded(deal[r - 1].load, T)
  OBVIOUS
<1>5. load \in [0 .. c -> [0 .. T - 1 -> Nat]]
  BY <1>3
<1> HIDE DEF order, pick, load
<1>6. ASSUME NEW r \in 1 .. c
      PROVE  /\ pick[r] \in 0 .. T - 1
             /\ \A u \in 0 .. T - 1 : load[r - 1][pick[r]] <= load[r - 1][u]
  <2>1. r - 1 \in 0 .. c
    OBVIOUS
  <2>2. deal[r - 1].load \in [0 .. T - 1 -> Nat] /\ load[r - 1] = deal[r - 1].load
    BY <1>3, <2>1
  <2> QED
    BY <1>4, <2>2, LeastLoadedIsLeast
<1>7. ASSUME NEW r \in 1 .. c
      PROVE  /\ load[r][pick[r]] = load[r - 1][pick[r]] + w[order[r]]
             /\ \A u \in 0 .. T - 1 : u # pick[r] => load[r][u] = load[r - 1][u]
             /\ w[order[r]] # 0 => deal[r].thread[order[r]] = pick[r]
             /\ \A k \in 0 .. c - 1 : k # order[r] => deal[r].thread[k] = deal[r - 1].thread[k]
  <2>1. r - 1 \in 0 .. c /\ r \in 0 .. c
    OBVIOUS
  <2> DEFINE k == order[r]
             t == pick[r]
  <2>2. k \in 0 .. c - 1 /\ t \in 0 .. T - 1
    BY <1>2, <1>6 DEF HeaviestFirst
  <2>3. w[k] \in Nat
    BY <2>2
  <2>4. deal[r] = Given(deal[r - 1], w, k, T)
    BY <1>1, <1>4 DEF Deals, map
  <2>5. t = LeastLoaded(deal[r - 1].load, T)
    BY <1>4
  <2>6. /\ load[r] = deal[r].load /\ load[r - 1] = deal[r - 1].load
        /\ deal[r - 1].load \in [0 .. T - 1 -> Nat]
        /\ deal[r - 1].thread \in [0 .. c - 1 -> 0 .. T - 1]
    BY <1>3, <2>1
  <2> HIDE DEF k, t
  <2>7. CASE w[k] = 0
    <3>1. deal[r] = deal[r - 1]
      BY <2>4, <2>7 DEF Given
    <3>2. load[r - 1][t] = load[r - 1][t] + w[k]
      <4>1. load[r - 1][t] \in Nat
        BY <2>2, <2>6
      <4> QED
        BY <2>7, <4>1
    <3> QED
      BY <2>6, <2>7, <3>1, <3>2 DEF k, t
  <2>8. CASE w[k] # 0
    <3>1. /\ deal[r].thread = [deal[r - 1].thread EXCEPT ![k] = t]
          /\ deal[r].load = [deal[r - 1].load EXCEPT ![t] = @ + w[k]]
      BY <2>4, <2>5, <2>8 DEF Given
    <3>2. /\ deal[r].load[t] = deal[r - 1].load[t] + w[k]
          /\ \A u \in 0 .. T - 1 : u # t => deal[r].load[u] = deal[r - 1].load[u]
          /\ deal[r].thread[k] = t
          /\ \A j \in 0 .. c - 1 : j # k => deal[r].thread[j] = deal[r - 1].thread[j]
      BY <2>2, <2>6, <3>1
    <3> QED
      BY <2>6, <3>2 DEF k, t
  <2> QED
    BY <2>7, <2>8
<1>8. Greedy(order, pick, load, w, c, T)
  <2>1. pick \in [1 .. c -> 0 .. T - 1]
    BY <1>6 DEF pick
  <2>2. 0 \in 0 .. c
    OBVIOUS
  <2>3. \A t \in 0 .. T - 1 : load[0][t] = 0
    BY <1>1, <1>3, <2>2 DEF Deals
  <2> QED
    BY <1>5, <1>6, <1>7, <2>1, <2>3 DEF Greedy
<1>9. Gives(Dealt(w, c, T).thread, order, pick, w, c, T)
  <2> DEFINE Has(m) == \A r \in 1 .. m : w[order[r]] # 0 => deal[m].thread[order[r]] = pick[r]
             G == {m \in 0 .. c : Has(m)}
  <2>1. 0 \in G
    OBVIOUS
  <2>2. ASSUME NEW m \in 1 .. c, m - 1 \in G PROVE m \in G
    <3>1. m \in 0 .. c /\ Has(m - 1)
      BY <2>2
    <3>2. ASSUME NEW r \in 1 .. m, w[order[r]] # 0 PROVE deal[m].thread[order[r]] = pick[r]
      <4>1. CASE r = m
        BY <1>7, <3>2, <4>1
      <4>2. CASE r # m
        <5>1. r \in 1 .. m - 1 /\ r \in 1 .. c
          BY <4>2
        <5>2. order[r] # order[m] /\ order[r] \in 0 .. c - 1
          BY <1>2, <4>2, <5>1 DEF HeaviestFirst
        <5>3. deal[m].thread[order[r]] = deal[m - 1].thread[order[r]]
          BY <1>7, <5>2
        <5> QED
          BY <3>1, <3>2, <5>1, <5>3
      <4> QED
        BY <4>1, <4>2
    <3> QED
      BY <3>1, <3>2
  <2>3. \A m \in 0 .. c : m \in G
    <3> HIDE DEF G
    <3> QED
      BY <2>1, <2>2, Upwards
  <2>4. c \in 0 .. c
    OBVIOUS
  <2>5. Has(c) /\ deal[c].thread \in [0 .. c - 1 -> 0 .. T - 1] /\ Dealt(w, c, T) = deal[c]
    BY <1>1, <1>3, <2>3, <2>4 DEF Deals
  <2> QED
    BY <2>5 DEF Gives
<1> QED
  BY <1>2, <1>8, <1>9

\* What the first r chunks of the order have of f.
TakenUpTo(f, order, r, c) ==
  [k \in 0 .. c - 1 |-> IF \E q \in 1 .. r : order[q] = k THEN f[k] ELSE 0]

\* The next chunk of the order adds what it has, where g counts it.
PartGrows(f, order, r, c, g, t) ==
  Total(Of(TakenUpTo(f, order, r, c), g, t, c), c) =
    Total(Of(TakenUpTo(f, order, r - 1, c), g, t, c), c)
      + (IF g[order[r]] = t THEN f[order[r]] ELSE 0)

LEMMA TakenSteps ==
  ASSUME NEW c \in Nat, NEW w, NEW order, HeaviestFirst(order, w, c),
         NEW f \in [0 .. c - 1 -> Nat], NEW r \in 1 .. c, NEW g, NEW t
  PROVE  PartGrows(f, order, r, c, g, t)
<1> DEFINE new == Of(TakenUpTo(f, order, r, c), g, t, c)
           old == Of(TakenUpTo(f, order, r - 1, c), g, t, c)
           k == order[r]
           more == IF g[k] = t THEN f[k] ELSE 0
<1>1. k \in 0 .. c - 1 /\ f[k] \in Nat
  BY DEF HeaviestFirst
<1>2. (\E q \in 1 .. r : order[q] = k) /\ ~(\E q \in 1 .. r - 1 : order[q] = k)
  <2>1. r \in 1 .. r /\ \A q \in 1 .. r - 1 : q \in 1 .. c /\ q # r
    OBVIOUS
  <2>2. \A q \in 1 .. r - 1 : order[q] # order[r]
    BY <2>1 DEF HeaviestFirst
  <2> QED
    BY <2>1, <2>2
<1>3. ASSUME NEW i \in 0 .. c - 1, i # k
      PROVE  (\E q \in 1 .. r : order[q] = i) <=> (\E q \in 1 .. r - 1 : order[q] = i)
  <2>1. \A q \in 1 .. r : q = r \/ q \in 1 .. r - 1
    OBVIOUS
  <2>2. \A q \in 1 .. r - 1 : q \in 1 .. r
    OBVIOUS
  <2> QED
    BY <1>3, <2>1, <2>2
<1>4. /\ new \in [0 .. c - 1 -> Nat] /\ old \in [0 .. c - 1 -> Nat]
      /\ new[k] = more /\ old[k] = 0 /\ more \in Nat
      /\ \A i \in 0 .. c - 1 : i # k => new[i] = old[i]
  <2>1. /\ new \in [0 .. c - 1 -> Nat] /\ old \in [0 .. c - 1 -> Nat]
    BY DEF Of, TakenUpTo
  <2>2. \A i \in 0 .. c - 1 :
          /\ new[i] = IF g[i] = t THEN IF \E q \in 1 .. r : order[q] = i THEN f[i] ELSE 0 ELSE 0
          /\ old[i] = IF g[i] = t THEN IF \E q \in 1 .. r - 1 : order[q] = i THEN f[i] ELSE 0 ELSE 0
    BY DEF Of, TakenUpTo
  <2> HIDE DEF new, old, k
  <2>3. new[k] = more /\ old[k] = 0 /\ more \in Nat
    BY <1>1, <1>2, <2>2
  <2>4. \A i \in 0 .. c - 1 : i # k => new[i] = old[i]
    BY <1>3, <2>2
  <2> QED
    BY <2>1, <2>3, <2>4
<1> HIDE DEF new, old, k, more
<1>5. Total(new, c) + old[k] = Total(old, c) + new[k]
  <2>1. new \in [0 .. c - 1 -> Nat] /\ old \in [0 .. c - 1 -> Nat]
    BY <1>4
  <2>2. \A i \in 0 .. c - 1 : i # k => new[i] = old[i]
    BY <1>4
  <2>3. k \in 0 .. c - 1
    BY <1>1
  <2> QED
    BY <2>1, <2>2, <2>3, TotalChanges
<1>6. Total(new, c) \in Nat /\ Total(old, c) \in Nat
  BY <1>4, TotalIsNat
<1>7. Total(new, c) = Total(old, c) + more
  <2>1. PICK x \in Nat, y \in Nat, z \in Nat : x = Total(new, c) /\ y = Total(old, c) /\ z = more
    BY <1>4, <1>6
  <2>2. x + 0 = y + z
    BY <1>4, <1>5, <2>1
  <2>3. x = y + z
    BY <2>2
  <2> QED
    BY <2>1, <2>3
<1> QED
  BY <1>7 DEF new, old, k, more, PartGrows

LEMMA TakenNone ==
  ASSUME NEW c \in Nat, NEW order, NEW f \in [0 .. c - 1 -> Nat], NEW g, NEW t
  PROVE  Total(Of(TakenUpTo(f, order, 0, c), g, t, c), c) = 0
<1> DEFINE a == Of(TakenUpTo(f, order, 0, c), g, t, c)
<1>1. a \in [0 .. c - 1 -> Nat] /\ \A i \in 0 .. c - 1 : a[i] <= 0
  BY DEF Of, TakenUpTo
<1> HIDE DEF a
<1>2. Total(a, c) <= c * 0 /\ Total(a, c) \in Nat
  BY <1>1, TotalAtMost, TotalIsNat
<1> QED
  BY <1>2 DEF a

\* All the chunks are taken in the end.
LEMMA TakenAll ==
  ASSUME NEW c \in Nat, NEW w, NEW order, HeaviestFirst(order, w, c),
         NEW f \in [0 .. c - 1 -> Nat]
  PROVE  TakenUpTo(f, order, c, c) = f
BY DEF TakenUpTo, HeaviestFirst

\* The loads that compute_thread_assignment compares are what the threads get.
LoadsFit(load, thread, w, c, T) ==
  \A t \in 0 .. T - 1 : load[c][t] = Total(Of(w, thread, t, c), c)

LEMMA LoadsAreParts ==
  ASSUME NEW c \in Nat \ {0}, NEW w \in [0 .. c - 1 -> Nat], NEW T \in Nat \ {0},
         NEW order, NEW pick, NEW load, NEW thread,
         HeaviestFirst(order, w, c), Greedy(order, pick, load, w, c, T),
         Gives(thread, order, pick, w, c, T)
  PROVE  LoadsFit(load, thread, w, c, T)
<1> SUFFICES ASSUME NEW t \in 0 .. T - 1
             PROVE  load[c][t] = Total(Of(w, thread, t, c), c)
  BY DEF LoadsFit
<1> DEFINE part(r) == Total(Of(TakenUpTo(w, order, r, c), thread, t, c), c)
           G == {r \in 0 .. c : load[r][t] = part(r)}
<1>1. 0 \in G
  <2>1. part(0) = 0
    BY TakenNone
  <2>2. load[0][t] = 0
    BY DEF Greedy
  <2> QED
    BY <2>1, <2>2
<1>2. ASSUME NEW r \in 1 .. c, r - 1 \in G PROVE r \in G
  <2> DEFINE k == order[r]
  <2>1. k \in 0 .. c - 1 /\ w[k] \in Nat
    BY DEF HeaviestFirst
  <2>2. part(r) = part(r - 1) + (IF thread[k] = t THEN w[k] ELSE 0)
    <3>1. PartGrows(w, order, r, c, thread, t)
      BY TakenSteps
    <3> QED
      BY <3>1 DEF PartGrows
  <2>3. load[r - 1][t] = part(r - 1) /\ r \in 0 .. c /\ r - 1 \in 0 .. c
    BY <1>2
  <2>4. load[r - 1][t] \in Nat
    <3>1. load \in [0 .. c -> [0 .. T - 1 -> Nat]]
      BY DEF Greedy
    <3> QED
      BY <2>3, <3>1
  <2>5. load[r][t] = load[r - 1][t] + (IF t = pick[r] THEN w[k] ELSE 0)
    <3>1. CASE t = pick[r]
      BY <3>1 DEF Greedy
    <3>2. CASE t # pick[r]
      <4>1. load[r][t] = load[r - 1][t]
        BY <3>2 DEF Greedy
      <4> HIDE DEF k
      <4> QED
        BY <2>4, <3>2, <4>1
    <3> QED
      BY <3>1, <3>2
  <2>6. (IF t = pick[r] THEN w[k] ELSE 0) = (IF thread[k] = t THEN w[k] ELSE 0)
    BY DEF Gives
  <2> HIDE DEF part, k
  <2>7. load[r][t] = part(r)
    BY <2>2, <2>3, <2>5, <2>6
  <2> QED
    BY <2>3, <2>7
<1>3. c \in G
  <2>1. \A r \in 0 .. c : r \in G
    <3> HIDE DEF G
    <3> QED
      BY <1>1, <1>2, Upwards
  <2> QED
    BY <2>1
<1>4. TakenUpTo(w, order, c, c) = w
  BY TakenAll
<1> QED
  BY <1>3, <1>4

-----------------------------------------------------------------------------
(* A thread's iterations weigh what its chunks weigh.                       *)

LEMMA CutsGrow ==
  ASSUME NEW n \in Nat, NEW a, NEW c \in Nat \ {0}, NEW p \in 0 .. c, NEW q \in p .. c
  PROVE  Cuts(a, n, c)[p] <= Cuts(a, n, c)[q]
<1> DEFINE cut == Cuts(a, n, c)
           Behind(k) == p <= k => cut[p] <= cut[k]
           G == {k \in 0 .. c : Behind(k)}
<1>1. /\ \A k \in 0 .. c : cut[k] \in 0 .. n
      /\ \A k \in 1 .. c : cut[k - 1] <= cut[k]
  BY CutsAreInOrder
<1> HIDE DEF cut
<1>2. 0 \in G
  <2>1. p <= 0 => p = 0
    OBVIOUS
  <2>2. cut[0] <= cut[0]
    BY <1>1
  <2> QED
    BY <2>1, <2>2
<1>3. ASSUME NEW k \in 1 .. c, k - 1 \in G PROVE k \in G
  <2>1. k \in 0 .. c /\ k - 1 \in 0 .. c /\ Behind(k - 1)
    BY <1>3
  <2>2. PICK x \in Nat, y \in Nat, z \in Nat : x = cut[p] /\ y = cut[k - 1] /\ z = cut[k]
    BY <1>1, <2>1
  <2>3. y <= z
    BY <1>1, <2>2
  <2>4. CASE p = k
    <3>1. cut[p] <= cut[k]
      BY <1>1, <2>1, <2>4
    <3> QED
      BY <2>1, <3>1
  <2>5. CASE p # k
    <3>1. p <= k => x <= y
      BY <2>1, <2>2, <2>5
    <3>2. p <= k => x <= z
      BY <2>3, <3>1
    <3> QED
      BY <2>1, <2>2, <3>2
  <2> QED
    BY <2>4, <2>5
<1>4. \A k \in 0 .. c : k \in G
  <2> HIDE DEF G
  <2> QED
    BY <1>2, <1>3, Upwards
<1> QED
  BY <1>4 DEF cut

\* TaskMap gives an iteration to the thread that has its chunk.
LEMMA MapFollowsChunks ==
  ASSUME NEW n \in Nat, NEW a \in [0 .. n - 1 -> Nat], NEW T \in Nat \ {0},
         NEW k \in 1 .. 2 * T, NEW i \in 0 .. n - 1,
         Cuts(a, n, 2 * T)[k - 1] <= i, i < Cuts(a, n, 2 * T)[k]
  PROVE  TaskMap(a, n, T)[i] = Dealt(Chunks(a, n, 2 * T), 2 * T, T).thread[k - 1]
<1> DEFINE c == 2 * T
           cut == Cuts(a, n, c)
           thread == Dealt(Chunks(a, n, c), c, T).thread
           Chunk(x) == CHOOSE q \in 0 .. c - 1 : cut[q] <= x /\ x < cut[q + 1]
           q == Chunk(i)
<1>1. c \in Nat \ {0} /\ k \in 1 .. c
  OBVIOUS
<1>2. TaskMap(a, n, T) = [x \in 0 .. n - 1 |-> thread[Chunk(x)]]
  BY DEF TaskMap
<1>c. cut[k - 1] <= i /\ i < cut[k]
  OBVIOUS
<1> HIDE DEF c
<1>3. q \in 0 .. c - 1 /\ cut[q] <= i /\ i < cut[q + 1]
  <2>1. \E x \in 0 .. c - 1 : cut[x] <= i /\ i < cut[x + 1]
    BY <1>1, ChunksCover
  <2> QED
    BY <2>1
<1>4. \A x \in 0 .. c : cut[x] \in 0 .. n
  BY <1>1, CutsAreInOrder
<1>5. \A x \in 0 .. c : \A y \in x .. c : cut[x] <= cut[y]
  BY <1>1, CutsGrow
<1>6. TaskMap(a, n, T)[i] = thread[q]
  BY <1>2
<1> HIDE DEF cut, thread, q
<1>7. PICK x \in Nat, y \in Nat, x1 \in Nat, y1 \in Nat :
        x = cut[k - 1] /\ y = cut[k] /\ x1 = cut[q] /\ y1 = cut[q + 1]
  <2>1. k - 1 \in 0 .. c /\ k \in 0 .. c /\ q \in 0 .. c /\ q + 1 \in 0 .. c
    BY <1>1, <1>3
  <2>2. cut[k - 1] \in Nat /\ cut[k] \in Nat /\ cut[q] \in Nat /\ cut[q + 1] \in Nat
    BY <1>4, <2>1
  <2> QED
    BY <2>2
<1>8. ~(q < k - 1)
  <2> SUFFICES ASSUME q < k - 1 PROVE FALSE
    OBVIOUS
  <2>1. q + 1 \in 0 .. c /\ k - 1 \in q + 1 .. c
    BY <1>1, <1>3
  <2>2. y1 <= x
    BY <1>5, <1>7, <2>1
  <2>3. i \in Nat /\ x <= i /\ i < y1
    BY <1>3, <1>c, <1>7
  <2> QED
    BY <2>2, <2>3
<1>9. ~(k - 1 < q)
  <2> SUFFICES ASSUME k - 1 < q PROVE FALSE
    OBVIOUS
  <2>1. k \in 0 .. c /\ q \in k .. c
    BY <1>1, <1>3
  <2>2. y <= x1
    BY <1>5, <1>7, <2>1
  <2>3. i \in Nat /\ x1 <= i /\ i < y
    BY <1>3, <1>c, <1>7
  <2> QED
    BY <2>2, <2>3
<1>10. q = k - 1
  BY <1>1, <1>3, <1>8, <1>9
<1> QED
  BY <1>6, <1>10 DEF thread, c

LEMMA PartsOfChunks ==
  ASSUME NEW n \in Nat, NEW a \in [0 .. n - 1 -> Nat], NEW T \in Nat \ {0}, NEW t
  PROVE  Total(Of(a, TaskMap(a, n, T), t, n), n) =
           Total(Of(Chunks(a, n, 2 * T), Dealt(Chunks(a, n, 2 * T), 2 * T, T).thread, t, 2 * T),
                 2 * T)
<1> DEFINE c == 2 * T
           cut == Cuts(a, n, c)
           sum == Sum(a, n)
           map == TaskMap(a, n, T)
           thread == Dealt(Chunks(a, n, c), c, T).thread
           mine == Of(a, map, t, n)
           ours == Of(Chunks(a, n, c), thread, t, c)
           s == Sum(mine, n)
           r == Sum(ours, c)
           G == {k \in 0 .. c : s[cut[k]] = r[k]}
<1>1. c \in Nat \ {0}
  OBVIOUS
<1>2. \A k \in 1 .. c : \A i \in 0 .. n - 1 :
        cut[k - 1] <= i /\ i < cut[k] => map[i] = thread[k - 1]
  <2> SUFFICES ASSUME NEW k \in 1 .. c, NEW i \in 0 .. n - 1, cut[k - 1] <= i, i < cut[k]
               PROVE  map[i] = thread[k - 1]
    BY Zenon
  <2> QED
    BY MapFollowsChunks
<1> HIDE DEF c
<1>3. /\ cut[0] = 0 /\ cut[c] = n /\ \A k \in 0 .. c : cut[k] \in 0 .. n
      /\ \A k \in 1 .. c : cut[k - 1] <= cut[k]
  BY <1>1, CutsAreInOrder
<1>4. /\ sum[0] = 0 /\ \A i \in 0 .. n : sum[i] \in Nat
      /\ \A i \in 1 .. n : sum[i] = sum[i - 1] + a[i - 1]
  BY SumSteps
<1>5. /\ mine \in [0 .. n - 1 -> Nat]
      /\ \A i \in 0 .. n - 1 : mine[i] = IF map[i] = t THEN a[i] ELSE 0
  BY DEF Of
<1>6. Chunks(a, n, c) \in [0 .. c - 1 -> Nat]
  BY <1>1, ChunkWeights
<1>7. \A k \in 0 .. c - 1 : Chunks(a, n, c)[k] = sum[cut[k + 1]] - sum[cut[k]]
  BY DEF Chunks
<1>8. /\ ours \in [0 .. c - 1 -> Nat]
      /\ \A k \in 0 .. c - 1 : ours[k] = IF thread[k] = t THEN Chunks(a, n, c)[k] ELSE 0
  BY <1>6 DEF Of
<1>s. SUFFICES s[n] = r[c]
  BY DEF Total, c
<1> HIDE DEF cut, sum, map, thread, mine, ours
<1>9. /\ s[0] = 0 /\ \A i \in 0 .. n : s[i] \in Nat
      /\ \A i \in 1 .. n : s[i] = s[i - 1] + mine[i - 1]
  BY <1>5, SumSteps
<1>10. /\ r[0] = 0 /\ \A k \in 0 .. c : r[k] \in Nat
       /\ \A k \in 1 .. c : r[k] = r[k - 1] + ours[k - 1]
  BY <1>1, <1>8, SumSteps
<1> HIDE DEF s, r
<1>11. 0 \in G
  BY <1>1, <1>3, <1>9, <1>10
<1>12. ASSUME NEW k \in 1 .. c, k - 1 \in G PROVE k \in G
  <2> DEFINE lo == cut[k - 1]
             hi == cut[k]
             Has(j) == s[j] = s[lo] + (IF thread[k - 1] = t THEN sum[j] - sum[lo] ELSE 0)
             H == {j \in 0 .. n : lo <= j /\ j <= hi => Has(j)}
  <2>1. k \in 0 .. c /\ k - 1 \in 0 .. c /\ k - 1 \in 0 .. c - 1 /\ (k - 1) + 1 = k
    BY <1>1
  <2>2. lo \in 0 .. n /\ hi \in 0 .. n /\ lo <= hi
    BY <1>3, <2>1
  <2>3. s[lo] = r[k - 1]
    BY <1>12
  <2>4. \A i \in 0 .. n - 1 : lo <= i /\ i < hi => map[i] = thread[k - 1]
    BY <1>2
  <2> HIDE DEF lo, hi
  <2>5. s[lo] \in Nat /\ sum[lo] \in Nat
    BY <1>4, <1>9, <2>2
  <2>6. Has(lo)
    BY <2>5
  <2>7. 0 \in H
    <3>1. lo <= 0 => lo = 0
      BY <2>2
    <3>2. lo = 0 => Has(0)
      BY <2>6
    <3> HIDE DEF Has
    <3> QED
      BY <3>1, <3>2
  <2>8. ASSUME NEW j \in 1 .. n, j - 1 \in H PROVE j \in H
    <3>1. j \in 0 .. n /\ j - 1 \in 0 .. n /\ j - 1 \in 0 .. n - 1
      OBVIOUS
    <3>2. CASE ~(lo <= j /\ j <= hi)
      BY <3>1, <3>2
    <3>3. CASE j = lo
      <4>1. Has(j)
        BY <2>6, <3>3
      <4> HIDE DEF Has
      <4> QED
        BY <3>1, <4>1
    <3>4. CASE lo <= j /\ j <= hi /\ j # lo
      <4>1. lo <= j - 1 /\ j - 1 < hi /\ j - 1 <= hi
        BY <2>2, <3>4
      <4>2. Has(j - 1)
        BY <2>8, <4>1
      <4>3. map[j - 1] = thread[k - 1]
        BY <2>4, <3>1, <4>1
      <4>4. s[j] = s[j - 1] + mine[j - 1] /\ sum[j] = sum[j - 1] + a[j - 1]
        BY <1>4, <1>9
      <4>5. mine[j - 1] = IF thread[k - 1] = t THEN a[j - 1] ELSE 0
        BY <1>5, <3>1, <4>3
      <4>6. PICK x \in Nat, y \in Nat, z \in Nat, u \in Nat, v \in Nat :
              x = s[j - 1] /\ y = s[lo] /\ z = sum[j - 1] /\ u = sum[lo] /\ v = a[j - 1]
        BY <1>4, <1>9, <2>5, <3>1
      <4>7. Has(j)
        <5>1. CASE thread[k - 1] = t
          <6>1. x = y + (z - u)
            BY <4>2, <4>6, <5>1
          <6>2. x + v = y + ((z + v) - u)
            BY <6>1
          <6> QED
            BY <4>4, <4>5, <4>6, <5>1, <6>2
        <5>2. CASE thread[k - 1] # t
          <6>1. x = y + 0
            BY <4>2, <4>6, <5>2
          <6>2. x + 0 = y + 0
            BY <6>1
          <6> QED
            BY <4>4, <4>5, <4>6, <5>2, <6>2
        <5> QED
          BY <5>1, <5>2
      <4> HIDE DEF Has
      <4> QED
        BY <3>1, <4>7
    <3> QED
      BY <3>2, <3>3, <3>4
  <2>9. \A j \in 0 .. n : j \in H
    <3> HIDE DEF H
    <3> QED
      BY <2>7, <2>8, Upwards
  <2>10. Has(hi)
    <3>1. hi <= hi
      BY <2>2
    <3> HIDE DEF Has
    <3> QED
      BY <2>2, <2>9, <3>1
  <2>11. ours[k - 1] = IF thread[k - 1] = t THEN sum[hi] - sum[lo] ELSE 0
    BY <1>7, <1>8, <2>1 DEF lo, hi
  <2>12. s[hi] = r[k]
    BY <1>10, <2>3, <2>10, <2>11
  <2> QED
    BY <2>1, <2>12 DEF hi
<1>13. c \in G
  <2>1. \A k \in 0 .. c : k \in G
    <3> HIDE DEF G
    <3> QED
      BY <1>1, <1>11, <1>12, Upwards
  <2> QED
    BY <1>1, <2>1
<1> QED
  BY <1>3, <1>13

-----------------------------------------------------------------------------
(* How many threads are heavier than x.                                     *)

Heavier(load, T, x) == Total([u \in 0 .. T - 1 |-> IF load[u] <= x THEN 0 ELSE 1], T)

LEMMA NoneHeavier ==
  ASSUME NEW T \in Nat, NEW x \in Nat, NEW load, \A u \in 0 .. T - 1 : load[u] = 0
  PROVE  Heavier(load, T, x) = 0
<1> DEFINE h == [u \in 0 .. T - 1 |-> IF load[u] <= x THEN 0 ELSE 1]
<1>1. h \in [0 .. T - 1 -> Nat] /\ \A u \in 0 .. T - 1 : h[u] <= 0
  OBVIOUS
<1> HIDE DEF h
<1>2. Total(h, T) <= T * 0 /\ Total(h, T) \in Nat
  BY <1>1, TotalAtMost, TotalIsNat
<1> QED
  BY <1>2 DEF Heavier, h

\* When not all of them are, one is not.
LEMMA OneIsLighter ==
  ASSUME NEW T \in Nat \ {0}, NEW x \in Nat, NEW load, Heavier(load, T, x) < T
  PROVE  \E u \in 0 .. T - 1 : load[u] <= x
<1> SUFFICES ASSUME ~\E u \in 0 .. T - 1 : load[u] <= x PROVE FALSE
  OBVIOUS
<1> DEFINE h == [u \in 0 .. T - 1 |-> IF load[u] <= x THEN 0 ELSE 1]
<1>1. h \in [0 .. T - 1 -> Nat] /\ \A u \in 0 .. T - 1 : 1 <= h[u]
  OBVIOUS
<1>2. Total(h, T) < T
  BY DEF Heavier
<1> HIDE DEF h
<1>3. T * 1 <= Total(h, T) /\ Total(h, T) \in Nat
  BY <1>1, TotalAtLeast, TotalIsNat
<1> QED
  BY <1>2, <1>3

\* One thread more has one more at most, and none more when it stays light.
LEMMA HeavierSteps ==
  ASSUME NEW T \in Nat, NEW x \in Nat, NEW old \in [0 .. T - 1 -> Nat],
         NEW new \in [0 .. T - 1 -> Nat], NEW t \in 0 .. T - 1, old[t] <= new[t],
         \A u \in 0 .. T - 1 : u # t => new[u] = old[u]
  PROVE  /\ Heavier(old, T, x) \in Nat /\ Heavier(new, T, x) \in Nat
         /\ Heavier(new, T, x) <= Heavier(old, T, x) + 1
         /\ new[t] <= x => Heavier(new, T, x) = Heavier(old, T, x)
<1> DEFINE g == [u \in 0 .. T - 1 |-> IF old[u] <= x THEN 0 ELSE 1]
           h == [u \in 0 .. T - 1 |-> IF new[u] <= x THEN 0 ELSE 1]
<1>1. /\ g \in [0 .. T - 1 -> Nat] /\ h \in [0 .. T - 1 -> Nat]
      /\ g[t] \in {0, 1} /\ h[t] \in {0, 1}
  OBVIOUS
<1>2. \A u \in 0 .. T - 1 : u # t => h[u] = g[u]
  OBVIOUS
<1>3. new[t] <= x => g[t] = 0 /\ h[t] = 0
  OBVIOUS
<1>4. Heavier(old, T, x) = Total(g, T) /\ Heavier(new, T, x) = Total(h, T)
  BY DEF Heavier
<1> HIDE DEF g, h
<1>5. Total(h, T) + g[t] = Total(g, T) + h[t]
  BY <1>1, <1>2, TotalChanges
<1>6. PICK p \in Nat, q \in Nat : p = Total(g, T) /\ q = Total(h, T)
  BY <1>1, TotalIsNat
<1>7. q <= p + 1 /\ (new[t] <= x => q = p)
  <2>1. PICK y \in {0, 1}, z \in {0, 1} : y = g[t] /\ z = h[t]
    BY <1>1
  <2>2. q + y = p + z
    BY <1>5, <1>6, <2>1
  <2>3. q <= p + 1
    BY <2>2
  <2>4. new[t] <= x => q + 0 = p + 0
    BY <1>3, <2>1, <2>2
  <2> QED
    BY <2>3, <2>4
<1> QED
  BY <1>4, <1>6, <1>7

\* The greedy assignment changes the load of one thread at a time, and never takes from it.
GreedyStep(order, pick, load, w, c, T, r) ==
  /\ order[r] \in 0 .. c - 1 /\ w[order[r]] \in Nat
  /\ pick[r] \in 0 .. T - 1
  /\ load[r - 1] \in [0 .. T - 1 -> Nat] /\ load[r] \in [0 .. T - 1 -> Nat]
  /\ load[r - 1][pick[r]] <= load[r][pick[r]]
  /\ load[r][pick[r]] = load[r - 1][pick[r]] + w[order[r]]
  /\ \A u \in 0 .. T - 1 : u # pick[r] => load[r][u] = load[r - 1][u]
  /\ \A u \in 0 .. T - 1 : load[r - 1][pick[r]] <= load[r - 1][u]

LEMMA GreedySteps ==
  ASSUME NEW c \in Nat \ {0}, NEW w \in [0 .. c - 1 -> Nat], NEW T \in Nat \ {0},
         NEW order, NEW pick, NEW load,
         HeaviestFirst(order, w, c), Greedy(order, pick, load, w, c, T), NEW r \in 1 .. c
  PROVE  GreedyStep(order, pick, load, w, c, T, r)
<1>1. order[r] \in 0 .. c - 1
  BY DEF HeaviestFirst
<1>2. w[order[r]] \in Nat
  BY <1>1
<1>3. pick[r] \in 0 .. T - 1
  BY DEF Greedy
<1>4. load[r - 1] \in [0 .. T - 1 -> Nat] /\ load[r] \in [0 .. T - 1 -> Nat]
  <2>1. r - 1 \in 0 .. c /\ r \in 0 .. c
    OBVIOUS
  <2>2. load \in [0 .. c -> [0 .. T - 1 -> Nat]]
    BY DEF Greedy
  <2> QED
    BY <2>1, <2>2
<1>5. load[r][pick[r]] = load[r - 1][pick[r]] + w[order[r]]
  BY DEF Greedy
<1>6. load[r - 1][pick[r]] <= load[r][pick[r]]
  <2>1. PICK x \in Nat, y \in Nat : x = load[r - 1][pick[r]] /\ y = w[order[r]]
    BY <1>2, <1>3, <1>4
  <2>2. x <= x + y
    OBVIOUS
  <2> QED
    BY <1>5, <2>1, <2>2
<1> QED
  BY <1>1, <1>2, <1>3, <1>4, <1>5, <1>6 DEF Greedy, GreedyStep

\* It gives to a thread that has least.
HasLeast(t, load, T) ==
  /\ t \in 0 .. T - 1 /\ load \in [0 .. T - 1 -> Nat]
  /\ \A u \in 0 .. T - 1 : load[t] <= load[u]

LEMMA GreedyLeast ==
  ASSUME NEW c, NEW w, NEW T, NEW order, NEW pick, NEW load, NEW r,
         GreedyStep(order, pick, load, w, c, T, r)
  PROVE  HasLeast(pick[r], load[r - 1], T)
BY Zenon DEF GreedyStep, HasLeast

\* What a chunk changes in the number of threads heavier than x.
HeavierAfter(old, new, t, T, x) ==
  /\ Heavier(old, T, x) \in Nat /\ Heavier(new, T, x) \in Nat
  /\ Heavier(new, T, x) <= Heavier(old, T, x) + 1
  /\ new[t] <= x => Heavier(new, T, x) = Heavier(old, T, x)

LEMMA GreedyHeavier ==
  ASSUME NEW c, NEW w, NEW T \in Nat, NEW order, NEW pick, NEW load, NEW r, NEW x \in Nat,
         GreedyStep(order, pick, load, w, c, T, r)
  PROVE  HeavierAfter(load[r - 1], load[r], pick[r], T, x)
<1> DEFINE old == load[r - 1]
           new == load[r]
           t == pick[r]
<1>1. /\ old \in [0 .. T - 1 -> Nat] /\ new \in [0 .. T - 1 -> Nat] /\ t \in 0 .. T - 1
      /\ old[t] <= new[t] /\ \A u \in 0 .. T - 1 : u # t => new[u] = old[u]
  BY DEF GreedyStep
<1> HIDE DEF old, new, t
<1>2. HeavierAfter(old, new, t, T, x)
  BY <1>1, HeavierSteps DEF HeavierAfter
<1> QED
  BY <1>2 DEF old, new, t

\* After r chunks at most r threads are heavier than anything.
LEMMA HeavierUpTo ==
  ASSUME NEW c \in Nat \ {0}, NEW w \in [0 .. c - 1 -> Nat], NEW T \in Nat \ {0},
         NEW order, NEW pick, NEW load,
         HeaviestFirst(order, w, c), Greedy(order, pick, load, w, c, T),
         NEW r \in 0 .. c, NEW x \in Nat
  PROVE  Heavier(load[r], T, x) \in Nat /\ Heavier(load[r], T, x) <= r
<1> DEFINE Few(q) == Heavier(load[q], T, x) \in Nat /\ Heavier(load[q], T, x) <= q
           G == {q \in 0 .. c : Few(q)}
<1>1. 0 \in G
  <2>1. \A u \in 0 .. T - 1 : load[0][u] = 0
    BY DEF Greedy
  <2>2. Heavier(load[0], T, x) = 0
    BY <2>1, NoneHeavier
  <2> QED
    BY <2>2
<1>2. ASSUME NEW q \in 1 .. c, q - 1 \in G PROVE q \in G
  <2>0. GreedyStep(order, pick, load, w, c, T, q)
    BY GreedySteps
  <2>4. /\ Heavier(load[q], T, x) \in Nat
        /\ Heavier(load[q], T, x) <= Heavier(load[q - 1], T, x) + 1
    <3>1. HeavierAfter(load[q - 1], load[q], pick[q], T, x)
      BY <2>0, GreedyHeavier
    <3> QED
      BY <3>1, Zenon DEF HeavierAfter
  <2>5. Few(q - 1) /\ q \in 0 .. c
    BY <1>2
  <2> QED
    BY <2>4, <2>5
<1>3. \A q \in 0 .. c : q \in G
  <2> HIDE DEF G
  <2> QED
    BY <1>1, <1>2, Upwards
<1> QED
  BY <1>3

\* The first T chunks go to threads that have nothing.
FromNothing(order, pick, load, w, r) ==
  load[r - 1][pick[r]] = 0 /\ load[r][pick[r]] = w[order[r]]

LEMMA FirstRound ==
  ASSUME NEW c \in Nat \ {0}, NEW w \in [0 .. c - 1 -> Nat], NEW T \in Nat \ {0},
         NEW order, NEW pick, NEW load,
         HeaviestFirst(order, w, c), Greedy(order, pick, load, w, c, T),
         NEW r \in 1 .. c, r <= T
  PROVE  FromNothing(order, pick, load, w, r)
<1>1. r - 1 \in 0 .. c
  OBVIOUS
<1>2. Heavier(load[r - 1], T, 0) \in Nat /\ Heavier(load[r - 1], T, 0) <= r - 1
  BY <1>1, HeavierUpTo
<1>3. Heavier(load[r - 1], T, 0) < T
  BY <1>2
<1>4. PICK u \in 0 .. T - 1 : load[r - 1][u] <= 0
  BY <1>3, OneIsLighter
<1>5. /\ load[r - 1][pick[r]] <= load[r - 1][u]
      /\ pick[r] \in 0 .. T - 1 /\ load[r - 1] \in [0 .. T - 1 -> Nat]
      /\ load[r][pick[r]] = load[r - 1][pick[r]] + w[order[r]] /\ w[order[r]] \in Nat
  <2>1. GreedyStep(order, pick, load, w, c, T, r)
    BY GreedySteps
  <2> QED
    BY <2>1 DEF GreedyStep
<1>6. PICK p \in Nat, q \in Nat, y \in Nat :
        p = load[r - 1][pick[r]] /\ q = load[r - 1][u] /\ y = w[order[r]]
  BY <1>5
<1>7. p <= q /\ q <= 0
  BY <1>4, <1>5, <1>6
<1>8. p = 0 /\ p + y = y
  BY <1>7
<1> QED
  BY <1>5, <1>6, <1>8 DEF FromNothing

(***************************************************************************)
(* The i-th chunk of the second round finds a thread that has no more than *)
(* the i-th last chunk of the first one.                                   *)
(***************************************************************************)
LEMMA SecondRound ==
  ASSUME NEW T \in Nat \ {0}, NEW c, c = 2 * T, NEW w \in [0 .. c - 1 -> Nat],
         NEW order, NEW pick, NEW load,
         HeaviestFirst(order, w, c), Greedy(order, pick, load, w, c, T), NEW i \in 1 .. T
  PROVE  load[T + i - 1][pick[T + i]] <= w[order[T - i + 1]]
<1>1. c \in Nat \ {0} /\ T - i + 1 \in 1 .. c /\ T + i \in 1 .. c /\ T + i - 1 \in 0 .. c
  OBVIOUS
<1>2. PICK x \in Nat : x = w[order[T - i + 1]]
  <2>1. GreedyStep(order, pick, load, w, c, T, T - i + 1)
    BY <1>1, GreedySteps
  <2> QED
    BY <2>1 DEF GreedyStep
<1> DEFINE bound(r) == IF r <= T - i THEN r ELSE IF r <= T THEN T - i ELSE r - i
           heavy(r) == Heavier(load[r], T, x)
           Few(r) == heavy(r) \in Nat /\ heavy(r) <= bound(r)
           G == {r \in 0 .. c : Few(r)}
<1>3. 0 \in G
  <2>0. 0 \in 0 .. c
    BY <1>1
  <2>1. heavy(0) \in Nat /\ heavy(0) <= 0
    BY <1>1, <2>0, HeavierUpTo
  <2> HIDE DEF heavy
  <2> QED
    BY <2>0, <2>1
<1>4. ASSUME NEW r \in 1 .. c, r - 1 \in G PROVE r \in G
  <2>0. GreedyStep(order, pick, load, w, c, T, r)
    BY <1>1, GreedySteps
  <2>1. HeavierAfter(load[r - 1], load[r], pick[r], T, x)
    BY <2>0, GreedyHeavier
  <2>4. heavy(r) \in Nat /\ heavy(r) <= heavy(r - 1) + 1
    BY <2>1, Zenon DEF HeavierAfter
  <2>8. ASSUME load[r][pick[r]] <= x PROVE heavy(r) = heavy(r - 1)
    BY <2>1, <2>8, Zenon DEF HeavierAfter
  <2>5. Few(r - 1) /\ r \in 0 .. c
    BY <1>1, <1>4
  <2>6. ASSUME T - i < r, r <= T PROVE heavy(r) = heavy(r - 1)
    <3>1. load[r][pick[r]] = w[order[r]]
      <4>1. FromNothing(order, pick, load, w, r)
        BY <1>1, <2>6, FirstRound
      <4> QED
        BY <4>1 DEF FromNothing
    <3>2. w[order[r]] <= x
      <4>1. CASE r = T - i + 1
        BY <1>2, <4>1
      <4>2. CASE r # T - i + 1
        <5>1. T - i + 1 < r
          BY <2>6, <4>2
        <5> QED
          BY <1>1, <1>2, <5>1 DEF HeaviestFirst
      <4> QED
        BY <4>1, <4>2
    <3>3. load[r][pick[r]] <= x
      BY <3>1, <3>2
    <3> QED
      BY <2>8, <3>3
  <2> HIDE DEF heavy
  <2>9. PICK p \in Nat, q \in Nat : p = heavy(r - 1) /\ q = heavy(r)
    BY <2>4, <2>5
  <2>10. p <= bound(r - 1) /\ q <= p + 1 /\ (T - i < r /\ r <= T => q = p)
    <3> HIDE DEF bound
    <3> QED
      BY <2>4, <2>5, <2>6, <2>9
  <2>11. q <= bound(r)
    <3>1. CASE r <= T - i
      BY <2>10, <3>1
    <3>2. CASE T - i < r /\ r <= T
      BY <2>10, <3>2
    <3>3. CASE T < r
      BY <2>10, <3>3
    <3> QED
      BY <3>1, <3>2, <3>3
  <2>7. Few(r)
    <3> HIDE DEF bound
    <3> QED
      BY <2>9, <2>11
  <2> QED
    BY <2>5, <2>7
<1>5. T + i - 1 \in G
  <2>1. \A r \in 0 .. c : r \in G
    <3> HIDE DEF G
    <3> QED
      BY <1>1, <1>3, <1>4, Upwards
  <2> QED
    BY <1>1, <2>1
<1>6. heavy(T + i - 1) < T
  <2>1. bound(T + i - 1) <= T - 1
    OBVIOUS
  <2> HIDE DEF heavy
  <2> QED
    BY <1>5, <2>1
<1> DEFINE found == load[T + i - 1]
           t == pick[T + i]
<1>7. Heavier(found, T, x) < T
  BY <1>6
<1>8. HasLeast(t, found, T)
  <2>1. GreedyStep(order, pick, load, w, c, T, T + i)
    BY <1>1, GreedySteps
  <2> QED
    BY <2>1, GreedyLeast
<1> HIDE DEF found, t
<1>9. PICK u \in 0 .. T - 1 : found[u] <= x
  BY <1>7, OneIsLighter
<1>10. PICK p \in Nat, q \in Nat : p = found[t] /\ q = found[u]
  BY <1>8 DEF HasLeast
<1>11. p <= q /\ q <= x
  BY <1>8, <1>9, <1>10 DEF HasLeast
<1>12. p <= x
  BY <1>11
<1> QED
  BY <1>2, <1>10, <1>12 DEF found, t

-----------------------------------------------------------------------------
(* What any distribution of the chunks has to give to some thread.          *)

LEMMA TotalAdds ==
  ASSUME NEW n \in Nat, NEW a \in [0 .. n - 1 -> Nat], NEW b \in [0 .. n - 1 -> Nat]
  PROVE  Total([i \in 0 .. n - 1 |-> a[i] + b[i]], n) = Total(a, n) + Total(b, n)
<1> DEFINE d == [i \in 0 .. n - 1 |-> a[i] + b[i]]
           s == Sum(a, n)
           r == Sum(b, n)
           q == Sum(d, n)
           G == {i \in 0 .. n : q[i] = s[i] + r[i]}
<1>1. /\ s[0] = 0 /\ \A i \in 0 .. n : s[i] \in Nat
      /\ \A i \in 1 .. n : s[i] = s[i - 1] + a[i - 1]
  BY SumSteps
<1>2. /\ r[0] = 0 /\ \A i \in 0 .. n : r[i] \in Nat
      /\ \A i \in 1 .. n : r[i] = r[i - 1] + b[i - 1]
  BY SumSteps
<1>3. d \in [0 .. n - 1 -> Nat] /\ \A i \in 0 .. n - 1 : d[i] = a[i] + b[i]
  OBVIOUS
<1> HIDE DEF d
<1>4. /\ q[0] = 0 /\ \A i \in 0 .. n : q[i] \in Nat
      /\ \A i \in 1 .. n : q[i] = q[i - 1] + d[i - 1]
  BY <1>3, SumSteps
<1> HIDE DEF s, r, q
<1>5. 0 \in G
  BY <1>1, <1>2, <1>4
<1>6. ASSUME NEW i \in 1 .. n, i - 1 \in G PROVE i \in G
  <2>1. i \in 0 .. n /\ i - 1 \in 0 .. n /\ i - 1 \in 0 .. n - 1
    OBVIOUS
  <2>2. PICK x \in Nat, y \in Nat, u \in Nat, v \in Nat :
          x = s[i - 1] /\ y = r[i - 1] /\ u = a[i - 1] /\ v = b[i - 1]
    BY <1>1, <1>2, <2>1
  <2>3. q[i] = (x + y) + (u + v)
    BY <1>3, <1>4, <1>6, <2>1, <2>2
  <2>4. (x + y) + (u + v) = (x + u) + (y + v)
    OBVIOUS
  <2>5. q[i] = s[i] + r[i]
    BY <1>1, <1>2, <2>2, <2>3, <2>4
  <2> QED
    BY <2>1, <2>5
<1>7. \A i \in 0 .. n : i \in G
  <2> HIDE DEF G
  <2> QED
    BY <1>5, <1>6, Upwards
<1>8. n \in G
  BY <1>7
<1> QED
  BY <1>8 DEF Total, d, s, r, q

\* The first r chunks of the order are r chunks.
LEMMA TakenCount ==
  ASSUME NEW c \in Nat, NEW w, NEW order, HeaviestFirst(order, w, c), NEW r \in 0 .. c
  PROVE  Total(TakenUpTo([k \in 0 .. c - 1 |-> 1], order, r, c), c) = r
<1> DEFINE one == [k \in 0 .. c - 1 |-> 1]
           any == [k \in 0 .. c - 1 |-> 0]
           part(q) == Total(Of(TakenUpTo(one, order, q, c), any, 0, c), c)
           G == {q \in 0 .. c : part(q) = q}
<1>1. one \in [0 .. c - 1 -> Nat] /\ \A k \in 0 .. c - 1 : one[k] = 1 /\ any[k] = 0
  OBVIOUS
<1>2. Of(TakenUpTo(one, order, r, c), any, 0, c) = TakenUpTo(one, order, r, c)
  BY <1>1 DEF Of, TakenUpTo
<1> HIDE DEF one, any
<1>3. 0 \in G
  BY <1>1, TakenNone
<1>4. ASSUME NEW q \in 1 .. c, q - 1 \in G PROVE q \in G
  <2>1. PartGrows(one, order, q, c, any, 0)
    BY <1>1, TakenSteps
  <2>2. order[q] \in 0 .. c - 1
    BY DEF HeaviestFirst
  <2>3. any[order[q]] = 0 /\ one[order[q]] = 1
    BY <1>1, <2>2
  <2>4. part(q) = part(q - 1) + 1
    BY <2>1, <2>3 DEF PartGrows
  <2>5. part(q - 1) = q - 1 /\ q \in 0 .. c
    BY <1>4
  <2> HIDE DEF part
  <2> QED
    BY <2>4, <2>5
<1>5. \A q \in 0 .. c : q \in G
  <2> HIDE DEF G
  <2> QED
    BY <1>3, <1>4, Upwards
<1> QED
  BY <1>2, <1>5 DEF one

(***************************************************************************)
(* A thread with chunks that count for 3, where those of at least y count  *)
(* for 1 and those of at least x may count for 2, has x + y or 3 * y.      *)
(***************************************************************************)
Counts(v, a, x, y, n) ==
  /\ \A k \in 0 .. n - 1 : v[k] \in {0, 1, 2}
  /\ \A k \in 0 .. n - 1 : v[k] = 1 => y <= a[k]
  /\ \A k \in 0 .. n - 1 : v[k] = 2 => x <= a[k]

LEMMA ThreeAreMuch ==
  ASSUME NEW n \in Nat, NEW a \in [0 .. n - 1 -> Nat], NEW v \in [0 .. n - 1 -> Nat],
         NEW x \in Nat, NEW y \in Nat, y <= x, Counts(v, a, x, y, n), 3 <= Total(v, n)
  PROVE  x + y <= Total(a, n) \/ 3 * y <= Total(a, n)
<1> DEFINE s == Sum(a, n)
           r == Sum(v, n)
           Much(p, q) == /\ p = 1 => y <= q
                         /\ p = 2 => x <= q \/ 2 * y <= q
                         /\ 3 <= p => x + y <= q \/ 3 * y <= q
           G == {i \in 0 .. n : Much(r[i], s[i])}
<1>1. /\ s[0] = 0 /\ \A i \in 0 .. n : s[i] \in Nat
      /\ \A i \in 1 .. n : s[i] = s[i - 1] + a[i - 1]
  BY SumSteps
<1>2. /\ r[0] = 0 /\ \A i \in 0 .. n : r[i] \in Nat
      /\ \A i \in 1 .. n : r[i] = r[i - 1] + v[i - 1]
  BY SumSteps
<1> HIDE DEF s, r
<1>3. 0 \in G
  <2>1. Much(0, 0)
    OBVIOUS
  <2> HIDE DEF Much
  <2> QED
    BY <1>1, <1>2, <2>1
<1>4. ASSUME NEW p \in Nat, NEW q \in Nat, NEW d \in {0, 1, 2}, NEW e \in Nat, Much(p, q),
             d = 1 => y <= e, d = 2 => x <= e
      PROVE  Much(p + d, q + e)
  <2>1. CASE d = 0
    BY <1>4, <2>1
  <2>2. CASE d = 1
    BY <1>4, <2>2
  <2>3. CASE d = 2
    BY <1>4, <2>3
  <2> QED
    BY <2>1, <2>2, <2>3
<1>5. ASSUME NEW i \in 1 .. n, i - 1 \in G PROVE i \in G
  <2> HIDE DEF Much
  <2>1. i \in 0 .. n /\ i - 1 \in 0 .. n /\ i - 1 \in 0 .. n - 1 /\ a[i - 1] \in Nat
    OBVIOUS
  <2>2. Much(r[i - 1], s[i - 1]) /\ r[i - 1] \in Nat /\ s[i - 1] \in Nat
    BY <1>1, <1>2, <1>5, <2>1
  <2>3. v[i - 1] \in {0, 1, 2} /\ (v[i - 1] = 1 => y <= a[i - 1])
        /\ (v[i - 1] = 2 => x <= a[i - 1])
    BY <2>1 DEF Counts
  <2>4. Much(r[i - 1] + v[i - 1], s[i - 1] + a[i - 1])
    BY <1>4, <2>1, <2>2, <2>3
  <2>5. Much(r[i], s[i])
    BY <1>1, <1>2, <2>4
  <2> QED
    BY <2>1, <2>5
<1>6. \A i \in 0 .. n : i \in G
  <2> HIDE DEF G
  <2> QED
    BY <1>3, <1>5, Upwards
<1>7. Much(r[n], s[n])
  BY <1>6
<1>8. Much(Total(v, n), Total(a, n))
  BY <1>7 DEF Total, s, r
<1> QED
  BY <1>8

(***************************************************************************)
(* With 2 * T chunks, the (T + i)-th and the (T - i + 1)-th heaviest are   *)
(* together on some thread, or three of at least the former are.           *)
(***************************************************************************)
LEMMA SomeoneHasMuch ==
  ASSUME NEW T \in Nat \ {0}, NEW c, c = 2 * T, NEW w \in [0 .. c - 1 -> Nat],
         NEW order, HeaviestFirst(order, w, c), NEW i \in 1 .. T,
         NEW best \in [0 .. c - 1 -> 0 .. T - 1]
  PROVE  \E u \in 0 .. T - 1 :
           \/ w[order[T - i + 1]] + w[order[T + i]] <= Total(Of(w, best, u, c), c)
           \/ 3 * w[order[T + i]] <= Total(Of(w, best, u, c), c)
<1> DEFINE one == [k \in 0 .. c - 1 |-> 1]
           first == T - i + 1
           last == T + i
           early == TakenUpTo(one, order, first, c)
           all == TakenUpTo(one, order, last, c)
           val == [k \in 0 .. c - 1 |-> early[k] + all[k]]
           x == w[order[first]]
           y == w[order[last]]
           parts == [u \in 0 .. T - 1 |-> Total(Of(val, best, u, c), c)]
<1>1. /\ c \in Nat \ {0} /\ first \in 1 .. c /\ last \in 1 .. c /\ first < last
      /\ first \in 0 .. c /\ last \in 0 .. c /\ first + last = 2 * T + 1
  OBVIOUS
<1> HIDE DEF first, last
<1> DEFINE InFirst(k) == \E q \in 1 .. first : order[q] = k
           InAll(k) == \E q \in 1 .. last : order[q] = k
<1>2. /\ early = [k \in 0 .. c - 1 |-> IF InFirst(k) THEN 1 ELSE 0]
      /\ all = [k \in 0 .. c - 1 |-> IF InAll(k) THEN 1 ELSE 0]
  BY DEF TakenUpTo
<1> HIDE DEF InFirst, InAll, early, all
<1>a. early \in [0 .. c - 1 -> Nat] /\ all \in [0 .. c - 1 -> Nat]
  BY <1>2
<1>b. \A k \in 0 .. c - 1 :
        early[k] \in {0, 1} /\ (early[k] = 1 => InFirst(k)) /\ all[k] \in {0, 1} /\ (all[k] = 1 => InAll(k))
  BY <1>2
<1> USE DEF early, all
<1>3. Total(early, c) = first /\ Total(all, c) = last
  BY <1>1, TakenCount
<1> HIDE DEF early, all, one
<1>4. val \in [0 .. c - 1 -> Nat] /\ \A k \in 0 .. c - 1 : val[k] = early[k] + all[k]
  <2>1. ASSUME NEW k \in 0 .. c - 1 PROVE early[k] + all[k] \in Nat
    <3>1. PICK p \in {0, 1}, q \in {0, 1} : p = early[k] /\ q = all[k]
      BY <1>b
    <3>2. p + q \in Nat
      OBVIOUS
    <3> QED
      BY <3>1, <3>2
  <2> QED
    BY <2>1
<1>5. Total(val, c) = 2 * T + 1
  <2>1. Total(val, c) = Total(early, c) + Total(all, c)
    BY <1>1, <1>a, TotalAdds
  <2> HIDE DEF val
  <2> QED
    BY <1>1, <1>3, <2>1
<1>6. order[first] \in 0 .. c - 1 /\ order[last] \in 0 .. c - 1
  BY <1>1 DEF HeaviestFirst
<1>7. x \in Nat /\ y \in Nat /\ y <= x
  <2>1. y <= x
    BY <1>1 DEF HeaviestFirst
  <2> QED
    BY <1>6, <2>1
<1> HIDE DEF val, x, y
<1>8. ASSUME NEW k \in 0 .. c - 1
      PROVE  /\ val[k] \in {0, 1, 2}
             /\ val[k] = 1 => y <= w[k]
             /\ val[k] = 2 => x <= w[k]
  <2>1. /\ val[k] \in {0, 1, 2}
        /\ val[k] = 1 => InAll(k) \/ InFirst(k)
        /\ val[k] = 2 => InFirst(k)
    <3>1. PICK p \in {0, 1}, q \in {0, 1} : p = early[k] /\ q = all[k]
      BY <1>b
    <3>2. val[k] = p + q
      BY <1>4, <3>1
    <3>3. (p = 1 => InFirst(k)) /\ (q = 1 => InAll(k))
      BY <1>b, <3>1
    <3> QED
      BY <3>2, <3>3
  <2>2. ASSUME InFirst(k) PROVE x <= w[k]
    <3>1. PICK q \in 1 .. first : order[q] = k
      BY <2>2 DEF InFirst
    <3>2. q \in 1 .. c /\ (q = first \/ q < first)
      BY <1>1
    <3>3. q < first => w[order[first]] <= w[order[q]]
      BY <1>1, <3>2 DEF HeaviestFirst
    <3>4. x = w[order[first]] /\ x <= x
      BY <1>7 DEF x
    <3> QED
      BY <3>1, <3>2, <3>3, <3>4
  <2>3. ASSUME InAll(k) PROVE y <= w[k]
    <3>1. PICK q \in 1 .. last : order[q] = k
      BY <2>3 DEF InAll
    <3>2. q \in 1 .. c /\ (q = last \/ q < last)
      BY <1>1
    <3>3. q < last => w[order[last]] <= w[order[q]]
      BY <1>1, <3>2 DEF HeaviestFirst
    <3>4. y = w[order[last]] /\ y <= y
      BY <1>7 DEF y
    <3> QED
      BY <3>1, <3>2, <3>3, <3>4
  <2>4. x <= w[k] => y <= w[k]
    <3>1. PICK p \in Nat, q \in Nat, z \in Nat : p = x /\ q = y /\ z = w[k]
      BY <1>7
    <3>2. q <= p
      BY <1>7, <3>1
    <3>3. p <= z => q <= z
      BY <3>2
    <3> QED
      BY <3>1, <3>3
  <2> QED
    BY <2>1, <2>2, <2>3, <2>4
<1>9. parts \in [0 .. T - 1 -> Nat]
  <2>1. ASSUME NEW u \in 0 .. T - 1 PROVE Total(Of(val, best, u, c), c) \in Nat
    <3>1. Of(val, best, u, c) \in [0 .. c - 1 -> Nat]
      BY <1>4 DEF Of
    <3> QED
      BY <1>1, <3>1, TotalIsNat
  <2> QED
    BY <2>1
<1>10. Total(parts, T) = 2 * T + 1
  <2>1. c \in Nat /\ T \in Nat
    BY <1>1
  <2>2. val \in [0 .. c - 1 -> Nat]
    BY <1>4
  <2>3. Whole(val, best, c, T)
    BY <2>1, <2>2, PartsMakeWhole
  <2> QED
    BY <1>5, <2>3 DEF Whole
<1>11. PICK u \in 0 .. T - 1 : 3 <= parts[u]
  <2> SUFFICES ASSUME ~\E u \in 0 .. T - 1 : 3 <= parts[u] PROVE FALSE
    OBVIOUS
  <2> HIDE DEF parts
  <2>1. \A u \in 0 .. T - 1 : parts[u] <= 2
    BY <1>9
  <2>2. Total(parts, T) <= T * 2
    BY <1>9, <2>1, TotalAtMost
  <2> QED
    BY <1>10, <2>2
<1> DEFINE v == Of(val, best, u, c)
           a == Of(w, best, u, c)
<1>12. /\ v \in [0 .. c - 1 -> Nat] /\ a \in [0 .. c - 1 -> Nat]
       /\ \A k \in 0 .. c - 1 : v[k] = IF best[k] = u THEN val[k] ELSE 0
       /\ \A k \in 0 .. c - 1 : a[k] = IF best[k] = u THEN w[k] ELSE 0
  BY <1>4 DEF Of
<1>13. 3 <= Total(v, c)
  BY <1>11
<1> HIDE DEF v, a, parts
<1>14. Counts(v, a, x, y, c)
  <2>1. ASSUME NEW k \in 0 .. c - 1
        PROVE  /\ v[k] \in {0, 1, 2}
               /\ v[k] = 1 => y <= a[k]
               /\ v[k] = 2 => x <= a[k]
    <3>1. CASE best[k] = u
      <4>1. v[k] = val[k] /\ a[k] = w[k]
        BY <1>12, <3>1
      <4> QED
        BY <1>8, <4>1
    <3>2. CASE best[k] # u
      <4>1. v[k] = 0
        BY <1>12, <3>2
      <4> QED
        BY <4>1
    <3> QED
      BY <3>1, <3>2
  <2> QED
    BY <2>1 DEF Counts
<1>15. x + y <= Total(a, c) \/ 3 * y <= Total(a, c)
  <2>1. c \in Nat
    BY <1>1
  <2>2. v \in [0 .. c - 1 -> Nat] /\ a \in [0 .. c - 1 -> Nat]
    BY <1>12
  <2>3. x \in Nat /\ y \in Nat /\ y <= x
    BY <1>7
  <2> QED
    BY <1>13, <1>14, <2>1, <2>2, <2>3, ThreeAreMuch
<1> QED
  BY <1>15 DEF x, y, a, first, last

-----------------------------------------------------------------------------
(* Graham's bound.                                                          *)

\* The threads have nothing less, and so nothing less together, later.
LEMMA LoadsGrow ==
  ASSUME NEW c \in Nat \ {0}, NEW w \in [0 .. c - 1 -> Nat], NEW T \in Nat \ {0},
         NEW order, NEW pick, NEW load,
         HeaviestFirst(order, w, c), Greedy(order, pick, load, w, c, T), NEW r \in 0 .. c
  PROVE  Total(load[r], T) <= Total(load[c], T)
<1> DEFINE total == [q \in 0 .. c |-> Total(load[q], T)]
           Behind(q) == r <= q => total[r] <= total[q]
           G == {q \in 0 .. c : Behind(q)}
<1>1. \A q \in 0 .. c : total[q] \in Nat
  <2>1. \A q \in 0 .. c : load[q] \in [0 .. T - 1 -> Nat]
    BY DEF Greedy
  <2> QED
    BY <2>1, TotalIsNat
<1>2. ASSUME NEW q \in 1 .. c PROVE total[q - 1] <= total[q]
  <2>1. GreedyStep(order, pick, load, w, c, T, q)
    BY GreedySteps
  <2>2. load[q - 1] \in [0 .. T - 1 -> Nat] /\ load[q] \in [0 .. T - 1 -> Nat]
    BY <2>1 DEF GreedyStep
  <2>3. \A u \in 0 .. T - 1 : load[q - 1][u] <= load[q][u]
    <3> SUFFICES ASSUME NEW u \in 0 .. T - 1 PROVE load[q - 1][u] <= load[q][u]
      OBVIOUS
    <3>1. CASE u = pick[q]
      BY <2>1, <3>1 DEF GreedyStep
    <3>2. CASE u # pick[q]
      <4>1. load[q][u] = load[q - 1][u]
        BY <2>1, <3>2 DEF GreedyStep
      <4>2. load[q - 1][u] \in Nat
        BY <2>2
      <4> QED
        BY <4>1, <4>2
    <3> QED
      BY <3>1, <3>2
  <2>4. Total(load[q - 1], T) <= Total(load[q], T)
    BY <2>2, <2>3, TotalGrows
  <2>5. q \in 0 .. c /\ q - 1 \in 0 .. c
    OBVIOUS
  <2> QED
    BY <2>4, <2>5
<1>3. \A q \in 0 .. c : total[q] = Total(load[q], T)
  OBVIOUS
<1> HIDE DEF total
<1>4. 0 \in G
  <2>1. r <= 0 => r = 0
    OBVIOUS
  <2>2. 0 \in 0 .. c /\ total[0] <= total[0]
    BY <1>1
  <2> QED
    BY <2>1, <2>2
<1>5. ASSUME NEW q \in 1 .. c, q - 1 \in G PROVE q \in G
  <2>1. q \in 0 .. c /\ q - 1 \in 0 .. c /\ Behind(q - 1)
    BY <1>5
  <2>2. PICK x \in Nat, y \in Nat, z \in Nat : x = total[r] /\ y = total[q - 1] /\ z = total[q]
    BY <1>1, <2>1
  <2>3. y <= z
    BY <1>2, <2>2
  <2>4. CASE r = q
    <3>1. total[r] <= total[q]
      BY <1>1, <2>1, <2>4
    <3> QED
      BY <2>1, <3>1
  <2>5. CASE r # q
    <3>1. r <= q => x <= y
      BY <2>1, <2>2, <2>5
    <3>2. r <= q => x <= z
      BY <2>3, <3>1
    <3> QED
      BY <2>1, <2>2, <3>2
  <2> QED
    BY <2>4, <2>5
<1>6. \A q \in 0 .. c : q \in G
  <2> HIDE DEF G
  <2> QED
    BY <1>4, <1>5, Upwards
<1>7. c \in 0 .. c /\ r <= c
  OBVIOUS
<1>8. Behind(c)
  BY <1>6, <1>7
<1>9. total[r] <= total[c]
  BY <1>7, <1>8
<1> QED
  BY <1>3, <1>7, <1>9

\* What a thread has in the end is what one last chunk, the s-th, brought it.
LastFor(s, pick, load, c, t) == pick[s] = t /\ load[s][t] = load[c][t]

LEMMA LastChunk ==
  ASSUME NEW c \in Nat \ {0}, NEW w \in [0 .. c - 1 -> Nat], NEW T \in Nat \ {0},
         NEW order, NEW pick, NEW load,
         HeaviestFirst(order, w, c), Greedy(order, pick, load, w, c, T),
         NEW t \in 0 .. T - 1, load[c][t] # 0
  PROVE  \E s \in 1 .. c : LastFor(s, pick, load, c, t)
<1> DEFINE S == {r \in 0 .. c : load[r][t] = load[c][t]}
<1>1. S \in SUBSET Nat /\ S # {}
  <2>1. c \in S
    OBVIOUS
  <2> QED
    BY <2>1
<1> DEFINE s == Least(S)
<1>2. s \in S /\ \A y \in S : s <= y
  <2> HIDE DEF S
  <2> QED
    BY <1>1, LeastIsLeast
<1> HIDE DEF s
<1>3. s \in 0 .. c /\ load[s][t] = load[c][t]
  BY <1>2
<1>4. s \in 1 .. c
  <2>1. load[0][t] = 0
    BY DEF Greedy
  <2>2. s # 0
    BY <1>3, <2>1
  <2> QED
    BY <1>3, <2>2
<1>5. pick[s] = t
  <2> SUFFICES ASSUME pick[s] # t PROVE FALSE
    OBVIOUS
  <2>1. load[s][t] = load[s - 1][t]
    BY <1>4 DEF Greedy
  <2>2. s - 1 \in S
    BY <1>3, <1>4, <2>1
  <2> QED
    BY <1>2, <1>4, <2>2
<1> QED
  BY <1>3, <1>4, <1>5 DEF LastFor

\* The two ways in which an assignment is within the bound of another one.
LEMMA BoundBySmallLast ==
  ASSUME NEW T \in Nat \ {0}, NEW l \in Nat, NEW y \in Nat, NEW b \in Nat,
         T * l + y <= T * b, 3 * y <= b
  PROVE  3 * T * (l + y) <= (4 * T - 1) * b
<1>1. PICK d \in Nat : T = d + 1
  <2>1. T - 1 \in Nat /\ T = (T - 1) + 1
    OBVIOUS
  <2> QED
    BY <2>1
<1>2. d * (3 * y) <= d * b
  <2>1. PICK e \in Nat : b = 3 * y + e
    <3>1. b - 3 * y \in Nat /\ b = 3 * y + (b - 3 * y)
      OBVIOUS
    <3> QED
      BY <3>1
  <2>2. d * b = d * (3 * y) + d * e
    BY <2>1
  <2>3. d * e \in Nat /\ d * (3 * y) \in Nat
    OBVIOUS
  <2> QED
    BY <2>2, <2>3
<1>3. PICK p \in Nat, q \in Nat, x \in Nat : p = d * l /\ q = d * y /\ x = d * b
  <2>1. d * l \in Nat /\ d * y \in Nat /\ d * b \in Nat
    OBVIOUS
  <2> QED
    BY <2>1
<1>4. T * l = p + l /\ T * b = x + b /\ d * (3 * y) = 3 * q
  BY <1>1, <1>3
<1>5. (p + l) + y <= x + b /\ 3 * q <= x
  BY <1>2, <1>3, <1>4
<1>6. 3 * T * (l + y) = 3 * (p + l + q + y)
  BY <1>1, <1>3
<1>7. (4 * T - 1) * b = 4 * x + 3 * b
  BY <1>1, <1>3
<1>8. 3 * (p + l + q + y) <= 4 * x + 3 * b
  BY <1>5
<1> QED
  BY <1>6, <1>7, <1>8

LEMMA BoundByAnother ==
  ASSUME NEW T \in Nat \ {0}, NEW l \in Nat, NEW b \in Nat, l <= b
  PROVE  3 * T * l <= (4 * T - 1) * b
<1>1. PICK d \in Nat : T = d + 1
  <2>1. T - 1 \in Nat /\ T = (T - 1) + 1
    OBVIOUS
  <2> QED
    BY <2>1
<1>2. PICK e \in Nat : b = l + e
  <2>1. b - l \in Nat /\ b = l + (b - l)
    OBVIOUS
  <2> QED
    BY <2>1
<1>3. (4 * T - 1) * b = 3 * T * l + d * l + (4 * T - 1) * e
  BY <1>1, <1>2
<1>4. 3 * T * l \in Nat /\ d * l \in Nat /\ (4 * T - 1) * e \in Nat
  <2>1. 4 * T - 1 \in Nat
    OBVIOUS
  <2> QED
    BY <2>1
<1> QED
  BY <1>3, <1>4

\* Every thread of the greedy assignment is within the bound of some thread of any other.
Near(l, w, best, c, T) ==
  \E u \in 0 .. T - 1 : 3 * T * l <= (4 * T - 1) * Total(Of(w, best, u, c), c)

LEMMA GreedyNearBest ==
  ASSUME NEW T \in Nat \ {0}, NEW c, c = 2 * T, NEW w \in [0 .. c - 1 -> Nat],
         NEW order, NEW pick, NEW load, NEW thread,
         HeaviestFirst(order, w, c), Greedy(order, pick, load, w, c, T),
         Gives(thread, order, pick, w, c, T),
         NEW best \in [0 .. c - 1 -> 0 .. T - 1], NEW t \in 0 .. T - 1
  PROVE  Near(load[c][t], w, best, c, T)
<1> DEFINE part == [u \in 0 .. T - 1 |-> Total(Of(w, best, u, c), c)]
<1>c. c \in Nat \ {0}
  OBVIOUS
<1>n. c \in Nat
  OBVIOUS
<1>t. T \in Nat
  OBVIOUS
<1>1. c \in Nat \ {0} /\ c \in Nat /\ T \in Nat
  OBVIOUS
<1>2. part \in [0 .. T - 1 -> Nat]
  <2>1. ASSUME NEW u \in 0 .. T - 1 PROVE Total(Of(w, best, u, c), c) \in Nat
    <3>1. Of(w, best, u, c) \in [0 .. c - 1 -> Nat]
      BY DEF Of
    <3> QED
      BY <1>1, <3>1, TotalIsNat
  <2> QED
    BY <2>1
<1>3. Total(part, T) = Total(w, c)
  <2>1. Whole(w, best, c, T)
    BY <1>n, <1>t, PartsMakeWhole
  <2> QED
    BY <2>1 DEF Whole
<1>4. \A u \in 0 .. T - 1 : part[u] = Total(Of(w, best, u, c), c)
  OBVIOUS
<1> HIDE DEF part
<1>5. SUFFICES \E u \in 0 .. T - 1 : 3 * T * load[c][t] <= (4 * T - 1) * part[u]
  BY <1>4 DEF Near
<1>6. load[c] \in [0 .. T - 1 -> Nat]
  <2>1. c \in 0 .. c
    BY <1>1
  <2> QED
    BY <2>1 DEF Greedy
<1>7. ASSUME NEW u \in 0 .. T - 1, load[c][t] <= part[u] PROVE 3 * T * load[c][t] <= (4 * T - 1) * part[u]
  <2>1. load[c][t] \in Nat /\ part[u] \in Nat
    BY <1>2, <1>6
  <2> QED
    BY <1>7, <2>1, BoundByAnother
<1>8. CASE load[c][t] = 0
  <2>1. t \in 0 .. T - 1 /\ part[t] \in Nat
    BY <1>2
  <2>2. load[c][t] <= part[t]
    BY <1>8, <2>1
  <2> QED
    BY <1>7, <2>2
<1>9. CASE load[c][t] # 0
  <2>0. PICK s \in 1 .. c : LastFor(s, pick, load, c, t)
    BY <1>c, <1>9, LastChunk
  <2>1. pick[s] = t /\ load[s][t] = load[c][t]
    BY <2>0 DEF LastFor
  <2>2. GreedyStep(order, pick, load, w, c, T, s)
    BY <1>c, GreedySteps
  <2>3. PICK l \in Nat, y \in Nat : l = load[s - 1][t] /\ y = w[order[s]]
    <3>1. load[s - 1] \in [0 .. T - 1 -> Nat] /\ w[order[s]] \in Nat
      BY <2>2 DEF GreedyStep
    <3> QED
      BY <3>1
  <2>4. load[c][t] = l + y
    BY <2>1, <2>2, <2>3 DEF GreedyStep
  \* The last chunk is at most a third of what some thread has in best.
  <2>5. CASE \E u \in 0 .. T - 1 : 3 * y <= part[u]
    <3>1. PICK h \in 0 .. T - 1 : \A u \in 0 .. T - 1 : part[u] <= part[h]
      BY <1>2, HeaviestExists
    <3>2. PICK b \in Nat : b = part[h]
      BY <1>2
    <3>3. 3 * y <= b
      <4>1. PICK u \in 0 .. T - 1 : 3 * y <= part[u]
        BY <2>5
      <4>2. PICK z \in Nat : z = part[u]
        BY <1>2
      <4>3. 3 * y <= z /\ z <= b
        BY <3>1, <3>2, <4>1, <4>2
      <4>4. 3 * y \in Nat
        OBVIOUS
      <4> QED
        BY <4>3, <4>4
    <3>4. T * l + y <= T * b
      <4> DEFINE old == load[s - 1]
                 new == load[s]
      <4>1. old \in [0 .. T - 1 -> Nat] /\ new \in [0 .. T - 1 -> Nat]
        BY <2>2 DEF GreedyStep
      <4>2. \A u \in 0 .. T - 1 : l <= old[u]
        BY <2>1, <2>2, <2>3 DEF GreedyStep
      <4>3. \A u \in 0 .. T - 1 : u # t => new[u] = old[u]
        BY <2>1, <2>2 DEF GreedyStep
      <4>4. new[t] = l + y /\ old[t] = l
        BY <2>1, <2>3, <2>4
      <4>5. Total(new, T) <= Total(load[c], T)
        <5>1. s \in 0 .. c
          BY <1>1
        <5> QED
          BY <1>1, <5>1, LoadsGrow
      <4>6. load[c] = [u \in 0 .. T - 1 |-> Total(Of(w, thread, u, c), c)]
        <5>1. LoadsFit(load, thread, w, c, T)
          BY <1>c, LoadsAreParts
        <5> QED
          BY <1>6, <5>1 DEF LoadsFit
      <4>7. Total(load[c], T) = Total(w, c)
        <5>1. thread \in [0 .. c - 1 -> 0 .. T - 1]
          BY DEF Gives
        <5>2. Whole(w, thread, c, T)
          BY <1>n, <1>t, <5>1, PartsMakeWhole
        <5> QED
          BY <4>6, <5>2 DEF Whole
      <4> HIDE DEF old, new
      <4>8. T * l <= Total(old, T)
        BY <1>1, <4>1, <4>2, TotalAtLeast
      <4>9. Total(new, T) + old[t] = Total(old, T) + new[t]
        <5>1. old \in [0 .. T - 1 -> Nat]
          BY <4>1
        <5>2. new \in [0 .. T - 1 -> Nat]
          BY <4>1
        <5> QED
          BY <1>t, <4>3, <5>1, <5>2, TotalChanges
      <4>10. Total(part, T) <= T * b
        BY <1>1, <1>2, <3>1, <3>2, TotalAtMost
      <4>11. PICK p \in Nat, q \in Nat, r \in Nat, e \in Nat, f \in Nat :
               /\ p = Total(old, T) /\ q = Total(new, T) /\ r = Total(w, c)
               /\ e = T * l /\ f = T * b
        <5>1. Total(old, T) \in Nat /\ Total(new, T) \in Nat
          BY <1>1, <4>1, TotalIsNat
        <5>2. Total(w, c) \in Nat
          BY <1>1, TotalIsNat
        <5>3. T * l \in Nat /\ T * b \in Nat
          OBVIOUS
        <5> QED
          BY <5>1, <5>2, <5>3
      <4>12. q + l = p + (l + y)
        BY <4>4, <4>9, <4>11
      <4>13. e <= p /\ q <= r /\ r <= f
        BY <1>3, <4>5, <4>7, <4>8, <4>10, <4>11
      <4>14. e + y <= f
        BY <4>12, <4>13
      <4> QED
        BY <4>11, <4>14
    <3>5. 3 * T * (l + y) <= (4 * T - 1) * b
      BY <3>3, <3>4, BoundBySmallLast
    <3> QED
      BY <2>4, <3>2, <3>5
  \* It is more: nobody has three like it.
  <2>6. CASE ~\E u \in 0 .. T - 1 : 3 * y <= part[u]
    <3>1. CASE s <= T
      <4>1. load[c][t] = y
        <5>1. FromNothing(order, pick, load, w, s)
          BY <1>c, <3>1, FirstRound
        <5> QED
          BY <2>1, <2>3, <5>1 DEF FromNothing
      <4> DEFINE k == order[s]
                 u == best[k]
                 a == Of(w, best, u, c)
      <4>2. k \in 0 .. c - 1 /\ u \in 0 .. T - 1
        BY <2>2 DEF GreedyStep
      <4>3. a \in [0 .. c - 1 -> Nat] /\ a[k] = y
        BY <2>3, <4>2 DEF Of
      <4>4. part[u] = Total(a, c)
        BY <1>4, <4>2
      <4> HIDE DEF k, a, u
      <4>5. a[k] <= Total(a, c)
        BY <1>1, <4>2, <4>3, TotalHas
      <4>6. load[c][t] <= part[u]
        BY <4>1, <4>3, <4>4, <4>5
      <4> QED
        BY <1>7, <4>2, <4>6
    <3>2. CASE T < s
      <4>1. PICK i \in 1 .. T : s = T + i
        <5>1. s - T \in 1 .. T /\ s = T + (s - T)
          BY <3>2
        <5> QED
          BY <5>1
      <4>2. load[s - 1][t] <= w[order[T - i + 1]]
        <5>1. load[T + i - 1][pick[T + i]] <= w[order[T - i + 1]]
          BY SecondRound
        <5> QED
          BY <2>1, <4>1, <5>1
      <4>3. PICK x \in Nat : x = w[order[T - i + 1]]
        <5>1. T - i + 1 \in 1 .. c
          OBVIOUS
        <5>2. GreedyStep(order, pick, load, w, c, T, T - i + 1)
          BY <1>1, <5>1, GreedySteps
        <5> QED
          BY <5>2 DEF GreedyStep
      <4>4. PICK u \in 0 .. T - 1 : x + y <= part[u] \/ 3 * y <= part[u]
        <5>1. \E u \in 0 .. T - 1 :
                \/ w[order[T - i + 1]] + w[order[T + i]] <= Total(Of(w, best, u, c), c)
                \/ 3 * w[order[T + i]] <= Total(Of(w, best, u, c), c)
          BY SomeoneHasMuch
        <5> QED
          BY <1>4, <2>3, <4>1, <4>3, <5>1
      <4>5. x + y <= part[u]
        BY <2>6, <4>4
      <4>6. PICK z \in Nat : z = part[u]
        BY <1>2
      <4>7. l <= x /\ x + y <= z
        BY <2>3, <4>2, <4>3, <4>5, <4>6
      <4>8. l + y <= z
        BY <4>7
      <4>9. load[c][t] <= part[u]
        BY <2>4, <4>6, <4>8
      <4> QED
        BY <1>7, <4>9
    <3> QED
      BY <3>1, <3>2
  <2> QED
    BY <2>5, <2>6
<1> QED
  BY <1>8, <1>9

(***************************************************************************)
(* binlpt_balance keeps no thread busy longer than 4/3 - 1/(3 T) times the *)
(* longest that a thread is busy with the same chunks in any distribution, *)
(* for every loop, all weights and every number of threads T.              *)
(***************************************************************************)
THEOREM MapNearBestMap ==
  ASSUME NEW n \in Nat, NEW a \in [0 .. n - 1 -> Nat], NEW T \in Nat \ {0},
         NEW best \in [0 .. 2 * T - 1 -> 0 .. T - 1], NEW t \in 0 .. T - 1
  PROVE  \E u \in 0 .. T - 1 :
           3 * T * Total(Of(a, TaskMap(a, n, T), t, n), n) <=
             (4 * T - 1) * Total(Of(Chunks(a, n, 2 * T), best, u, 2 * T), 2 * T)
<1> DEFINE c == 2 * T
           w == Chunks(a, n, c)
           thread == Dealt(w, c, T).thread
<1>1. c \in Nat \ {0} /\ c = 2 * T
  OBVIOUS
<1>2. Total(Of(a, TaskMap(a, n, T), t, n), n) = Total(Of(w, thread, t, c), c)
  BY PartsOfChunks
<1>3. best \in [0 .. c - 1 -> 0 .. T - 1]
  OBVIOUS
<1>4. w \in [0 .. c - 1 -> Nat]
  BY <1>1, ChunkWeights
<1>5. PICK order, pick, load :
        /\ HeaviestFirst(order, w, c)
        /\ Greedy(order, pick, load, w, c, T)
        /\ Gives(thread, order, pick, w, c, T)
  BY <1>1, <1>4, DealtGreedily
<1> HIDE DEF w, thread, c
<1>6. load[c][t] = Total(Of(w, thread, t, c), c)
  <2>1. LoadsFit(load, thread, w, c, T)
    BY <1>1, <1>4, <1>5, LoadsAreParts
  <2> QED
    BY <2>1 DEF LoadsFit
<1>7. Near(load[c][t], w, best, c, T)
  BY <1>1, <1>3, <1>4, <1>5, GreedyNearBest
<1>8. Near(Total(Of(a, TaskMap(a, n, T), t, n), n), w, best, c, T)
  BY <1>2, <1>6, <1>7
<1> QED
  BY <1>8 DEF Near, w, c
===============================================================================
