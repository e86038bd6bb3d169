------------------------------ MODULE MCWeighted ------------------------------
(* Model-checking instances of Weighted: the loops, by their weights.      *)
EXTENDS Weighted

Loop(first, task) ==
  [n |-> Cardinality(DOMAIN task), start |-> first, task |-> task, map |-> <<>>]

\* A loop with a map from the state file or from an earlier execution.
Mapped(m) ==
  [n |-> Cardinality(DOMAIN m), start |-> 0, task |-> [i \in DOMAIN m |-> 1], map |-> m]

Given(n, t) == [i \in 0 .. n - 1 |-> t[i + 1]]

Plan(s, max, free, ls) ==
  [sched |-> s, maxThreads |-> max, nowait |-> free, len |-> Cardinality(DOMAIN ls),
   loops |-> ls]

Even(n)  == [i \in 0 .. n - 1 |-> 1]
Steep(n) == [i \in 0 .. n - 1 |-> i]

\* Every loop of five iterations with light, heavy and weightless iterations.
Weights5 == [0 .. 4 -> {0, 1, 4}]

One(s, first) == {Plan(s, 2, FALSE, <<Loop(first, w)>>) : w \in Weights5}

Two(s, free, a, b) == Plan(s, 2, free, <<Loop(0, a), Loop(0, b)>>)

FairPlans ==
  One("binlpt", 3) \cup One("hss", 0) \cup
  { Two("binlpt", FALSE, Even(4), Steep(6)),
    Two("binlpt", TRUE, Steep(6), Even(4)),   \* the second loop is shorter
    Two("hss", FALSE, Steep(4), Even(2)),
    Two("hss", TRUE, Steep(4), Even(4)),      \* other weights while in the first
    Plan("binlpt", 3, FALSE, <<Loop(0, Even(6))>>),    \* a map for three threads
    \* a map that the tuner made for this team, whose threads it numbers from 1
    Plan("binlpt", 2, FALSE, <<Mapped(Given(5, <<1, 1, 2, 1, 2>>))>>),
    \* maps of a team of one and of one of two, the second loop with a new map
    Plan("binlpt", 2, TRUE,
         <<Mapped(Given(4, <<0, 0, 0, 0>>)), Mapped(Given(4, <<1, 0, 0, 1>>)), Loop(0, Even(4))>>) }

LatePlans == {Plan("hss", 2, FALSE, <<Loop(1, Even(3))>>)} \cup One("hss", 2)

Word6 == 64
===============================================================================
