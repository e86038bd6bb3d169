----------------------------- MODULE MCWorkShare -----------------------------
(* Model-checking instance of WorkShare: the team and its programs.        *)
EXTENDS WorkShare

CONSTANTS t1, t2, t3, a, b

Team == {t1, t2, t3}
TwoRegions == {a, b}

Loop(r, e) == [region |-> r, end |-> e]

Chain ==     \* nowait throughout: the threads drift apart, shares are used again
  [kind |-> "plain",
   loops |-> <<Loop(a, "nowait"), Loop(b, "nowait"), Loop(a, "nowait"), Loop(b, "nowait")>>]

Mixed ==
  [kind |-> "plain",
   loops |-> <<Loop(a, "wait"), Loop(b, "nowait"), Loop(a, "cancel"), Loop(b, "wait")>>]

Combined(e) == [kind |-> "combined", loops |-> <<Loop(a, e)>>]

Orphans == [kind |-> "orphan", loops |-> <<Loop(a, "wait"), Loop(b, "nowait")>>]

AllPrograms ==
  {Chain, Mixed, Combined("nowait"), Combined("wait"), Combined("cancel"), Orphans}
=============================================================================
