CONSTANTS
  p1 = p1
  p2 = p2
  l1 = l1
  l2 = l2
  Procs <- OneProc
  Loops <- TwoLoops
  MaxRuns = 4
  MaxTunings = 1
  Envs <- EnvsBo
  Empty = FALSE
  EveryLoop = FALSE
  Serial = TRUE
  Crashes = FALSE
SPECIFICATION Spec
INVARIANT EveryRunStarts
