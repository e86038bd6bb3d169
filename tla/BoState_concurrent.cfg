CONSTANTS
  p1 = p1
  p2 = p2
  l1 = l1
  l2 = l2
  Procs <- TwoProcs
  Loops <- OneLoop
  MaxRuns = 3
  MaxTunings = 1
  Envs <- EnvsBo
  Empty = FALSE
  EveryLoop = TRUE
  Serial = FALSE
  Crashes = FALSE
SPECIFICATION Spec
INVARIANT RunsAreRecorded
