CONSTANTS
  p1 = p1
  p2 = p2
  l1 = l1
  l2 = l2
  Procs <- TwoProcs
  Loops <- OneLoop
  MaxRuns = 4
  MaxTunings = 2
  Envs <- EnvsAll
  Empty = TRUE
  EveryLoop = FALSE
  Serial = FALSE
  Crashes = TRUE
SPECIFICATION Spec
INVARIANTS WritersExclude NoInventedRows TornFileIsLocked
