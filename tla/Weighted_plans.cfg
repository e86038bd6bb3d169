SPECIFICATION FairSpec
CONSTANTS
  P = 2
  Plans <- FairPlans
  Wrap <- Word6
INVARIANTS
  TypeOK
  EachIterationOnce
  MapNearBest
PROPERTIES
  BlockFitsShare
  
