SPECIFICATION Spec
CONSTANTS
  P = 2
  Plans <- LatePlans
  Wrap <- Word6
INVARIANTS
  AllWorkAssigned
