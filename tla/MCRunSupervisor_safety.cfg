SPECIFICATION Spec
CONSTANTS
  Owners <- Three
  Nodes <- Three
  NodeOf <- ThreeNames
  NoOwner = NoOwner
  Resources <- MCResources
  Overlap <- MCOverlap
  Rank <- MCRank
  Writes <- ChainWrites
  Reads <- ChainReads
  Deps <- ChainDeps
  Position <- ThreePosition
  Leftover <- NoRows
  Width = 2
  MaxAttempts = 2
  MaxReviewRounds = 1
  MaxCascadeDepth = 8
  MaxGrants = 1
  Critiques = {"c1"}
  HasApprover = TRUE
  Budgeted = TRUE
CHECK_DEADLOCK FALSE
INVARIANTS InFlightHoldsItsWrites WaitingHoldsNothing ParkedKeepsLocks
PROPERTY NoStartAfterCancel CascadeLeavesNoReader
