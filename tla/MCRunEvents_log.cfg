SPECIFICATION EventFairSpec
CONSTANTS
  Owners <- Two
  Nodes <- Two
  NodeOf <- TwoNames
  NoOwner = NoOwner
  Resources <- MCResources
  Overlap <- MCOverlap
  Rank <- MCRank
  Writes <- PairWrites
  Reads <- PairReads
  Deps <- PairDeps
  Position <- TwoPosition
  Leftover <- NoRows
  Width = 2
  MaxAttempts = 2
  MaxReviewRounds = 1
  MaxCascadeDepth = 1
  MaxGrants = 2
  Critiques = {"c1"}
  HasApprover = TRUE
  Budgeted = TRUE
CHECK_DEADLOCK FALSE
INVARIANTS DoneIsShownExactly PendingIsShownExactly ActivityIsShown
PROPERTY RunEnds
