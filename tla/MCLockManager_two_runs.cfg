SPECIFICATION LocksSpec
CONSTANTS
  Owners <- TwoRuns
  NodeOf <- NamesOfRuns
  NoOwner = NoOwner
  Resources <- MCResources
  Overlap <- MCOverlap
  Rank <- MCRank
  Writes <- WritesOfRuns
  Reads <- ReadsOfRuns
CHECK_DEADLOCK FALSE
PROPERTIES ParkedRetained ImplementsOwnership
