SPECIFICATION FairSpec
CONSTANTS
  m1 = m1
  m2 = m2
  Models = {m1, m2}
  Sessions = {s1, s2}
  Segments <- Names
  Writers = {"coder", "tester"}
  MaxWrites = 3
  ProviderOf <- Listers
  Advertised <- Claims
  Threshold = 2
  Cooldown = 1
  CacheLife = 1
  MaxAttempts = 3
  Depths <- Needles
  Trials = 3
  Dags <- Answers
  MaxRepairs = 1
  MaxFixes = 1
  Abilities <- Able
  Files <- Tree
  MaxProbes = 1
  MaxTime = 1
CHECK_DEADLOCK FALSE
INVARIANTS AcceptedPlanCanFinish WritersAreOrdered CacheIsMeasured OpenBreakerIsRespected
PROPERTY PlanningEnds
