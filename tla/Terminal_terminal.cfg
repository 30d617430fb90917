SPECIFICATION Spec
CONSTANTS
  Turns = {t1, t2}
  Nodes = {n1, n2}
  Short = {t2}
  ShortPlan = {n1}
  Nothing = Nothing
CHECK_DEADLOCK FALSE
INVARIANT NothingRunsUnapproved
PROPERTIES EscStopsTheRun EveryTurnEnds
