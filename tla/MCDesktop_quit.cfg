SPECIFICATION Spec
CONSTANTS
  Daemons = {d1, d2, d3}
  Windows = {x}
  Builds = {"old", "new"}
  Nobody = Nobody
  BuildOf <- MCBuildOf
  MaxOpens = 2
  MaxCrashes = 1
  MaxLaunches = 2
  MaxAttempts = 2
PROPERTY ClosingSparesRuns
CHECK_DEADLOCK FALSE
