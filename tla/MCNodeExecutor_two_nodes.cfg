SPECIFICATION Spec
CONSTANTS
  coder = coder
  scribe = scribe
  code = code
  note = note
  dir = dir
  Nodes = {coder, scribe}
  Resources = {code, note, dir}
  Files = {code, note}
  Overlap <- MCOverlap
  Writes <- MCWrites
  Reads <- MCReads
  Required = {coder}
  CanWrite = {coder, scribe}
  Source = {code, dir}
  Unhashed = {}
  Large = {note}
  MaxSteps = 3
  MaxReads = 1
  MaxNodeTokens = 4
  MaxRunTokens = 3
  Costs = {1}
  MaxCalls = 1
  MaxAttempts = 1
  MaxVersion = 2
CHECK_DEADLOCK FALSE
INVARIANTS CacheKnowsBumps StrayFilesFail SurveyIsPristine ApplyCanWriteEverything
