SPECIFICATION GateSpec
CONSTANTS
  coder = coder
  code = code
  note = note
  dir = dir
  Nodes = {coder}
  Resources = {code, note, dir}
  Files = {code, note}
  Overlap <- MCOverlap
  Writes <- MCWrites
  Reads <- MCReads
  Required = {coder}
  CanWrite = {coder}
  Source = {code, dir}
  Unhashed = {}
  Large = {}
  MaxSteps = 5
  MaxReads = 1
  MaxNodeTokens = 2
  MaxRunTokens = 9
  Costs = {1}
  MaxCalls = 2
  MaxAttempts = 1
  MaxVersion = 1
  CompactAt = 1
  KeepRecent = 3
  oldLine = oldLine
  newLine = newLine
  Lines = {oldLine, newLine}
  Scripts <- MCScripts
  Surveyed <- MCSurveyed
CHECK_DEADLOCK FALSE
INVARIANTS ReadingIsForced RequestsBind FreshResultsAreWhole NewFailuresDecide
PROPERTY CallsEnd
