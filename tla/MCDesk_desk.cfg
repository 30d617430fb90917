SPECIFICATION DeskSpec
CONSTANTS
  Objects = {p, q}
  Ids <- Instants
  Nothing = Nothing
  MaxStarts = 5
  Windows = {w1, w2}
  Chats = {c}
  MaxRounds = 2
  MaxClicks = 5
  MaxLost = 1
  MaxQueued = 1
  MaxUnderWay = 1
SYMMETRY Alike
CHECK_DEADLOCK FALSE
INVARIANTS OneExecutionAtATime WindowsShowTheStream CallsAreInHand
PROPERTY RejectedNeverRuns
