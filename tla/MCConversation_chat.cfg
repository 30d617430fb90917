SPECIFICATION Spec
CONSTANTS
  Pieces = 2
  NoArgs = NoArgs
  Turns = {t1, t2}
  Replies <- SmallReplies
  Allowed = {"read"}
  Salvageable <- Prose
  MaxRounds = 2
  Keep = 5
  MaxTokens = 2
  MaxCalling = 2
  MaxCrashes = 1
CHECK_DEADLOCK FALSE
INVARIANTS RequestsAreWellFormed CallsSentAreAnswered CallsAreAsSaid
