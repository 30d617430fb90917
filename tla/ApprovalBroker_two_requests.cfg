SPECIFICATION FairSpec
CONSTANTS
  Clients = {c1, c2}
  Requests = {r1, r2}
  NoRequest = NoRequest
  MaxAttaches = 3
CHECK_DEADLOCK FALSE
PROPERTIES ImplementsDecision EveryRequestIsDecided
