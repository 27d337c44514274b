CONSTANTS
  h1 = h1
  h2 = h2
  i1 = i1
  i2 = i2
  NoHandle = NoHandle
  NoIntent = NoIntent
  Handles = {h1, h2}
  Intents = {i1, i2}
  MaxDepth = 2
  MaxLosses = 1
  MaxTraffic = 2
SPECIFICATION Spec
SYMMETRY Symmetry
INVARIANTS TypeOK PlaceKept AnswerUnderWay BadRequestIsFinal
PROPERTY ContractKept
CHECK_DEADLOCK FALSE
