\* A client that sends a batch, an upstream that answers it with an array.
SPECIFICATION Spec
CONSTANTS
  MaxPending = 2
  NCalls = 1
  Ids = {i1}
  NoId = NoId
  BadId = BadId
  Kinds = {"tool"}
  Shapes = {"result"}
  ServerIds = {}
  ReusesIds = FALSE
  SendsBatches = TRUE
  StrayLines = FALSE
INVARIANTS
  NoMessageEndsThePump
