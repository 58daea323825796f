\* A client that never reuses an id, an upstream that numbers its own requests from the same range.
SPECIFICATION Spec
CONSTANTS
  MaxPending = 2
  NCalls = 1
  Ids = {i1}
  NoId = NoId
  BadId = BadId
  Kinds = {"tool"}
  Shapes = {"result"}
  ServerIds = {i1}
  ReusesIds = FALSE
  SendsBatches = FALSE
  StrayLines = FALSE
INVARIANTS
  EndsAnswerTheirCall
