\* Two calls that share an id, answers of two shapes, a batch, an upstream with
\* requests of its own and lines that are no message, fair threads.
SPECIFICATION FairSpec
CONSTANTS
  MaxPending = 1
  NCalls = 2
  Ids = {i1}
  NoId = NoId
  BadId = BadId
  Kinds = {"resource_list", "annotation", "other"}
  Shapes = {"error", "malformed"}
  ServerIds = {i1}
  ReusesIds = TRUE
  SendsBatches = TRUE
  StrayLines = TRUE
PROPERTIES
  CleanExitLeavesNothingOpen
  EveryStartCloses
  AnswersReachTheClient
