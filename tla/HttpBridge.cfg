\* Two requests, handshake or not, and everything a POST may bring back, requests of
\* the upstream's own under one of the two ids among it.
SPECIFICATION FairSpec
CONSTANTS
  MaxPending = 2
  NCalls = 2
  Ids = {i1, i2}
  NoId = NoId
  BadId = BadId
  Kinds = {"tool_list", "resource_list", "annotation"}
  Shapes = {"error", "malformed"}
  MaxMessages = 2
  ServerIds = {i1}
  KeepsAlive = TRUE
INVARIANTS
  LoopClosesEveryCall
  EveryRequestIsAnswered
  RepliesAreConsistent
  EventsAgreeWithReplies
PROPERTIES
  ImplementsLedger
  QuietStreamsEnd
