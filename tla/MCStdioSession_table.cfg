\* Three calls and a table of two: overflow, reuse, answers and shutdown race.
SPECIFICATION Spec
CONSTANTS
  MaxPending = 2
  NCalls = 3
  Ids = {i1, i2, i3}
  NoId = NoId
  BadId = BadId
  Kinds = {"tool"}
  Shapes = {"result"}
  ServerIds = {}
  ReusesIds = TRUE
  SendsBatches = FALSE
  StrayLines = FALSE
SYMMETRY IdSymmetry
INVARIANTS
  TypeOK
  OneKeeper
  OneTerminalPerCall
  AnswersMeetTheirCall
  AnswerNeverClosesAnOlderCall
PROPERTIES
  EvictsTheOldest
  ImplementsLedger
