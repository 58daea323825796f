\* Children of all manners, and every way out.
SPECIFICATION FairSpec
CONSTANTS
  PipeMax = 1
  NLines = 2
  Manners = {{}, {"eof"}, {"term"}, {"eof", "term"}, {"reads"}, {"reads", "eof"}, {"reads", "term"}, {"reads", "eof", "term"}}
  OwnCodes = {0, 3}
  OwnSignals = {11}
INVARIANTS
  VerdictIsTheUpstreams
  LadderInOrder
PROPERTIES
  NoRungAfterTheWait
  ReadersEndWithTheClient
