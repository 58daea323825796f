\* A child that does not read its stdin: pump, child and main thread wait on each other.
SPECIFICATION FairSpec
CONSTANTS
  PipeMax = 1
  NLines = 2
  Manners = {{"eof", "term"}}
  OwnCodes = {}
  OwnSignals = {}
PROPERTIES
  ClientGoneEndsTheSession
CHECK_DEADLOCK FALSE
