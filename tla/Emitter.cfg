\* Two pumps, three events, a queue of two, two sinks of which one is a file, a stop
\* at any moment; a drain thread that may hang for ever.
SPECIFICATION FairSpec
CONSTANTS
  Producers = {tin, tout}
  NEvents = 3
  QueueMax = 2
  NSinks = 2
  Files = {2}
  Sentinel = Sentinel
INVARIANTS
  NoEventTwice
  OverflowDropsTheOldest
  CleanStopFlushes
  SinksAreIsolated
PROPERTIES
  DeliversInOrder
  ProducersNeverBlock
  StopReturns
CHECK_DEADLOCK FALSE
