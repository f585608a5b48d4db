SPECIFICATION FairSpec
CONSTANTS
  a = a  b = b
  Abort = Abort
  Event <- TwoEvents
  Delay <- Delays
  Cap = 1
  INT64_MAX = 9
  IdRange = 4
  MaxClock = 2
  MaxStarts = 2
CHECK_DEADLOCK FALSE
INVARIANTS NeverOversleeps FlushExecutesTimed FirstStartIsServed
PROPERTIES ImplementsContract DroppedOnlyByShutdown EventLeaves ShutdownReturns
