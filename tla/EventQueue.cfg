SPECIFICATION Spec
CONSTANTS
  c1 = c1  c2 = c2  a = a  b = b  c = c
  Exec = Exec
  Consumer <- TwoConsumers
  Event <- ThreeEvents
CHECK_DEADLOCK FALSE
INVARIANTS EventsInOrder NoSleepOnEvents ReaderFindsEvent
PROPERTIES RequestIsAnswered ShutdownReleasesReader
