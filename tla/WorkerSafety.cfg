SPECIFICATION SafeSpec
CONSTANTS
  t1 = t1  t2 = t2  t3 = t3  a = a  b = b  c = c  d = d
  Exit = Exit  Owner = Owner  None = None
  Thread <- TwoThreads
  Item <- FourItems
  Level <- AllLevels
  Faults <- AllFaults
CHECK_DEADLOCK FALSE
INVARIANTS SingleThread LoopFindsWorkerAlive
PROPERTIES ImplementsWorkQueue
