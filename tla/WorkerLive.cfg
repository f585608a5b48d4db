SPECIFICATION Spec
CONSTANTS
  t1 = t1  t2 = t2  t3 = t3  a = a  b = b  c = c  d = d
  Exit = Exit  Owner = Owner  None = None
  Thread <- TwoThreads
  Item <- ThreeItems
  Level <- UsedLevels
  Faults <- NoFaults
CHECK_DEADLOCK FALSE
INVARIANTS NoSleepOnWork OpenWorkerIsServed
PROPERTIES ServesWorkQueue ReleasedIsFreed ThreadsLeave
