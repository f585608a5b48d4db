SPECIFICATION SafeSpec
CONSTANTS
  t1 = t1  t2 = t2  t3 = t3  a = a  b = b  c = c  d = d
  Exit = Exit  Owner = Owner  None = None
  Thread <- TwoThreads
  Item <- TwoItems
  Level <- Fifo
  Faults <- NoFaults
CHECK_DEADLOCK FALSE
INVARIANTS RetainFindsWorkerAlive
