SPECIFICATION Spec
CONSTANTS
  w1 = w1  w2 = w2  w3 = w3  w4 = w4  a = a  b = b  c = c  d = d
  None = None
  Item <- FourItems
  Level <- Fifo
  Worker <- FourWorkers
  Request <- AnyRequest
  CpuCount = 1
  Faults <- AnyFault
CHECK_DEADLOCK FALSE
INVARIANTS  EachItemOnce LeastLoaded GrowsAsAllowed NothingStranded
PROPERTIES SerialImplementsWorkQueue AcceptedIsExecuted
