SPECIFICATION SafeSpec
CONSTANTS
  l1 = l1  l2 = l2  l3 = l3  i1 = i1  i2 = i2  q1 = q1  q2 = q2  q3 = q3  q4 = q4
  None = None
  Locker <- OneLocker
  Initializer <- OneInitializer
  InitializerFirst = FALSE
  CreateMayFail = FALSE
  Queue <- TwoQueues
CHECK_DEADLOCK FALSE
INVARIANTS UserFindsQueues
