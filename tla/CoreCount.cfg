SPECIFICATION SafeSpec
CONSTANTS
  l1 = l1  l2 = l2  l3 = l3  i1 = i1  i2 = i2  q1 = q1  q2 = q2  q3 = q3  q4 = q4
  None = None
  Locker <- ThreeLockers
  Initializer <- OneInitializer
  InitializerFirst = TRUE
  CreateMayFail = TRUE
  Queue <- FourQueues
SYMMETRY QueueSymmetry
CHECK_DEADLOCK FALSE
INVARIANTS CountIsUsers LastUserDestroys UserNeverUsesFreed
