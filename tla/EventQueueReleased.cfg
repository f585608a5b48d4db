SPECIFICATION SafeSpec
CONSTANTS
  c1 = c1  c2 = c2  a = a  b = b  c = c
  Exec = Exec
  Consumer <- OneConsumer
  Event <- OneEvent
CHECK_DEADLOCK FALSE
INVARIANTS TakeFindsQueueAlive
