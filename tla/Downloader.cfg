SPECIFICATION FairSpec
CONSTANTS
  w1 = w1
  Worker = {w1}
  NULL = NULL
  NoBuffer = NoBuffer
  Curle = {"OK", "CONNECT_FAIL"}
  Setting <- TwoSettings
  MaxTasks = 2
  MaxParts = 1
  MaxBody = 2
  MaxHead = 1
CHECK_DEADLOCK FALSE
INVARIANTS ReportIsOwn FailureIsTold RequestIsOwn NoTaskLost
PROPERTY EachTaskReported
