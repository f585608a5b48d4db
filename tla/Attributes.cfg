SPECIFICATION Spec
CONSTANTS
  t1 = t1  t2 = t2  s1 = s1  s2 = s2
  Thread = {t1, t2}
  Store = {s1, s2}
  Self <- Selves
  Given <- SixItems
  Received <- OneBuffer
  MaxCalls = 2
  MaxRank = 1
CHECK_DEADLOCK FALSE
INVARIANTS NamesUnique SavedStoreLoads SourceStable SomeoneGoesOn
