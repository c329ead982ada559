SPECIFICATION Spec
CONSTANTS
  User = {u1}
  MaxEvents = 3
  UnmuteDead = TRUE
  MayPause = TRUE
  MayFail = TRUE
INVARIANT
  NoDrift
PROPERTY
  OnlyOldBatchMutes
