SPECIFICATION Spec
CONSTANTS
  User = {u1}
  MaxEvents = 3
  UnmuteDead = TRUE
  MayPause = TRUE
  MayFail = TRUE
PROPERTY
  NoMuteWhilePaused
