SPECIFICATION FairSpec
CONSTANTS
  Command = {p, q, r}
  Greeting = {}
  Worker = {w1}
  Code = {c1}
  NoCode = NoCode
  Text = {t}
  Voice = {v}
  None = None
  NoRecord = NoRecord
  Ops = {"new", "end"}
  MayTimeOut = FALSE
  MaxNew = 1
  MaxRestarts = 0
CHECK_DEADLOCK FALSE
PROPERTY
  StopUnmutes
