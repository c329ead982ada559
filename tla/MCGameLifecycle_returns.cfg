SPECIFICATION FairSpec
CONSTANTS
  Command = {p, q}
  Greeting = {}
  Worker = {w1, w2}
  Code = {c1, c2}
  NoCode = NoCode
  Text = {t}
  Voice = {v}
  None = None
  NoRecord = NoRecord
  Ops = {"new", "end", "touch", "refresh"}
  MayTimeOut = TRUE
  MaxNew = 2
  MaxRestarts = 0
CHECK_DEADLOCK FALSE
PROPERTY
  CommandsReturn
