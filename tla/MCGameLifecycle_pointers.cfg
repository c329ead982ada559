SPECIFICATION Spec
CONSTANTS
  Command = {p, q}
  Greeting = {}
  Worker = {w1}
  Code = {c1}
  NoCode = NoCode
  Text = {t}
  Voice = {v}
  None = None
  NoRecord = NoRecord
  Ops = {"new", "end"}
  MayTimeOut = TRUE
  MaxNew = 1
  MaxRestarts = 0
CHECK_DEADLOCK FALSE
INVARIANT
  NoDanglingPointer
