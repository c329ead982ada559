SPECIFICATION FairSpec
CONSTANTS
  Command = {p, q}
  Greeting = {g}
  Worker = {w1, w2}
  Code = {c1}
  NoCode = NoCode
  Text = {t}
  Voice = {v}
  None = None
  NoRecord = NoRecord
  Ops = {"new", "end"}
  MayTimeOut = TRUE
  MaxNew = 1
  MaxRestarts = 1
CHECK_DEADLOCK FALSE
INVARIANTS
  OneWorkerPerGame
PROPERTY
  ShownGameServed
