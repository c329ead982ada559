SPECIFICATION Spec
CONSTANTS
  Command = {p, q, r}
  Greeting = {}
  Worker = {w1, w2}
  Code = {c1, c2}
  NoCode = NoCode
  Text = {t}
  Voice = {v}
  None = None
  NoRecord = NoRecord
  Ops = {"new", "end", "touch"}
  MayTimeOut = TRUE
  MaxNew = 2
  MaxRestarts = 0
CHECK_DEADLOCK FALSE
SYMMETRY CommandsAlike
INVARIANTS
  TypeOK
  ServedGameFound
  EndedGameStaysEnded
  ShownGameActive
