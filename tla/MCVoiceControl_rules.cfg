SPECIFICATION Spec
CONSTANTS
  User = {u1, u2}
  MaxEvents = 1
  UnmuteDead = FALSE
  MayPause = FALSE
  MayFail = FALSE
INVARIANTS
  TypeOK
  RulesApplied
PROPERTY
  DeadStayUnheard
SYMMETRY
  UsersAlike
