CONSTANTS
  Procs = {p1, p2}
  NOPROC = NOPROC
  NINODES = 3
  p1 = p1
  p2 = p2
  Does <- MCDoes
  x = x
  y = y
  Names = {x, y}
  MAXLINK = 2
SPECIFICATION Spec
INVARIANTS
  CountsExact
  NotFreedInUse
  NoPanic
  
CONSTRAINT NotAstray
CHECK_DEADLOCK FALSE
