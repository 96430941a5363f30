SPECIFICATION Spec

CONSTANTS
  Cpus = {c0, c1}
  c0 = c0
  c1 = c1
  NOCPU = none
  CPU0 = c0
  Ops <- MCOps
  Chars = {"a", "nl", "D", "U", "H", "P"}
  INPUT_BUF = 2
  UINTS = 4
  READ = 2
  NTICKS = 2

INVARIANTS
  CliMatches
  InputKept
  NoLostWakeup

PROPERTIES
  SleepsEnough
