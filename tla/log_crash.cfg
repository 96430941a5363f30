CONSTANTS
  Procs = {p1, p2}
  Blocks = {b1, b2}
  Values = {v1, v2}
  NOBUF = NOBUF
  AFTERLOG = b1
  MAXOPBLOCKS = 2
  LOGSIZE = 4
  SIZE = 4
SPECIFICATION FairSpec
INVARIANT IInv
PROPERTIES CrashAtomic SleeperWoken
