CONSTANTS
  Procs = {p1, p2}
  NOPROC = NOPROC
  NBUF = 2
  Blocks = {k1, k2, k3}
  NOBLK = NOBLK
  Values = {v0, v1}
  ZERO = v0
  MAXPIN = 1
SPECIFICATION FairSpec
INVARIANTS OneBuffer NoLostWakeup Coherent
PROPERTIES KeepsBlocks RequestDone
