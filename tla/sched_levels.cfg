CONSTANTS
  NPROC = 3
  PLEVELS = 2
  NCPU = 1
  QUANTUM = 1
  AGINGSTEP = 1
  AGELIMIT = 1
  DEFAULTPLEVEL = 0
  TICKS = TICKS
  Chans = {TICKS}
SPECIFICATION Spec
INVARIANTS QueueInv
PROPERTY ServesFifo
CHECK_DEADLOCK FALSE
