CONSTANTS
  NPROC = 3
  PLEVELS = 1
  NCPU = 2
  QUANTUM = 1
  AGINGSTEP = 1
  AGELIMIT = 1
  DEFAULTPLEVEL = 0
  TICKS = TICKS
  Chans = {TICKS}
SPECIFICATION Spec
INVARIANTS CpuInv NoMissedExit ParentAlive
CHECK_DEADLOCK FALSE
