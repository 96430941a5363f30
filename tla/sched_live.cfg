CONSTANTS
  NPROC = 2
  PLEVELS = 2
  NCPU = 1
  QUANTUM = 2
  AGINGSTEP = 1
  AGELIMIT = 2
  DEFAULTPLEVEL = 0
  TICKS = TICKS
  Chans = {TICKS}
SPECIFICATION FairSpec
PROPERTIES NoStarvation
CHECK_DEADLOCK FALSE
