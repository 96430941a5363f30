CONSTANTS
  Procs = {p1, p2, p3}
  INITPROC = p1
  NOPROC = NOPROC
  SYSMAXSEM = 2
  PROCMAXSEM = 2
  MAXVALUE = 1
  MAXREFS = 3
SPECIFICATION FairSpec
INVARIANTS AttachedCounted NoLostWakeup 
PROPERTY SleeperServed
