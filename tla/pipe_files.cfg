CONSTANTS
  Procs = {p1, p2}
  NOPROC = NOPROC
  NFILE = 3
  NOFILE = 2
  Pipes = {i1}
  PIPESIZE = 2
  UINTS = 4
  a = a
  b = b
  Bytes = {a, b}
  Writes <- MCWrites
  Reads = {2}
SPECIFICATION Spec
SYMMETRY Alike
INVARIANTS CountsExact NotFreedInUse NoLostWakeup
PROPERTY StreamInOrder
CHECK_DEADLOCK FALSE
