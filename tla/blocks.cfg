CONSTANTS
  Procs = {p1, p2}
  NOPROC = NOPROC
  Files = {1, 2}
  Image <- MCImage
  Byte <- MCByte
  NMETA = 1
  FSSIZE = 9
  NDIRECT = 1
  NINDIRECT = 3
  BSIZE = 2
  MAXOPBLOCKS = 6
  Writes = {7}
SPECIFICATION Spec
SYMMETRY Alike
INVARIANTS
  BlocksExact
  FilesKept
  WriteFits
CHECK_DEADLOCK FALSE
