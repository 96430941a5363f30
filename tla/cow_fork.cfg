CONSTANTS
  Procs = {p1, p2, p3}
  NOPROC = NOPROC
  INITPROC = p1
  Frames = {f1, f2, f3}
  NOFRAME = NOFRAME
  NPAGES = 2
  Values = {z, v}
  ZERO = z
  JUNK = JUNK
SPECIFICATION Spec
SYMMETRY Alike
INVARIANTS CountsExact FramesSafe
PROPERTY CowPrivate
