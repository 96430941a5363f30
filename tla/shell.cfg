SPECIFICATION FairSpec
CONSTANTS
  NPROC = 6
  NOFILE = 5
  MAXARGS = 3
  LENGTH = 3
  Scripts <- MCScripts
INVARIANTS
  ParsesGrammar
  Plumbed
  Foreground
PROPERTIES
  Prompts
CHECK_DEADLOCK FALSE
