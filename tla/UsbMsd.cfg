SPECIFICATION Spec
CONSTANTS
  Blocks = 3
  Commands <- MCCommands
  MaxCmds = 4
  Chunks = {0, 1, 2, 3}
  Env = {}
  None = None
INVARIANTS ResidueIsSafe NeverLeftWaiting
PROPERTY ImplementsBlockDevice
CHECK_DEADLOCK FALSE
