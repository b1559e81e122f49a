SPECIFICATION Spec
CONSTANTS
  Kinds = {"disk", "slow", "odd", "hub", "greedy", "pet"}
  MaxPlugs = 2
  Short = 1
  Env = {}
INVARIANTS SpeaksInTurn DiskNotRefused
PROPERTIES ServedOrRefused RequestEnds
