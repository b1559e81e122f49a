SPECIFICATION Spec
CONSTANTS
  Builds <- MCBuilds
  Requests <- MCRequests
  MaxPkt = 64
  MaxBus = 2
  MaxAborts = 1
  Overlap = {}
INVARIANTS AnswerIsRight ReadyForSetup StateInStep
PROPERTY TransferEnds
CHECK_DEADLOCK FALSE
