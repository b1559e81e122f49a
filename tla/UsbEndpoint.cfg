SPECIFICATION BusSpec
CONSTANTS
  Configs <- MCConfigs
  MaxPkt = 2
  MaxLen = 7
  Transfers = 3
  Env = {}
  NakLimit = 32768
INVARIANTS TransferIsWhole EndsAsConfigured
PROPERTY TransferEnds
CHECK_DEADLOCK FALSE
