SPECIFICATION Spec
CONSTANTS
  MaxDevs = 1
  MaxInsts = 1
  PerDev = 1
  Slaves = {0}
  Slave = 0
  Chunks = 3
  MaxImages = 2
  Others = {"o"}
  Accesses <- MCAccesses
  Env = {}
INVARIANTS LayersAgree NothingLeaks UnderstoodAsMeant FirmwareIsWhole
