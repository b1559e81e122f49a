SPECIFICATION LiveSpec
CONSTANTS
  MaxLen = 1
  SlaveRxSize = 1
  SlaveTxSize = 1
  OffsetLen = 1
  SlaveBytes = {0, 1, 2}
  Wrap = 65536
  Hazards = {"LOST_ARB", "SLV_LA", "SLV_RST", "BUS_ERROR"}
PROPERTY RequestEnds
