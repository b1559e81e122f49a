SPECIFICATION Spec
CONSTANTS
  Depth = 4
  InFlight = 2
  Wrap = 16
  TxSizes = {0, 2, 3}
  RxSize = 2
  CmdSize = 1
  RespSize = 3
  Blocks <- MCBlocks
  DmaSizes = {5}
  MaxTrans = 2
  MaxFrames = 6
  Env = {}
  None = None
INVARIANTS PacketIsWhole ReadIsRight InTransit
CHECK_DEADLOCK FALSE
