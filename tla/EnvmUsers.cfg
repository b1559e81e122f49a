SPECIFICATION USpec
CONSTANTS
  Requests <- MCRequests
  Services <- MCServices
  Fifo = 6
  RxFifo = 2
  Page = 3
  Hazards = {"ABORT", "CONFUSABLE", "OVERSIZED", "DIGEST", "EVENT"}
  Devices = {"F805", "F807"}
  Protections <- MCProtections
  NvmCalls <- MCCalls
INVARIANTS EnvmLeftAsFound WritesWhatWasAsked CommandsAreSafe
PROPERTY ImplementsServiceCall
