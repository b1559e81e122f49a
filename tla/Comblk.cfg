SPECIFICATION Spec
CONSTANTS
  Requests <- MCRequests
  Fifo = 3
  RxFifo = 3
  Page = 2
  Hazards = {"ABORT", "OVERSIZED", "DIGEST", "EVENT", "REFUSAL", "LATE_ISR"}
INVARIANTS AnswerIsOwn EndsWhole
