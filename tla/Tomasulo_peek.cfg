CONSTANTS
  Reg = {1, 2}
  Traces <- QueueLong
  INSTR_QUEUE_SIZE = 10
  RESERV_INT_SIZE = 4
  RESERV_FP_SIZE = 2
  FU_INT_SIZE = 2
  FU_FP_SIZE = 1
  FU_INT_LATENCY = 4
  FU_FP_LATENCY = 9
  MaxCycle = 200
SPECIFICATION Spec
CHECK_DEADLOCK FALSE
INVARIANTS
  PeekInQueue
