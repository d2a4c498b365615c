CONSTANTS
  Reg = {1, 2}
  Traces <- MixedTraces
  INSTR_QUEUE_SIZE = 2
  RESERV_INT_SIZE = 3
  RESERV_FP_SIZE = 1
  FU_INT_SIZE = 2
  FU_FP_SIZE = 1
  FU_INT_LATENCY = 1
  FU_FP_LATENCY = 3
  MaxCycle = 40
SPECIFICATION FairSpec
CHECK_DEADLOCK FALSE
INVARIANTS
  TypeOK
  TagsExact
  MapExact
  RAWResolved
  OldestFirst
  StationsHold
  QueueInOrder
PROPERTIES
  EntersOnce
  Terminates
  ImplementsDataflow
