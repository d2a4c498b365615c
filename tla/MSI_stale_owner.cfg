CONSTANTS
  c1 = c1
  c2 = c2
  c3 = c3
  d1 = d1
  x = x
  y = y
  z = z
  None = None
  Cache = {c1, c2, c3}
  Dir = {d1}
  DirOf <- OneDir
  Addr = {x, y}
  Workload <- WriterReturns
  MaxOutstanding = 1
  Assoc = 1
  Value = {0}
  Merge <- MCMerge
  InitialBlk <- MCInitialBlk
  MaxDATA = 1
  MaxWBAcks = 1
SPECIFICATION Spec
CHECK_DEADLOCK FALSE
INVARIANTS
  SWMR
