CONSTANTS
  Program <- LoadOnly
  ADDR_SPACE = 48
  bsize = 2
  Configurations <- OpenEnded
  RPT_DEFAULT_SIZE = 2
  MISS_QUEUE_MAX_SIZE = 3
  nsets = 1
  assoc = 2
  NULL = NULL
  CACHE_HASH <- MCHash
SPECIFICATION Spec
INVARIANTS
  KeepsLatestMisses
