CONSTANTS
  Program <- LoadAndStore
  ADDR_SPACE = 48
  bsize = 2
  Configurations <- AllConfigurations
  RPT_DEFAULT_SIZE = 2
  MISS_QUEUE_MAX_SIZE = 2
  nsets = 2
  assoc = 2
  NULL = NULL
  CACHE_HASH <- MCHash
SPECIFICATION Spec
INVARIANTS
  TypeOK
  FastHitSound
  OneCopy
  HashChains
  DirtyKept
  ValidFirst
  LRUOrder
  AccessSurvives
  StrideIsLast
