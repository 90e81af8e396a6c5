SPECIFICATION Spec
CONSTANTS
  Actors = {a0}
  Frames = 4
  MAX_ORDER = 3
  MigrateTypes = {"unmovable"}
  BootBlocks <- MCBootBlocks
  PcpHigh = 2
  PcpBatch = 2
  MaxCount = 1
  UlongSize = 8
INVARIANT FreedBlocksPassCheck
CHECK_DEADLOCK FALSE
