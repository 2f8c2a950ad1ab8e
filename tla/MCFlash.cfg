SPECIFICATION FlashSpec
CONSTANTS
  HalfSize = 8
  Sectors = 2
  Chunk = 2
  Names = {1, 2}
  Datas <- MCDatas
  MaxSize = 3
  MaxIno = 3
  MaxCalls = 5
  TearAppends = FALSE
  SlotSectors = 2
  Versions = {1}
  MaxSeq = 5
INVARIANTS EspFsInv BootSlotSafe MarkedAsReceived
PROPERTIES StoreSpec ActiveImageKept RollbackReturns
