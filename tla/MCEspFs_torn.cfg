SPECIFICATION Spec
CONSTANTS
  HalfSize = 8
  Sectors = 2
  Chunk = 2
  Names = {1, 2}
  Datas <- MCDatas
  MaxSize = 3
  MaxIno = 3
  MaxCalls = 5
  TearAppends = TRUE
INVARIANT MountedIsDurable
