SPECIFICATION OtaSpec
CONSTANTS
  SlotSectors = 2
  Versions = {1}
  MaxSeq = 5
PROPERTY RunningImageKept
