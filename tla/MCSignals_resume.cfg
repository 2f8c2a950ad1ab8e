SPECIFICATION SigSpec
CONSTANTS
  LastPc = 2
  Sigs = {10}
PROPERTY ResumesWhereInterrupted
CHECK_DEADLOCK FALSE
