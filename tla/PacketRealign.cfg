CONSTANTS
  Chunks <- MCChunks
  MaxChunks = 4
  WordMod = 65536
SPECIFICATION Spec
INVARIANTS TypeOK PacketsAreFrames ModulePacketsAreFrames
CHECK_DEADLOCK FALSE
