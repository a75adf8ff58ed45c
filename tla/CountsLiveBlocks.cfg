SPECIFICATION Spec
CONSTANTS
  Threads = {reader, query}
  MaxActiveBlocks = 3
  WordSize = 8
  MaxCalls = 3
INVARIANT CountsLiveBlocks
CHECK_DEADLOCK FALSE
