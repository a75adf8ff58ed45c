\* Deadlock is not checked: the bounds stop callers and program, and so does
\* undefined behaviour.
SPECIFICATION MCSpec
CONSTANTS
  Threads = {reader, query}
  MaxActiveBlocks = 2
  WordSize = 8
  MaxCalls = 6
  Callers = {c1, c2}
  PoolSize = 2
  MaxTasks = 1
  MaxStarts = 2
  Handlers = {h1, h2}
  Signals = {int, term}
  INT = int
  MaxRegistrations = 2
  MaxSignals = 2
INVARIANTS PoolExplained HandlersExplained
PROPERTIES ImplementsBlockManager ThreadsEnd
CHECK_DEADLOCK FALSE
