\* Every statement, with six blocks of 11 bytes.
SPECIFICATION Spec
CONSTANTS
  Statements <- AllStatements
  Capacity = 11
  MaxActiveBlocks = 6
  FunctionSize = 3
INVARIANTS
  RowsExplained
  BlocksExplained
  AggregatesExplained
