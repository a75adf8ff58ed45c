\* Two scans that run out of blocks.
SPECIFICATION Spec
CONSTANTS
  Files <- TightFiles
  NumColumns = 2
  Capacity = 11
  MaxActiveBlocks = 3
  MaxScans = 2
INVARIANTS RowsBeforeLimit ManagerAccounting
