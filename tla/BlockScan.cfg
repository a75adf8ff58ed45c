\* Two scans with enough blocks.
SPECIFICATION Spec
CONSTANTS
  Files <- WideFiles
  NumColumns = 3
  Capacity = 11
  MaxActiveBlocks = 14
  MaxScans = 2
INVARIANTS
  OneOwner NothingLost QueueEndsWithMarkers NoStrayAccess
  FaultsExplained
PROPERTIES ImplementsRowStream HandedOverIsFinal ScanEnds
