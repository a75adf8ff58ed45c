SPECIFICATION Spec
CONSTANTS
  Files <- SoundFiles
  NumColumns = 2
  Capacity = 11
  MaxActiveBlocks = 8
  MaxScans = 1
INVARIANT AbandonedScanIsSafe
