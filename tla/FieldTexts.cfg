\* Files, patterns, operations, tables and mappings, with buffers of 8 characters.
SPECIFICATION TextsSpec
CONSTANTS
  Files <- AllFiles
  BufferLength = 8
  StringBufferSize = 24
  Delimiter = 44
  MaxRows = 4
  Patterns <- AllPatterns
  Operations <- AllOperations
  Formats <- AllFormats
  MaxOperations = 2
  Tables <- AllTables
  MappingLists <- AllMappings
  Pieces <- AllPieces
  MaxLexemes = 7
INVARIANTS
  LinesStandAlone
  FilesExplained
  OperationsByMeaning
  TextsReadBack
  PatternsExplained
CHECK_DEADLOCK FALSE
