SPECIFICATION Spec
CONSTANTS
  Functions <- MCFunctions
  Database <- MCDatabase
  Statements <- MCStatements
  Conditions <- MCConditions
INVARIANTS
  TreeByPrecedence
  ReadBackExplained
  PrintedQueryExplained
  NamesMeanColumns
  EveryClausePlanned
