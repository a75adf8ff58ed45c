\* Two joins, with blocks for one and a half.
SPECIFICATION Spec
CONSTANTS
  Inputs <- AllInputs
  Capacity = 11
  MaxActiveBlocks = 4
  MaxJoins = 2
INVARIANTS FailuresExplained BlocksGivenBack
PROPERTY ImplementsCrossProduct
