\* Two joins, with blocks for one and a half.
SPECIFICATION Spec
CONSTANTS
  Inputs <- AllInputs
  KeyColumn = 1
  Capacity = 11
  MaxActiveBlocks = 4
  MaxJoins = 2
INVARIANTS FaultsExplained BlocksGivenBack
PROPERTIES ImplementsEquiJoin JoinEnds
