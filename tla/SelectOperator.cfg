\* Two rows, all conditions.
SPECIFICATION Spec
CONSTANTS
  Conditions <- AllConditions
  Inputs <- TwoRows
  Numerals <- StringsToNumbers
  Readings <- StringsToDates
  Printed <- ValuesToStrings
  Joined <- StringsJoined
INVARIANTS SelectsByMeaning FailuresExplained
