\* The same program: a negative count.
SPECIFICATION Spec
CONSTANTS
  IntBits = 3
  JsonBits = 4
  Inputs <- MCInputs
  Numeral <- MCNumeral
  WordBits = 3
  MaxPoolSize = 6
  ThreadLimit = 4
INVARIANTS
  AcceptedCountIsPositive
