\* Ints of three bits, JSON integers of four, words of three; a pool of up to six
\* threads, of which the system grants four.
SPECIFICATION Spec
CONSTANTS
  IntBits = 3
  JsonBits = 4
  Inputs <- MCInputs
  Numeral <- MCNumeral
  WordBits = 3
  MaxPoolSize = 6
  ThreadLimit = 4
INVARIANTS
  LoadedTasksAreUsable
  LoadsExactlyTheFile
  ArgumentsFollowUsage
  NoTraceOfBadInput
