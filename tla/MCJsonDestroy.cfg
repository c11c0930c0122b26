\* All sequences of four tokens, JSON texts with at most one mistake, and some that
\* are nested deeper.
SPECIFICATION Spec
CONSTANTS
  Inputs <- MCInputs
  Strings <- MCStrings
  Scalars <- MCScalars
INVARIANTS
  ParsesExactlyJson
  StacksAgree
  DestructionIsSafe
