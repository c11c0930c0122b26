\* Texts of at most six characters, and all strings over the bytes at the ends of
\* the ranges; integers of four bits, so that 11 is the largest one that is not
\* negative and has only these digits.
SPECIFICATION LexerSpec
CONSTANTS
  MaxLength = 6
  JsonBits = 4
  Bytes <- MCBytes
  HexBytes <- MCHexBytes
  EOF = EOF
INVARIANTS
  EveryCharacterCounts
  ScansExactlyJson
  StringsAreExact
