----------------------------- MODULE JsonString -----------------------------
(***************************************************************************)
(* lexer::scan_string of src/include/nlohmann/json.hpp: the bytes between  *)
(* two quotes into the bytes of token_buffer.  Raw UTF-8 is checked byte   *)
(* by byte against ranges, a \u escape (or two of them, for a surrogate    *)
(* pair) is turned into UTF-8.                                             *)
(*                                                                         *)
(* The bytes of one character are remembered until the next one begins, so *)
(* a string may be as long as it likes.                                    *)
(***************************************************************************)
EXTENDS Integers, Sequences, SequencesExt

CONSTANTS Bytes,      \* the bytes that a string may contain
          HexBytes,   \* the bytes that may follow \u, digits and others
          EOF

ASSUME JsonStringAssumption ==
  /\ Bytes \cup HexBytes \subseteq 0 .. 255
  /\ EOF \notin 0 .. 255

VARIABLES
  string_pc,   \* where scan_string is
  source,      \* the bytes of the character that is being read
  added,       \* what they have added to token_buffer
  ranges,      \* the ranges next_byte_in_range has still to check
  codepoint1,  \* the value of the first \u escape
  digits       \* the hexadecimal digits of the escape that is being read

stringVars == <<string_pc, source, added, ranges, codepoint1, digits>>

Quote == 34
Backslash == 92

\* What scan_string starts from; its reset() clears token_buffer.
StringInit ==
  /\ string_pc = "character"
  /\ source = <<>> /\ added = <<>> /\ ranges = <<>>
  /\ codepoint1 = 0 /\ digits = <<>>

StringReset ==
  /\ string_pc' = "character"
  /\ source' = <<>> /\ added' = <<>> /\ ranges' = <<>>
  /\ codepoint1' = 0 /\ digits' = <<>>

\* The byte c is read; where scanning goes on.
After(c, where) ==
  /\ source' = IF string_pc = "character" THEN <<c>> ELSE Append(source, c)
  /\ string_pc' = where

-----------------------------------------------------------------------------
\* The ranges of the bytes that follow the first byte of a raw character.
Continuation == <<128, 191>>

\* A mistake to detect: the second byte after 0xED is not restricted.
SurrogatesPass(c) == <<Continuation, Continuation>>

AfterED(c) == <<<<128, 159>>, Continuation>>

RangesAfter(c) ==
  CASE c \in 194 .. 223 -> <<Continuation>>
    [] c = 224 -> <<<<160, 191>>, Continuation>>
    [] c \in 225 .. 236 \cup {238, 239} -> <<Continuation, Continuation>>
    [] c = 237 -> AfterED(c)
    [] c = 240 -> <<<<144, 191>>, Continuation, Continuation>>
    [] c \in 241 .. 243 -> <<Continuation, Continuation, Continuation>>
    [] c = 244 -> <<<<128, 143>>, Continuation, Continuation>>

\* The first byte of a character.
CloseQuote(c) ==
  /\ c = Quote
  /\ After(c, "string")
  /\ added' = <<>>
  /\ UNCHANGED <<ranges, codepoint1, digits>>

AsciiByte(c) ==
  /\ c \in 32 .. 127 \ {Quote, Backslash}
  /\ After(c, "character")
  /\ added' = <<c>>
  /\ UNCHANGED <<ranges, codepoint1, digits>>

LeadingByte(c) ==
  /\ c \in 194 .. 244
  /\ After(c, "continuation")
  /\ added' = <<c>>
  /\ ranges' = RangesAfter(c)
  /\ UNCHANGED <<codepoint1, digits>>

BeginEscape(c) ==
  /\ c = Backslash
  /\ After(c, "escape")
  /\ added' = <<>>
  /\ UNCHANGED <<ranges, codepoint1, digits>>

\* Control characters, and bytes that begin no UTF-8 sequence.
BadByte(c) ==
  /\ c = EOF \/ c \in 0 .. 31 \cup 128 .. 193 \cup 245 .. 255
  /\ After(c, "error")
  /\ added' = <<>>
  /\ UNCHANGED <<ranges, codepoint1, digits>>

BeginCharacter(c) ==
  /\ string_pc = "character"
  /\ CloseQuote(c) \/ AsciiByte(c) \/ LeadingByte(c) \/ BeginEscape(c) \/ BadByte(c)

\* One turn of the loop of next_byte_in_range.
next_byte_in_range(c) ==
  /\ string_pc = "continuation"
  /\ UNCHANGED <<codepoint1, digits>>
  /\ IF c # EOF /\ c \in Head(ranges)[1] .. Head(ranges)[2]
       THEN /\ added' = Append(added, c)
            /\ ranges' = Tail(ranges)
            /\ After(c, IF Len(ranges) = 1 THEN "character" ELSE "continuation")
       ELSE After(c, "error") /\ UNCHANGED <<added, ranges>>

-----------------------------------------------------------------------------
\* The character after a backslash, and what it stands for.
Simple(c) ==
  CASE c = 34 -> 34 [] c = 92 -> 92 [] c = 47 -> 47   \* " \ /
    [] c = 98 -> 8 [] c = 102 -> 12 [] c = 110 -> 10  \* b f n
    [] c = 114 -> 13 [] c = 116 -> 9                  \* r t
    [] OTHER -> -1

SimpleEscape(c) ==
  /\ string_pc = "escape"
  /\ c # 117
  /\ After(c, IF Simple(c) = -1 THEN "error" ELSE "character")
  /\ added' = IF Simple(c) = -1 THEN added ELSE <<Simple(c)>>
  /\ UNCHANGED <<ranges, codepoint1, digits>>

BeginUnicode(c) ==
  /\ string_pc = "escape"
  /\ c = 117
  /\ After(c, "first")
  /\ UNCHANGED <<added, ranges, codepoint1, digits>>

\* A hexadecimal digit, or -1.
HexDigit(c) ==
  CASE c \in 48 .. 57 -> c - 48
    [] c \in 65 .. 70 -> c - 55
    [] c \in 97 .. 102 -> c - 87
    [] c \notin 48 .. 57 \cup 65 .. 70 \cup 97 .. 102 -> -1

\* get_codepoint, when the four digits have been read.
CodePoint(ds) == 4096 * ds[1] + 256 * ds[2] + 16 * ds[3] + ds[4]

IsHigh(n) == 55296 <= n /\ n <= 56319   \* 0xD800 and 0xDBFF
IsLow(n) == 56320 <= n /\ n <= 57343    \* 0xDC00 and 0xDFFF

\* The code point of a surrogate pair.
Joined(high, low) == high * 1024 + low - 55287 * 1024   \* 0x35FDC00

\* What a code point adds to token_buffer.
Utf8(n) ==
  LET Six(m) == 128 + (m % 64)
  IN CASE n < 128 -> <<n>>
       [] 128 <= n /\ n <= 2047 -> <<192 + n \div 64, Six(n)>>
       [] 2048 <= n /\ n <= 65535 -> <<224 + n \div 4096, Six(n \div 64), Six(n)>>
       [] n > 65535 -> <<240 + (n \div 4096) \div 64, Six(n \div 4096),
                         Six(n \div 64), Six(n)>>

\* The escape stands for the code point n.
AddCodePoint(c, n) ==
  /\ After(c, "character")
  /\ added' = Utf8(n)
  /\ codepoint1' = 0 /\ digits' = <<>>

\* With the digit c the escape has four, and this value.
Fourth(c) == Len(digits) = 3 /\ HexDigit(c) # -1
Value(c) == CodePoint(Append(digits, HexDigit(c)))

ReadDigit(c) ==
  /\ HexDigit(c) # -1
  /\ ~Fourth(c)
  /\ After(c, string_pc)
  /\ digits' = Append(digits, HexDigit(c))
  /\ UNCHANGED <<added, codepoint1>>

FinishEscape(c) ==
  /\ Fourth(c)
  /\ \/ /\ string_pc = "first" /\ ~IsHigh(Value(c)) /\ ~IsLow(Value(c))
        /\ AddCodePoint(c, Value(c))
     \/ /\ string_pc = "second" /\ IsLow(Value(c))
        /\ AddCodePoint(c, Joined(codepoint1, Value(c)))

HighSurrogate(c) ==
  /\ Fourth(c)
  /\ string_pc = "first" /\ IsHigh(Value(c))
  /\ After(c, "pair")
  /\ codepoint1' = Value(c)
  /\ digits' = <<>>
  /\ UNCHANGED added

BadEscape(c) ==
  /\ \/ HexDigit(c) = -1
     \/ Fourth(c) /\ (IsLow(Value(c)) <=> string_pc = "first")
  /\ After(c, "error")
  /\ UNCHANGED <<added, codepoint1, digits>>

ReadUnicode(c) ==
  /\ string_pc \in {"first", "second"}
  /\ ReadDigit(c) \/ FinishEscape(c) \/ HighSurrogate(c) \/ BadEscape(c)
  /\ UNCHANGED ranges

\* Between the halves of a surrogate pair: get() == '\\' && get() == 'u'.
ReadPair(c) ==
  /\ string_pc \in {"pair", "pairU"}
  /\ After(c, CASE string_pc = "pair" /\ c = Backslash -> "pairU"
               [] string_pc = "pairU" /\ c = 117 -> "second"
               [] OTHER -> "error")
  /\ UNCHANGED <<added, ranges, codepoint1, digits>>

scan_string ==
  \/ \E c \in Bytes \cup {EOF} :
       \/ BeginCharacter(c) \/ next_byte_in_range(c)
       \/ SimpleEscape(c) \/ BeginUnicode(c) \/ ReadPair(c)
  \/ \E c \in HexBytes \cup {EOF} : ReadUnicode(c)

-----------------------------------------------------------------------------
\* Unicode: the scalar values of its 17 planes, and the UTF-8 sequence of each by
\* its bits.
IsScalarValue(n) == n \in Nat /\ n < 17 * 65536 /\ ~IsHigh(n) /\ ~IsLow(n)

IsContinuation(b) == b \div 64 = 2

\* The value of a sequence of the right shape: the bits that remain of the
\* first byte, and six bits of each further one.
Decoded(b) ==
  CASE Len(b) = 1 -> b[1] % 128
    [] Len(b) = 2 -> 64 * (b[1] % 32) + (b[2] % 64)
    [] Len(b) = 3 -> 4096 * (b[1] % 16) + 64 * (b[2] % 64) + (b[3] % 64)
    [] Len(b) = 4 -> 4096 * (64 * (b[1] % 8) + (b[2] % 64))
                       + 64 * (b[3] % 64) + (b[4] % 64)

\* b is the shortest sequence for a scalar value.
WellFormedUtf8(b) ==
  /\ Len(b) \in 1 .. 4
  /\ \A i \in DOMAIN b : b[i] # EOF
  /\ b[1] \div (CASE Len(b) = 1 -> 128 [] Len(b) = 2 -> 32
                  [] Len(b) = 3 -> 16 [] Len(b) = 4 -> 8)
       = (CASE Len(b) = 1 -> 0 [] Len(b) = 2 -> 6
            [] Len(b) = 3 -> 14 [] Len(b) = 4 -> 30)
  /\ \A i \in 2 .. Len(b) : IsContinuation(b[i])
  /\ IsScalarValue(Decoded(b))
  /\ Decoded(b) >= (CASE Len(b) = 1 -> 0 [] Len(b) = 2 -> 128
                      [] Len(b) = 3 -> 2048 [] Len(b) = 4 -> 65536)

\* b can be completed to a well-formed sequence.
BeginsUtf8(b) ==
  \E n \in 0 .. 3 : \E more \in [1 .. n -> {128, 191}] : WellFormedUtf8(b \o more)

\* The value of the four hexadecimal digits of b from position i on.
HexValue(b, i) == CodePoint([k \in 1 .. 4 |-> HexDigit(b[i + k - 1])])

\* The code point that the bytes of one character of a JSON string stand for.
Denoted(b) ==
  IF b[1] # Backslash THEN Decoded(b)
  ELSE CASE Len(b) = 2 -> Simple(b[2])
         [] Len(b) = 6 -> HexValue(b, 3)
         [] Len(b) = 12 ->   \* ten bits from either half
              65536 + 1024 * (HexValue(b, 3) % 1024) + (HexValue(b, 9) % 1024)

\* A string value is well-formed UTF-8 whatever its source, a raw character or
\* an escape, and it is the character that the source denotes.
TokenIsUtf8 ==
  string_pc = "character" /\ source # <<>> =>
    /\ WellFormedUtf8(added)
    /\ Decoded(added) = Denoted(source)
    /\ source[1] # Backslash => added = source

\* Only what denotes no character is rejected: a raw character at the first byte
\* after which no well-formed sequence is possible, or for a control character,
\* and an escape of four digits only for a lone surrogate.
RejectsNoCharacter ==
  string_pc = "error" /\ EOF \notin Range(source) =>
    /\ source[1] # Backslash => ~BeginsUtf8(source) \/ source[1] < 32
    /\ source[1] = Backslash =>
         IF Len(source) = 2 THEN Simple(source[2]) = -1
         ELSE \/ HexDigit(Last(source)) = -1
              \/ Len(source) = 6 /\ IsLow(HexValue(source, 3))
              \/ Len(source) > 6 /\ IsHigh(HexValue(source, 3))
                   /\ (Len(source) = 12 => ~IsLow(HexValue(source, 9)))

\* The strings are exactly those of JSON: a character is kept if there is one,
\* and rejected if there is none.
StringsAreExact == TokenIsUtf8 /\ RejectsNoCharacter
=============================================================================
