----------------------------- MODULE JsonLexer -----------------------------
(***************************************************************************)
(* lexer::scan of src/include/nlohmann/json.hpp with scan_literal and      *)
(* scan_number: characters into tokens.  A number ends at the first        *)
(* character that cannot belong to it, which is put back (unget) for the   *)
(* next token.                                                             *)
(*                                                                         *)
(* A string counts as one character of the text.  If it is the first one,  *)
(* its bytes are scanned as JsonString says, and they may be any; scan     *)
(* resets everything a string uses, so that a later one is no different.   *)
(***************************************************************************)
EXTENDS JsonString

CONSTANTS MaxLength,   \* bound: characters in a text
          JsonBits     \* width of number_integer_t and number_unsigned_t

ASSUME JsonLexerAssumption == MaxLength \in Nat /\ JsonBits \in Nat \ {0}

VARIABLES
  text,         \* the characters that have been taken from the input
  next_unget,   \* the last of them is to be read again
  scan_pc,      \* where scan or scan_number is
  begin,        \* the position of the first character of the token
  number_type,  \* the kind of number so far
  expected,     \* what is left of a literal
  tokens        \* the tokens so far: their type and positions

scanVars == <<text, next_unget, scan_pc, begin, number_type, expected, tokens>>
lexerVars == <<scanVars, stringVars>>

Digits == {"0", "1"}
Blank == {" "}
Structural == {"[", ","}
String == {"k"}

\* The literals that are spelled; false is left out, it is another true.
Literals == [t |-> <<"r", "u", "e">>, n |-> <<"u", "l", "l">>]

Characters ==
  Digits \cup Blank \cup Structural \cup String
    \cup {"-", "+", "e", ".", "t", "r", "u", "n", "l", "x", "NUL",
          "EF", "BB", "BF"}

LexerInit ==
  /\ text = <<>>
  /\ next_unget = FALSE
  /\ scan_pc = "bom"
  /\ begin = 0
  /\ number_type = "none"
  /\ expected = <<>>
  /\ tokens = <<>>
  /\ StringInit

-----------------------------------------------------------------------------
\* get(): the character c is the next one.
Get(c) ==
  IF next_unget
    THEN c = Last(text) /\ UNCHANGED text
    ELSE /\ c \in IF Len(text) < MaxLength THEN Characters \cup {EOF} ELSE {EOF}
         /\ text' = Append(text, c)

\* A mistake to detect: the character after a number is lost.
NotPutBack == FALSE

\* unget()
PutBack == TRUE

\* The character that was read is consumed.
Consumed == next_unget' = FALSE

\* The position of the character that was read.
Here == Len(text')

Emit(type, from, to) ==
  /\ tokens' = Append(tokens, [type |-> type, from |-> from, to |-> to])
  /\ scan_pc' = "blank"
  /\ UNCHANGED <<begin, number_type, expected>>

Goto(where) ==
  /\ scan_pc' = where
  /\ UNCHANGED <<begin, number_type, expected, tokens>>

\* skip_bom: the three bytes of the mark, or none of them.
SkipBom(c) ==
  /\ scan_pc = "bom"
  /\ Get(c)
  /\ IF c = "EF" THEN Goto("bom2") /\ Consumed
     ELSE Goto("blank") /\ next_unget' = TRUE

FinishBom(c) ==
  /\ scan_pc \in {"bom2", "bom3"}
  /\ Get(c) /\ Consumed
  /\ Goto(CASE scan_pc = "bom2" /\ c = "BB" -> "bom3"
            [] scan_pc = "bom3" /\ c = "BF" -> "blank"
            [] OTHER -> "error")

SkipBlank(c) ==
  /\ scan_pc = "blank"
  /\ c \in Blank
  /\ Get(c) /\ Consumed
  /\ UNCHANGED <<scan_pc, begin, number_type, expected, tokens>>

\* scan: what the first character of a token decides.
ScanCharacter(c) ==
  /\ scan_pc = "blank"
  /\ c \in Structural \cup String
  /\ Get(c) /\ Consumed
  /\ IF c \in String /\ Here = 1 THEN Goto("string") ELSE Emit(c, Here, Here)

ScanEnd(c) ==
  /\ scan_pc = "blank"
  /\ c \in {EOF, "NUL"}
  /\ Get(c) /\ Consumed
  /\ Goto("end")

ScanGarbage(c) ==
  /\ scan_pc = "blank"
  /\ c \in Characters \ (Blank \cup Structural \cup String \cup Digits
                           \cup {"-", "NUL"} \cup DOMAIN Literals)
  /\ Get(c) /\ Consumed
  /\ Goto("error")

BeginLiteral(c) ==
  /\ scan_pc = "blank"
  /\ c \in DOMAIN Literals
  /\ Get(c) /\ Consumed
  /\ scan_pc' = "literal"
  /\ begin' = Here
  /\ expected' = Literals[c]
  /\ UNCHANGED <<number_type, tokens>>

\* One turn of the loop of scan_literal.
ScanLiteral(c) ==
  /\ scan_pc = "literal"
  /\ Get(c) /\ Consumed
  /\ IF c # Head(expected) THEN Goto("error")
     ELSE IF Len(expected) = 1 THEN Emit("literal", begin, Here)
     ELSE /\ expected' = Tail(expected)
          /\ UNCHANGED <<scan_pc, begin, number_type, tokens>>

-----------------------------------------------------------------------------
\* scan_number: the labels of the automaton and its transitions.

Complete == {"zero", "any1", "decimal2", "any2"}

MayBeSigned(s) == s = "exponent"

\* A mistake to detect: a number may begin with zeros.
LeadingZeros(s, c) ==
  IF s = "zero" /\ c \in Digits THEN "any1"
  ELSE IF s \in Complete THEN "done" ELSE "error"

\* No transition: the number ends before c, or c is an error.
NoTransition(s, c) == IF s \in Complete THEN "done" ELSE "error"

Transition(s, c) ==
  CASE s = "minus" /\ c = "0" -> "zero"
    [] s = "minus" /\ c \in Digits \ {"0"} -> "any1"
    [] s = "any1" /\ c \in Digits -> "any1"
    [] s \in {"zero", "any1"} /\ c = "." -> "decimal1"
    [] s \in {"decimal1", "decimal2"} /\ c \in Digits -> "decimal2"
    [] s \in {"zero", "any1", "decimal2"} /\ c = "e" -> "exponent"
    [] MayBeSigned(s) /\ c \in {"+", "-"} -> "sign"
    [] s \in {"exponent", "sign", "any2"} /\ c \in Digits -> "any2"
    [] OTHER -> NoTransition(s, c)

BeginNumber(c) ==
  /\ scan_pc = "blank"
  /\ c \in Digits \cup {"-"}
  /\ Get(c) /\ Consumed
  /\ scan_pc' = CASE c = "-" -> "minus" [] c = "0" -> "zero" [] OTHER -> "any1"
  /\ begin' = Here
  /\ number_type' = IF c = "-" THEN "integer" ELSE "unsigned"
  /\ UNCHANGED <<expected, tokens>>

ContinueNumber(c) ==
  /\ Transition(scan_pc, c) \notin {"done", "error"}
  /\ Get(c) /\ Consumed
  /\ scan_pc' = Transition(scan_pc, c)
  /\ number_type' = IF scan_pc' \in {"decimal1", "exponent"} THEN "float"
                    ELSE number_type
  /\ UNCHANGED <<begin, expected, tokens>>

NumberError(c) ==
  /\ Transition(scan_pc, c) = "error"
  /\ Get(c) /\ Consumed
  /\ Goto("error")

\* What the digits of s say.
Magnitude(s) ==
  FoldLeft(LAMBDA n, c : CASE c = "0" -> 10 * n
                           [] c = "1" -> 10 * n + 1
                           [] OTHER -> n, 0, s)

\* strtoull and strtoll report ERANGE beyond the width of the integers.
InRange(s) ==
  IF s[1] = "-" THEN Magnitude(s) <= 2 ^ (JsonBits - 1)
                ELSE Magnitude(s) < 2 ^ JsonBits

\* An integer that is out of range becomes a floating-point number.
Converted(s) == IF InRange(s) THEN number_type ELSE "float"

EndNumber(c) ==
  /\ Transition(scan_pc, c) = "done"
  /\ Get(c)
  /\ next_unget' = PutBack
  /\ Emit(Converted(SubSeq(text', begin, Here - 1)), begin, Here - 1)

ScanNumber(c) ==
  /\ scan_pc \in {"minus", "zero", "any1", "decimal1", "decimal2", "exponent",
             "sign", "any2"}
  /\ ContinueNumber(c) \/ NumberError(c) \/ EndNumber(c)

ScanString ==
  /\ scan_pc = "string"
  /\ string_pc \notin {"string", "error"}
  /\ scan_string
  /\ UNCHANGED scanVars

\* The string was the whole text so far.
EndString ==
  /\ scan_pc = "string"
  /\ \/ /\ string_pc = "string"
        /\ Emit(Last(text), 1, 1)
        /\ StringReset
     \/ /\ string_pc = "error"
        /\ Goto("error")
        /\ UNCHANGED stringVars
  /\ UNCHANGED <<text, next_unget>>

EndOfText ==
  /\ scan_pc \in {"end", "error"}
  /\ UNCHANGED lexerVars

LexerNext ==
  \/ \E c \in Characters \cup {EOF} :
       /\ \/ SkipBom(c) \/ FinishBom(c) \/ SkipBlank(c) \/ ScanCharacter(c)
          \/ ScanEnd(c) \/ ScanGarbage(c) \/ BeginLiteral(c) \/ ScanLiteral(c)
          \/ BeginNumber(c) \/ ScanNumber(c)
       /\ UNCHANGED stringVars
  \/ ScanString
  \/ EndString
  \/ EndOfText

LexerSpec == LexerInit /\ [][LexerNext]_lexerVars

-----------------------------------------------------------------------------
\* The grammar of RFC 8259.

IsDigits(s) == s # <<>> /\ \A i \in DOMAIN s : s[i] \in Digits

IsInt(s) == IsDigits(s) /\ (s[1] = "0" => Len(s) = 1)
IsFraction(s) == s = <<>> \/ (s[1] = "." /\ IsDigits(Tail(s)))
IsExponent(s) ==
  \/ s = <<>>
  \/ /\ s[1] = "e"
     /\ \E i \in 2 .. Len(s) :
          /\ i = 2 \/ (i = 3 /\ s[2] \in {"+", "-"})
          /\ IsDigits(SubSeq(s, i, Len(s)))

Unsigned(s) == IF s # <<>> /\ s[1] = "-" THEN Tail(s) ELSE s

IsNumber(s) ==
  LET u == Unsigned(s)
  IN \E i, j \in 0 .. Len(u) :
       /\ i <= j
       /\ IsInt(SubSeq(u, 1, i))
       /\ IsFraction(SubSeq(u, i + 1, j))
       /\ IsExponent(SubSeq(u, j + 1, Len(u)))

\* s can be continued to a number, if at all by a digit.
BeginsNumber(s) == IsNumber(s) \/ IsNumber(Append(s, "1"))

TokenText(t) == SubSeq(text, t.from, t.to)
InToken(i) == \E k \in DOMAIN tokens : i \in tokens[k].from .. tokens[k].to

\* Every character is looked at once: it is in exactly one token, or it is
\* blank, part of the mark at the very beginning, or what ended the text.  In
\* particular the character after a number is not lost.
EveryCharacterCounts ==
  scan_pc = "end" =>
    /\ \A k \in 2 .. Len(tokens) : tokens[k - 1].to < tokens[k].from
    /\ \A i \in 1 .. Len(text) - 1 :
         \/ InToken(i)
         \/ text[i] \in Blank
         \/ i <= 3 /\ text[i] = <<"EF", "BB", "BF">>[i]

\* A token is a number exactly if its characters are; it is an integer unless
\* it has a fraction or an exponent or is too large for the width.
TokensAreJson ==
  \A k \in DOMAIN tokens :
    LET s == TokenText(tokens[k])
        type == tokens[k].type
    IN CASE type \in Structural \cup String -> s = <<type>>
         [] type = "literal" -> Tail(s) = Literals[Head(s)]
         [] OTHER ->
              /\ IsNumber(s)
              /\ type = IF ~IsInt(Unsigned(s)) \/ ~InRange(s) THEN "float"
                        ELSE IF s[1] = "-" THEN "integer" ELSE "unsigned"

\* A text is rejected only where no token can go on: a number is not cut short
\* and a character that may continue it is not an error.
RejectsOnlyGarbage ==
  scan_pc = "error" =>
    LET s == SubSeq(text, begin, Len(text))
    IN begin > 0 /\ ~InToken(begin) => ~BeginsNumber(s)

\* The tokens are exactly those of JSON.
ScansExactlyJson == TokensAreJson /\ RejectsOnlyGarbage
=============================================================================
