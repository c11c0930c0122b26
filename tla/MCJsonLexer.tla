---------------------------- MODULE MCJsonLexer -----------------------------
(***************************************************************************)
(* The bytes at the ends of all ranges that module JsonString tells apart. *)
(***************************************************************************)
EXTENDS JsonLexer

\* Controls, quote, solidus, backslash, the letters of the escapes, and a letter
\* that is none; then the ends of the ranges of UTF-8.
MCBytes ==
  {0, 31, 32, 34, 47, 92, 97, 98, 102, 110, 114, 116, 117, 127,
   128, 143, 144, 159, 160, 191, 192, 193, 194, 223, 224, 225, 236, 237, 238,
   239, 240, 241, 243, 244, 245, 255}

\* 0 7 8 B C D f and g: with them 007f, 0080, 07ff, 0800, D7ff, D800, DBff,
\* DC00, Dfff and ffff can be written.
MCHexBytes == {48, 55, 56, 66, 67, 68, 102, 103}
=============================================================================
