---------------------------- MODULE JsonGrammar ----------------------------
(***************************************************************************)
(* The grammar of RFC 8259 over the tokens of module JsonParser, which is  *)
(* compared with it.  It says which stretches of a token sequence ts are   *)
(* values, and which value each of them denotes.  It does not know how a   *)
(* value is built: a value is a name x in the domain of a table T, and     *)
(* T[x] is the set of what it may contain, in terms of such names.         *)
(*                                                                         *)
(* A phrase is <<"value", i, j, x>> if the tokens from i to j denote the   *)
(* value x, <<"elements", i, j, s>> if they are elements of an array, one  *)
(* or more, and <<"members", i, j, f>> if they are members of an object.   *)
(***************************************************************************)
EXTENDS JsonParser

At(ts, i, t) == i \in DOMAIN ts /\ ts[i] = t

\* A name of a member and its colon begin at i.
KeyAt(ts, i) == i \in DOMAIN ts /\ ts[i] \in Strings /\ At(ts, i + 1, ":")

Kind(D, k) == {p \in D : p[1] = k}

\* The tokens from i to j denote each value that may contain v.
TextsOf(T, i, j, v) ==
  {<<"value", i, j, x>> : x \in {y \in DOMAIN T : v \in T[y]}}

ScalarTexts(ts, T) ==
  UNION {TextsOf(T, i, i, Scalar(ts[i])) :
           i \in {k \in DOMAIN ts : ts[k] \in Scalars}}

EmptyArrayTexts(ts, T) ==
  UNION {TextsOf(T, i, i + 1, Array(<<>>)) :
           i \in {k \in DOMAIN ts : At(ts, k, "[") /\ At(ts, k + 1, "]")}}

EmptyObjectTexts(ts, T) ==
  UNION {TextsOf(T, i, i + 1, Object(<<>>)) :
           i \in {k \in DOMAIN ts :
                    At(ts, k, begin_object) /\ At(ts, k + 1, end_object)}}

ArrayTexts(ts, T, D) ==
  UNION {TextsOf(T, p[2] - 1, p[3] + 1, Array(p[4])) :
           p \in {q \in Kind(D, "elements") :
                    At(ts, q[2] - 1, "[") /\ At(ts, q[3] + 1, "]")}}

ObjectTexts(ts, T, D) ==
  UNION {TextsOf(T, p[2] - 1, p[3] + 1, Object(p[4])) :
           p \in {q \in Kind(D, "members") :
                    At(ts, q[2] - 1, begin_object) /\ At(ts, q[3] + 1, end_object)}}

OneElement(D) ==
  {<<"elements", p[2], p[3], <<p[4]>> >> : p \in Kind(D, "value")}

OneMember(ts, D) ==
  {<<"members", p[2] - 2, p[3], With(<<>>, ts[p[2] - 2], p[4])>> :
     p \in {q \in Kind(D, "value") : KeyAt(ts, q[2] - 2)}}

MoreElements(ts, D) ==
  {<<"elements", p[1][2], p[2][3], Append(p[1][4], p[2][4])>> :
     p \in {q \in Kind(D, "elements") \X Kind(D, "value") :
              At(ts, q[1][3] + 1, ",") /\ q[2][2] = q[1][3] + 2}}

\* Of members with the same name the last one counts.
MoreMembers(ts, D) ==
  {<<"members", p[1][2], p[2][3], With(p[1][4], ts[p[2][2] - 2], p[2][4])>> :
     p \in {q \in Kind(D, "members") \X Kind(D, "value") :
              /\ At(ts, q[1][3] + 1, ",")
              /\ q[2][2] = q[1][3] + 4 /\ KeyAt(ts, q[2][2] - 2)}}

\* What follows from the phrases D by one rule of the grammar.
Consequences(ts, T, D) ==
  ScalarTexts(ts, T) \cup EmptyArrayTexts(ts, T) \cup EmptyObjectTexts(ts, T)
    \cup ArrayTexts(ts, T, D) \cup ObjectTexts(ts, T, D)
    \cup OneElement(D) \cup MoreElements(ts, D)
    \cup OneMember(ts, D) \cup MoreMembers(ts, D)

Round(ts, T, D) == D \cup Consequences(ts, T, D)

\* All phrases of ts.  A derivation has no more steps, one after the other, than
\* there are tokens, and one for a list that is not in its container.
Phrases(ts, T) ==
  LET rounds == Len(ts) + 1
      Derived[k \in 0 .. rounds] ==
        IF k = 0 THEN {} ELSE Round(ts, T, Derived[k - 1])
  IN Derived[rounds]

\* A NUL character ends the text.
TextEnd(ts) ==
  CHOOSE e \in 0 .. Len(ts) :
    /\ \A i \in 1 .. e : ts[i] # "NUL"
    /\ e = Len(ts) \/ ts[e + 1] = "NUL"

\* The values that have been built.
Built == [n \in DOMAIN nodes |-> {nodes[n]}]

\* One value of which nothing is known.
Something ==
  <<[kind : {"scalar"}, value : Scalars]
      \cup [kind : {"array"}, value : Seq({1})]
      \cup [kind : {"object"},
            value : UNION {[K -> {1}] : K \in SUBSET Strings}]>>

\* In terms of the tokens of the lexer, for which a number beyond a double is no
\* number, json::parse accepts exactly the JSON texts, and what it builds is the
\* value that the text denotes: every element and member is under its own
\* container, in spite of the one object_element for all levels of nesting.
ParsesExactlyJson ==
  LET whole == <<"value", 1, TextEnd(input), 1>>
  IN /\ pc = "accepted" => whole \in Phrases(input, Built)
     /\ pc = "rejected" => whole \notin Phrases(input, Something)
=============================================================================
