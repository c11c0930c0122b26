---------------------------- MODULE MCJsonDestroy ---------------------------
(***************************************************************************)
(* Inputs for module JsonDestroy: every short token sequence, and JSON     *)
(* texts with up to two levels of nesting, whole and with one token        *)
(* replaced, removed or put in.                                            *)
(***************************************************************************)
EXTENDS JsonDestroy, JsonGrammar

MCStrings == {"k", "l"}
MCScalars == MCStrings \cup {"1"}

\* "bad" is a token that the lexer refuses, or a number that is not finite.
Tokens == MCScalars \cup {"{", "}", "[", "]", ":", ",", "bad", "NUL"}

Short == UNION {[1 .. n -> Tokens] : n \in 0 .. 4}

Arrays(V) ==
  {<<"[", "]">>} \cup {<<"[">> \o v \o <<"]">> : v \in V}
  \cup {<<"[">> \o v \o <<",">> \o w \o <<"]">> : v, w \in V}
Objects(V) ==
  {<<"{", "}">>} \cup {<<"{", k, ":">> \o v \o <<"}">> : k \in MCStrings, v \in V}
  \cup {<<"{", "k", ":">> \o v \o <<",", k, ":">> \o w \o <<"}">> :
          k \in MCStrings, v, w \in V}
Containers(V) == Arrays(V) \cup Objects(V)

Flat == {<<"1">>, <<"k">>}
Texts == Containers(Flat)
           \cup Containers({<<"1">>, <<"[", "]">>, <<"[", "1", ",", "k", "]">>,
                            <<"{", "k", ":", "1", "}">>,
                            <<"{", "k", ":", "1", ",", "l", ":", "k", "}">>})

Damaged(s) ==
  {[s EXCEPT ![i] = t] : i \in DOMAIN s, t \in Tokens}
  \cup {RemoveAt(s, i) : i \in DOMAIN s}
  \cup {InsertAt(s, i, t) : i \in 1 .. Len(s) + 1, t \in Tokens}

\* A few levels more.
Repeated(t, n) == [i \in 1 .. n |-> t]
Deep == {Repeated("[", n) \o v \o Repeated("]", n) : n \in 3 .. 6, v \in Texts}

MCInputs == Short \cup Texts \cup Deep \cup UNION {Damaged(s) : s \in Texts}
=============================================================================
