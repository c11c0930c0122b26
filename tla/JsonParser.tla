----------------------------- MODULE JsonParser -----------------------------
(***************************************************************************)
(* json::parse (src/include/nlohmann/json.hpp): the loop of                *)
(* parser::sax_parse_internal over the tokens of the lexer, and the value  *)
(* that json_sax_dom_parser builds from its events.  The parser does not   *)
(* recurse; it keeps a stack of its own, and so does the builder, which    *)
(* also holds a pointer to the member whose value is due next.  Module     *)
(* JsonDestroy goes on from there and has the specification.               *)
(***************************************************************************)
EXTENDS Integers, Sequences, SequencesExt

CONSTANTS Inputs,    \* the token sequences to parse
          Strings,   \* tokens that are string values
          Scalars    \* tokens that are values, the strings among them

begin_object == "{"
end_object == "}"

\* The other tokens.
Symbols == {begin_object, end_object, "[", "]", ":", ",", "NUL", "end"}

ASSUME JsonParserAssumption ==
  /\ Strings \subseteq Scalars
  /\ Scalars \cap Symbols = {}
  /\ \A s \in Inputs : s \in Seq(Range(s) \ {"end"})

VARIABLES
  input,           \* the tokens
  position,        \* how many of them have been read
  pc,              \* what sax_parse_internal expects
  states,          \* the containers it is in
  nodes,           \* the JSON values that exist, in the order of creation
  ref_stack,       \* the open containers, as indices of nodes
  object_element   \* the member to assign next: a node and a key

builder == <<nodes, ref_stack, object_element>>
parserVars == <<input, position, pc, states, builder>>

\* The token that get_token returns.  A NUL character ends the input as well.
last_token ==
  IF position = Len(input) \/ input[position + 1] = "NUL" THEN "end"
  ELSE input[position + 1]

ParserInit ==
  /\ input \in Inputs
  /\ position = 0
  /\ pc = "value"
  /\ states = <<>>
  /\ nodes = <<>> /\ ref_stack = <<>> /\ object_element = <<0, "">>

-----------------------------------------------------------------------------
\* The builder.

Node(n) == nodes[n]
Innermost == Last(ref_stack)
NewNode == Len(nodes) + 1

Array(items) == [kind |-> "array", value |-> items]
Object(members) == [kind |-> "object", value |-> members]
Scalar(t) == [kind |-> "scalar", value |-> t]

\* The members f with the value n for key.
With(f, key, n) ==
  [k \in DOMAIN f \cup {key} |-> IF k = key THEN n ELSE f[k]]

\* A mistake to detect: a second member of the same name is dropped.
FirstWins(f, key, n) ==
  [k \in DOMAIN f \cup {key} |-> IF k \in DOMAIN f THEN f[k] ELSE n]

\* *object_element = v, or emplace_back(v), or root = v.
Assigned(f, key, n) == With(f, key, n)

\* handle_value: the new node and where it goes.
handle_value(v) ==
  nodes' = Append(
    IF ref_stack = <<>> THEN nodes
    ELSE IF Node(Innermost).kind = "array"
      THEN [nodes EXCEPT ![Innermost].value = Append(@, NewNode)]
      ELSE [nodes EXCEPT ![object_element[1]].value =
              Assigned(@, object_element[2], NewNode)],
    v)

start_container(v) ==
  /\ handle_value(v)
  /\ ref_stack' = Append(ref_stack, NewNode)
  /\ UNCHANGED object_element

\* operator[] makes the member if there is none; until the value arrives it is
\* null, which nothing can see.
key(t) ==
  /\ object_element' = <<Innermost, t>>
  /\ UNCHANGED <<nodes, ref_stack>>

end_container ==
  /\ ref_stack' = Front(ref_stack)
  /\ UNCHANGED <<nodes, object_element>>

-----------------------------------------------------------------------------
\* The parser: one token at a time.

Read == position' = position + 1 /\ UNCHANGED input
Peek == UNCHANGED <<position, input>>

\* A mistake to detect: the enclosing container is left as well.
PopBoth == <<>>

Popped == Front(states)

\* Where the loop goes after a value, depending on the containers that are left.
Evaluate(s) ==
  pc' = IF s = <<>> THEN "end" ELSE IF Last(s) = "array" THEN "array" ELSE "object"

ParseScalar ==
  /\ pc = "value"
  /\ last_token \in Scalars
  /\ handle_value(Scalar(last_token))
  /\ UNCHANGED <<ref_stack, object_element>>
  /\ Read /\ Evaluate(states) /\ UNCHANGED states

BeginObject ==
  /\ pc = "value"
  /\ last_token = begin_object
  /\ start_container(Object(<<>>))
  /\ Read /\ pc' = "firstKey" /\ UNCHANGED states

BeginArray ==
  /\ pc = "value"
  /\ last_token = "["
  /\ start_container(Array(<<>>))
  /\ Read /\ pc' = "firstElement" /\ UNCHANGED states

EmptyContainer ==
  /\ \/ pc = "firstKey" /\ last_token = end_object
     \/ pc = "firstElement" /\ last_token = "]"
  /\ end_container
  /\ Read /\ Evaluate(states) /\ UNCHANGED states

FirstElement ==
  /\ pc = "firstElement"
  /\ last_token # "]"
  /\ states' = Append(states, "array")
  /\ pc' = "value"
  /\ Peek /\ UNCHANGED builder

Key ==
  /\ pc \in {"firstKey", "nextKey"}
  /\ last_token \in Strings
  /\ key(last_token)
  /\ pc' = IF pc = "firstKey" THEN "firstSeparator" ELSE "separator"
  /\ Read /\ UNCHANGED states

Separator ==
  /\ pc \in {"firstSeparator", "separator"}
  /\ last_token = ":"
  /\ states' = IF pc = "firstSeparator" THEN Append(states, "object") ELSE states
  /\ pc' = "value"
  /\ Read /\ UNCHANGED builder

Comma ==
  /\ pc \in {"array", "object"}
  /\ last_token = ","
  /\ pc' = IF pc = "array" THEN "value" ELSE "nextKey"
  /\ Read /\ UNCHANGED <<states, builder>>

EndContainer ==
  /\ \/ pc = "array" /\ last_token = "]"
     \/ pc = "object" /\ last_token = end_object
  /\ end_container
  /\ states' = Popped
  /\ Evaluate(Popped)
  /\ Read

\* In strict mode nothing may follow the value.
Accept ==
  /\ pc = "end"
  /\ last_token = "end"
  /\ pc' = "accepted"
  /\ Peek /\ UNCHANGED <<states, builder>>

Expected ==
  CASE pc = "value" -> Scalars \cup {begin_object, "["}
    [] pc = "firstKey" -> Strings \cup {end_object}
    [] pc = "nextKey" -> Strings
    [] pc \in {"firstSeparator", "separator"} -> {":"}
    [] pc = "array" -> {",", "]"}
    [] pc = "object" -> {",", end_object}
    [] pc = "end" -> {"end"}
    [] OTHER -> {last_token}

\* parse_error throws.
Reject ==
  /\ last_token \notin Expected
  /\ pc' = "rejected"
  /\ Peek /\ UNCHANGED <<states, builder>>

sax_parse_internal ==
  \/ ParseScalar \/ BeginObject \/ BeginArray \/ EmptyContainer
  \/ FirstElement \/ Key \/ Separator \/ Comma \/ EndContainer
  \/ Accept \/ Reject

-----------------------------------------------------------------------------
\* The stack of the parser and the stack of the builder describe the same
\* nesting, so that the builder's assertions hold: a container is ended as what
\* it was started as, a key is for an object, and a value has a place to go.
StacksAgree ==
  pc \notin {"rejected", "destroy"} =>
    /\ Len(ref_stack) = Len(states)
         + (IF pc \in {"firstKey", "firstElement", "firstSeparator"}
              THEN 1 ELSE 0)
    /\ \A i \in DOMAIN states : Node(ref_stack[i]).kind = states[i]
    /\ (pc = "value" /\ states # <<>> /\ Last(states) = "object") =>
         object_element[1] = Innermost
    /\ pc \in {"end", "accepted"} => ref_stack = <<>> /\ nodes # <<>>
=============================================================================
