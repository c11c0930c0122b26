---------------------------- MODULE JsonDestroy ----------------------------
(***************************************************************************)
(* The life of a JSON value (src/include/nlohmann/json.hpp): JsonParser    *)
(* builds it, and json_value::destroy takes it apart when it is no longer  *)
(* needed, or at once when the parser has thrown and it is half-built.     *)
(* The parser does not recurse, so a file may nest values as deep as it    *)
(* likes; destroy must not recurse into them either.  It moves them to a   *)
(* vector of its own, and takes the children out of each before that one   *)
(* is destroyed in turn.                                                   *)
(*                                                                         *)
(* Moving a value leaves a null behind, whose destruction does nothing;    *)
(* nulls are left out.                                                     *)
(***************************************************************************)
EXTENDS JsonParser

VARIABLES
  children,  \* value -> the values its array or object holds
  calls,     \* the nested calls of destroy: the value, its vector, where it is
  freed      \* the values whose memory has been released, in that order

destroyVars == <<children, calls, freed>>
vars == <<parserVars, destroyVars>>

Init ==
  /\ ParserInit
  /\ children = <<>>
  /\ calls = <<>>
  /\ freed = <<>>

\* The values in a node; the order of the members of an object does not matter.
Content(n) ==
  CASE Node(n).kind = "array" -> Node(n).value
    [] Node(n).kind = "object" -> SetToSeq(Range(Node(n).value))
    [] OTHER -> <<>>

\* The values of the tree.  One that a member of the same name has replaced was
\* destroyed when that happened.
InTree[n \in Nat] ==
  n = 1 \/ \E m \in 1 .. n - 1 : InTree[m] /\ n \in Range(Content(m))

Call(v) == [value |-> v, stack |-> <<>>, pc |-> "flatten"]

\* The destructor of the root, which is null if nothing was built.
BeginDestroy ==
  /\ pc \in {"accepted", "rejected"}
  /\ pc' = "destroy"
  /\ children' = [n \in {m \in DOMAIN nodes : InTree[m]} |-> Content(n)]
  /\ calls' = IF nodes = <<>> THEN <<>> ELSE <<Call(1)>>
  /\ UNCHANGED <<input, position, states, builder, freed>>

-----------------------------------------------------------------------------
Running == Last(calls)
In(where) == calls # <<>> /\ Running.pc = where

\* The innermost call goes on with this vector, at that place.
Continued(stack, where) ==
  Append(Front(calls), [Running EXCEPT !.stack = stack, !.pc = where])

\* std::move(begin, end, back_inserter(stack)) for the children of v.
Moved(stack, v) == [stack |-> stack \o children[v],
                    children |-> [children EXCEPT ![v] = <<>>]]

\* The top-level items go to the vector.
Flatten ==
  /\ In("flatten")
  /\ LET moved == Moved(<<>>, Running.value)
     IN /\ calls' = Continued(moved.stack, "loop")
        /\ children' = moved.children
  /\ UNCHANGED freed

\* A mistake to detect: the item that is taken stays in the vector.
NotTaken == Running.stack

\* stack.pop_back()
Taken == Front(Running.stack)

\* One turn of the loop: the last item is taken, its children are moved to the
\* vector, and its destructor runs.
DestroyItem ==
  /\ In("loop")
  /\ Running.stack # <<>>
  /\ LET item == Last(Running.stack)
         moved == Moved(Taken, item)
     IN /\ calls' = Append(Continued(moved.stack, "loop"), Call(item))
        /\ children' = moved.children
  /\ UNCHANGED freed

EndLoop ==
  /\ In("loop")
  /\ Running.stack = <<>>
  /\ calls' = Continued(<<>>, "release")
  /\ UNCHANGED <<children, freed>>

\* The destructor of the array or object destroys what is still in it, and its
\* memory is released.
Release ==
  /\ In("release")
  /\ LET v == Running.value
     IN IF children[v] # <<>>
          THEN /\ calls' = Append(calls, Call(Head(children[v])))
               /\ children' = [children EXCEPT ![v] = Tail(@)]
               /\ UNCHANGED freed
          ELSE /\ freed' = Append(freed, v)
               /\ calls' = Front(calls)
               /\ UNCHANGED children

destroy ==
  /\ Flatten \/ DestroyItem \/ EndLoop \/ Release
  /\ UNCHANGED parserVars

Returned ==
  /\ pc = "destroy"
  /\ calls = <<>>
  /\ UNCHANGED vars

Next ==
  \/ sax_parse_internal /\ UNCHANGED destroyVars
  \/ BeginDestroy
  \/ destroy
  \/ Returned

Spec == Init /\ [][Next]_vars

-----------------------------------------------------------------------------
Values == DOMAIN children
Waiting == UNION {Range(calls[i].stack) : i \in DOMAIN calls}
Inside == UNION {Range(children[v]) : v \in Values \ Range(freed)}

\* Every value is destroyed exactly once: it is never released twice, never used
\* after that, and in the end nothing is left.
FreedExactlyOnce ==
  /\ IsInjective(freed)
  /\ Range(freed) \cap
       (Waiting \cup Inside \cup {calls[i].value : i \in DOMAIN calls}) = {}
  /\ pc = "destroy" /\ calls = <<>> => Range(freed) = Values

\* However deep the values are nested, destroy calls itself once and no deeper:
\* what it destroys has no children left.
DoesNotRecurse == Len(calls) <= 2

\* The destruction of a value is complete and safe at any depth of nesting.
DestructionIsSafe == FreedExactlyOnce /\ DoesNotRecurse
=============================================================================
