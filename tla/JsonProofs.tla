----------------------------- MODULE JsonProofs -----------------------------
(***************************************************************************)
(* Proofs about the JSON parser: the scanner of modules JsonString and     *)
(* JsonLexer, for every text and every width of the integers, and the      *)
(* parser and the destructor of modules JsonParser and JsonDestroy, for    *)
(* every token sequence and any depth of nesting.                          *)
(***************************************************************************)
EXTENDS JsonLexer, JsonDestroy, JsonGrammar, FiniteSetTheorems, SequenceTheorems, TLAPS

-----------------------------------------------------------------------------
(***************************************************************************)
(* Sequences.                                                              *)
(***************************************************************************)

LEMMA FrontProperties ==
  ASSUME NEW S, NEW s \in Seq(S), s # <<>>
  PROVE  /\ Front(s) \in Seq(S)
         /\ Len(s) \in Nat \ {0}
         /\ Len(Front(s)) = Len(s) - 1
         /\ Last(s) \in S
         /\ \A i \in 1 .. Len(s) - 1 : Front(s)[i] = s[i]
<1> DEFINE n == Len(s) - 1
<1>1. Len(s) \in Nat \ {0} /\ \A i \in 1 .. Len(s) : s[i] \in S
  BY EmptySeq, ElementOfSeq
<1>2. n \in Nat /\ \A i \in 1 .. n : s[i] \in S
  BY <1>1
<1>3. Front(s) = SubSeq(s, 1, n)
  BY DEF Front
<1> HIDE DEF n
<1>4. /\ Front(s) \in Seq(S)
      /\ Len(Front(s)) = n
      /\ \A i \in 1 .. n : Front(s)[i] = s[i]
  <2>1. /\ SubSeq(s, 1, n) \in Seq(S)
        /\ Len(SubSeq(s, 1, n)) = IF 1 <= n THEN n - 1 + 1 ELSE 0
        /\ \A i \in 1 .. n - 1 + 1 : SubSeq(s, 1, n)[i] = s[1 + i - 1]
    BY <1>2, SubSeqProperties
  <2>2. QED
    BY <2>1, <1>2, <1>3
<1>5. Last(s) \in S
  BY <1>1 DEF Last
<1>6. QED
  BY <1>1, <1>4, <1>5 DEF n

-----------------------------------------------------------------------------
(***************************************************************************)
(* The values that the builder makes.                                      *)
(***************************************************************************)

\* A value whose elements or members are in S.
IsNode(v, S) ==
  /\ v = [kind |-> v.kind, value |-> v.value]
  /\ v.kind \in {"array", "object", "scalar"}
  /\ v.kind = "array" => v.value \in Seq(S)
  /\ v.kind = "object" => v.value \in [DOMAIN v.value -> S]

\* The nodes are values, and every container is older than what it holds.
NodesTyped(ns) ==
  /\ ns \in Seq(Range(ns))
  /\ \A n \in 1 .. Len(ns) : IsNode(ns[n], n + 1 .. Len(ns))

\* The node m is the element or member i of n.
HeldAt(ns, n, i, m) ==
  /\ ns[n].kind # "scalar"
  /\ i \in DOMAIN ns[n].value
  /\ ns[n].value[i] = m

\* Each is held at most once.
HeldAtMostOnce(ns) ==
  \A p, q \in 1 .. Len(ns) : \A i, j : \A m :
    HeldAt(ns, p, i, m) /\ HeldAt(ns, q, j, m) => p = q /\ i = j

Forest(ns) == NodesTyped(ns) /\ HeldAtMostOnce(ns)

\* The value w is held, and nothing but the new node has been added to old.
Grown(w, old, new) ==
  \E k \in DOMAIN w :
    /\ w[k] = new
    /\ \A i \in DOMAIN w : i # k => i \in DOMAIN old /\ w[i] = old[i]

LEMMA AppendGrows ==
  ASSUME NEW S, NEW s \in Seq(S), NEW n
  PROVE  Grown(Append(s, n), s, n) /\ Append(s, n) \in Seq(S \cup {n})
<1>1. s \in Seq(S \cup {n})
  BY SeqMonotonic
<1>2. /\ Append(s, n) \in Seq(S \cup {n})
      /\ Len(Append(s, n)) = Len(s) + 1
      /\ \A i \in 1 .. Len(s) : Append(s, n)[i] = s[i]
      /\ Append(s, n)[Len(s) + 1] = n
  BY <1>1, AppendProperties
<1>3. DOMAIN Append(s, n) = 1 .. Len(s) + 1 /\ DOMAIN s = 1 .. Len(s) /\ Len(s) \in Nat
  BY <1>1, <1>2, LenProperties
<1>4. QED
  BY <1>2, <1>3 DEF Grown

LEMMA WithGrows ==
  ASSUME NEW S, NEW f, f \in [DOMAIN f -> S], NEW k, NEW n
  PROVE  /\ Grown(With(f, k, n), f, n)
         /\ With(f, k, n) \in [DOMAIN With(f, k, n) -> S \cup {n}]
  BY DEF With, Grown

\* The node p gets the content w.
Filled(v, w) == [v EXCEPT !.value = w]
Refilled(ns, p, w) == [ns EXCEPT ![p].value = w]

\* The value v holds nothing yet.
IsNew(v) == IsNode(v, {}) /\ (v.kind # "scalar" => DOMAIN v.value = {})

\* One node has been added to the forest ns.
Extends(big, ns, v) ==
  /\ Forest(big)
  /\ Len(big) = Len(ns) + 1
  /\ big[Len(ns) + 1] = v
  /\ \A n \in 1 .. Len(ns) : big[n].kind = ns[n].kind

LEMMA NodeWider ==
  ASSUME NEW S, NEW T, S \subseteq T, NEW v, IsNode(v, S)
  PROVE  IsNode(v, T)
<1>1. v.kind = "array" => v.value \in Seq(T)
  BY SeqMonotonic DEF IsNode
<1>2. v.kind = "object" => v.value \in [DOMAIN v.value -> T]
  BY DEF IsNode
<1>3. QED
  BY <1>1, <1>2 DEF IsNode

LEMMA FilledIsNode ==
  ASSUME NEW S, NEW T, NEW v, IsNode(v, S), NEW w,
         v.kind = "array" => w \in Seq(T),
         v.kind = "object" => w \in [DOMAIN w -> T]
  PROVE  IsNode(Filled(v, w), T)
<1> DEFINE f == Filled(v, w)
<1>1. f.kind = v.kind /\ f.value = w /\ f = [kind |-> v.kind, value |-> w]
  BY DEF IsNode, Filled
<1> HIDE DEF f
<1>2. IsNode(f, T)
  BY <1>1 DEF IsNode
<1>3. QED
  BY <1>2 DEF f

\* A container that gets the new node, and the new node.
LEMMA ForestGrows ==
  ASSUME NEW ns, Forest(ns),
         NEW p \in 1 .. Len(ns), NEW w, NEW v,
         ns[p].kind # "scalar",
         IsNode(Filled(ns[p], w), p + 1 .. Len(ns) + 1),
         Grown(w, ns[p].value, Len(ns) + 1),
         IsNew(v)
  PROVE  Extends(Append(Refilled(ns, p, w), v), ns, v)
<1> DEFINE big == Append(Refilled(ns, p, w), v)
           new == Len(ns) + 1
           mid == Refilled(ns, p, w)
           grown == Filled(ns[p], w)
           S == Range(ns) \cup {grown, v}
<1>0. /\ new = Len(ns) + 1
      /\ mid = [ns EXCEPT ![p] = grown]
      /\ big = Append(mid, v)
      /\ grown \in S /\ v \in S
      /\ IsNode(grown, p + 1 .. new)
      /\ Grown(w, ns[p].value, new)
      /\ grown.value = w
      /\ IsNode(v, {}) /\ (v.kind # "scalar" => DOMAIN v.value = {})
  BY DEF Refilled, Filled, Forest, NodesTyped, IsNode, IsNew
<1>5. grown.kind = ns[p].kind
  BY DEF Forest, NodesTyped, IsNode, Filled
<1>1. ns \in Seq(S) /\ Len(ns) \in Nat /\ DOMAIN ns = 1 .. Len(ns)
  <2>1. ns \in Seq(Range(ns))
    BY DEF Forest, NodesTyped
  <2>2. QED
    BY <2>1, SeqMonotonic, LenProperties
<1> HIDE DEF mid, grown, S, big, new
<1>3. /\ mid \in Seq(S) /\ Len(mid) = Len(ns)
      /\ \A n \in 1 .. Len(ns) : mid[n] = IF n = p THEN grown ELSE ns[n]
  BY <1>0, <1>1, ExceptSeq
<1>4. /\ big \in Seq(S) /\ Len(big) = new
      /\ \A n \in 1 .. Len(ns) : big[n] = mid[n]
      /\ big[new] = v
  BY <1>0, <1>1, <1>3, AppendProperties
<1>6. big \in Seq(Range(big))
  BY <1>4, SeqOfRange
<1>7. ASSUME NEW n \in 1 .. Len(big) PROVE IsNode(big[n], n + 1 .. Len(big))
  <2>1. CASE n = new
    BY <2>1, <1>0, <1>4, NodeWider
  <2>2. CASE n = p
    BY <2>2, <1>3, <1>4, <1>0
  <2>3. CASE n # new /\ n # p
    <3>1. n \in 1 .. Len(ns) /\ big[n] = ns[n]
      BY <1>0, <1>1, <1>3, <1>4, <2>3
    <3>2. IsNode(ns[n], n + 1 .. Len(ns))
      BY <3>1 DEF Forest, NodesTyped
    <3>3. n + 1 .. Len(ns) \subseteq n + 1 .. Len(big)
      BY <1>0, <1>1, <1>4
    <3>4. IsNode(ns[n], n + 1 .. Len(big))
      BY <3>2, <3>3, NodeWider
    <3>5. QED
      BY <3>1, <3>4
  <2>4. QED
    BY <2>1, <2>2, <2>3
<1>8. HeldAtMostOnce(big)
  <2>1. PICK k \in DOMAIN w :
          /\ w[k] = new
          /\ \A i \in DOMAIN w :
               i # k => i \in DOMAIN ns[p].value /\ w[i] = ns[p].value[i]
    BY <1>0 DEF Grown
  <2>2. ASSUME NEW q \in 1 .. Len(ns), NEW i, NEW m, HeldAt(ns, q, i, m)
        PROVE  m \in 1 .. Len(ns)
    <3>1. IsNode(ns[q], q + 1 .. Len(ns))
      BY DEF Forest, NodesTyped
    <3>2. m \in q + 1 .. Len(ns)
      BY <2>2, <3>1, LenProperties, ElementOfSeq DEF HeldAt, IsNode
    <3>3. QED
      BY <3>2, <1>1
  <2>3. ASSUME NEW q \in 1 .. Len(big), NEW i, NEW m, HeldAt(big, q, i, m)
        PROVE  \/ q \in 1 .. Len(ns) /\ HeldAt(ns, q, i, m) /\ m # new
               \/ q = p /\ i = k /\ m = new
    <3>1. CASE q = new
      BY <2>3, <3>1, <1>0, <1>4 DEF HeldAt
    <3>2. CASE q = p
      <4>1. i \in DOMAIN w /\ w[i] = m
        BY <2>3, <3>2, <1>3, <1>4, <1>0, <1>5 DEF HeldAt
      <4>2. CASE i = k
        BY <4>1, <4>2, <2>1, <3>2
      <4>3. CASE i # k
        <5>1. HeldAt(ns, p, i, m)
          BY <4>1, <4>3, <2>1 DEF HeldAt
        <5>2. QED
          BY <5>1, <2>2, <1>0, <1>1, <3>2
      <4>4. QED
        BY <4>2, <4>3
    <3>3. CASE q # new /\ q # p
      <4>1. q \in 1 .. Len(ns) /\ HeldAt(ns, q, i, m)
        BY <2>3, <3>3, <1>0, <1>1, <1>3, <1>4 DEF HeldAt
      <4>2. QED
        BY <4>1, <2>2, <1>0, <1>1
    <3>4. QED
      BY <3>1, <3>2, <3>3
  <2>4. QED
    BY <2>3 DEF Forest, HeldAtMostOnce
<1>9. QED
  BY <1>0, <1>1, <1>3, <1>4, <1>5, <1>6, <1>7, <1>8 DEF Forest, NodesTyped, Extends, big

\* The first value of a text.
LEMMA ForestPlanted ==
  ASSUME NEW v, IsNew(v)
  PROVE  Extends(<<v>>, <<>>, v)
<1> DEFINE ns == <<v>>
<1>1. ns \in Seq({v}) /\ Len(ns) = 1 /\ ns[1] = v
  OBVIOUS
<1> HIDE DEF ns
<1>2. NodesTyped(ns)
  BY <1>1, SeqOfRange, NodeWider DEF NodesTyped, IsNew
<1>3. HeldAtMostOnce(ns)
  BY <1>1 DEF HeldAtMostOnce, HeldAt, IsNew
<1>4. Len(<<>>) = 0
  OBVIOUS
<1>5. QED
  BY <1>1, <1>2, <1>3, <1>4 DEF Forest, Extends, ns

\* A value has a place to go.
HasPlace ==
  IF ref_stack = <<>> THEN nodes = <<>>
  ELSE /\ Innermost \in 1 .. Len(nodes)
       /\ Node(Innermost).kind # "scalar"
       /\ Node(Innermost).kind = "object" => object_element[1] = Innermost

LEMMA ValueHandled ==
  ASSUME Forest(nodes), HasPlace,
         NEW v, IsNew(v), handle_value(v)
  PROVE  Extends(nodes', nodes, v)
<1>1. nodes \in Seq(Range(nodes)) /\ Len(nodes) \in Nat
  BY LenProperties DEF Forest, NodesTyped
<1>2. CASE ref_stack = <<>>
  <2>1. nodes = <<>> /\ nodes' = <<v>>
    BY <1>2 DEF HasPlace, handle_value
  <2>2. QED
    BY <2>1, ForestPlanted
<1>3. CASE ref_stack # <<>>
  <2> DEFINE p == Innermost
             old == nodes[p].value
             w == IF Node(p).kind = "array" THEN Append(old, NewNode)
                  ELSE With(old, object_element[2], NewNode)
  <2>1. /\ p \in 1 .. Len(nodes) /\ nodes[p].kind # "scalar"
        /\ nodes[p].kind = "object" => object_element[1] = p
    BY <1>3 DEF HasPlace, Node
  <2>2. IsNode(nodes[p], p + 1 .. Len(nodes))
    BY <2>1 DEF Forest, NodesTyped
  <2>3. nodes[p].kind \in {"array", "object"}
    BY <2>1, <2>2 DEF IsNode
  <2>4. nodes' = Append(Refilled(nodes, p, w), v)
    BY <1>3, <2>1, <2>3 DEF handle_value, Node, Assigned, Refilled
  <2>5. (p + 1 .. Len(nodes)) \cup {NewNode} = p + 1 .. NewNode
    BY <1>1, <2>1 DEF NewNode
  <2>6. Grown(w, nodes[p].value, NewNode) /\ IsNode(Filled(nodes[p], w), p + 1 .. NewNode)
    <3>1. CASE nodes[p].kind = "array"
      <4>1. old \in Seq(p + 1 .. Len(nodes)) /\ w = Append(old, NewNode)
        BY <2>2, <3>1 DEF IsNode, Node
      <4> HIDE DEF w, old, p
      <4>2. Grown(w, old, NewNode) /\ w \in Seq(p + 1 .. NewNode)
        BY <4>1, <2>5, AppendGrows
      <4>3. QED
        BY <4>2, <2>2, <3>1, FilledIsNode DEF old
    <3>2. CASE nodes[p].kind = "object"
      <4>1. old \in [DOMAIN old -> p + 1 .. Len(nodes)] /\ w = With(old, object_element[2], NewNode)
        BY <2>2, <3>2 DEF IsNode, Node
      <4> HIDE DEF w, old, p
      <4>2. Grown(w, old, NewNode) /\ w \in [DOMAIN w -> p + 1 .. NewNode]
        BY <4>1, <2>5, WithGrows
      <4>3. QED
        BY <4>2, <2>2, <3>2, FilledIsNode DEF old
    <3>3. QED
      BY <2>3, <3>1, <3>2
  <2> HIDE DEF w, p
  <2>7. QED
    <3>1. /\ IsNode(Filled(nodes[p], w), p + 1 .. Len(nodes) + 1)
          /\ Grown(w, nodes[p].value, Len(nodes) + 1)
      BY <2>6 DEF NewNode
    <3>2. Extends(Append(Refilled(nodes, p, w), v), nodes, v)
      BY <2>1, <3>1, ForestGrows
    <3>3. QED
      BY <2>4, <3>2
<1>4. QED
  BY <1>2, <1>3

-----------------------------------------------------------------------------
(***************************************************************************)
(* The two stacks.                                                         *)
(***************************************************************************)

StacksTyped ==
  /\ ref_stack \in Seq(1 .. Len(nodes))
  /\ states \in Seq({"array", "object"})

\* Where the parser is tells what the innermost container is, also before it is
\* on the stack of the parser and while its key waits for a value.
PlaceKnown ==
  /\ pc \in {"firstKey", "firstSeparator"} => Node(Innermost).kind = "object"
  /\ pc = "firstElement" => Node(Innermost).kind = "array"
  /\ pc \in {"nextKey", "separator", "object"} =>
       states # <<>> /\ Last(states) = "object"
  /\ pc = "array" => states # <<>> /\ Last(states) = "array"
  /\ pc \in {"firstSeparator", "separator"} => object_element[1] = Innermost
  /\ pc = "value" /\ states = <<>> => nodes = <<>>

ParserInvariant ==
  /\ Forest(nodes)
  /\ StacksTyped
  /\ StacksAgree
  /\ pc \notin {"rejected", "destroy"} => PlaceKnown

LEMMA ParserStarts ==
  ASSUME ParserInit
  PROVE  ParserInvariant
<1>1. Forest(<<>>)
  BY EmptySeq DEF Forest, NodesTyped, HeldAtMostOnce
<1>2. StacksTyped /\ PlaceKnown
  BY EmptySeq DEF ParserInit, StacksTyped, PlaceKnown
<1>3. StacksAgree
  <2>1. pc = "value" /\ states = <<>> /\ ref_stack = <<>>
    BY DEF ParserInit
  <2>2. DOMAIN <<>> = {} /\ Len(<<>>) = 0
    OBVIOUS
  <2>3. QED
    BY <2>1, <2>2 DEF StacksAgree
<1>4. QED
  BY <1>1, <1>2, <1>3 DEF ParserInit, ParserInvariant

\* What both stacks say of the innermost container.
LEMMA InnermostKnown ==
  ASSUME StacksTyped, StacksAgree, Forest(nodes)
  PROVE  /\ Len(states) \in Nat /\ Len(ref_stack) \in Nat /\ Len(nodes) \in Nat
         /\ states = <<>> <=> Len(states) = 0
         /\ ref_stack = <<>> <=> Len(ref_stack) = 0
         /\ ref_stack # <<>> => Innermost \in 1 .. Len(nodes)
         /\ states # <<>> => Last(states) \in {"array", "object"}
         /\ (/\ pc \notin {"rejected", "destroy", "firstKey", "firstElement", "firstSeparator"}
             /\ states # <<>>) => Node(Innermost).kind = Last(states)
<1>1. /\ Len(states) \in Nat /\ Len(ref_stack) \in Nat /\ Len(nodes) \in Nat
      /\ states = <<>> <=> Len(states) = 0
      /\ ref_stack = <<>> <=> Len(ref_stack) = 0
  BY EmptySeq, LenProperties DEF StacksTyped, Forest, NodesTyped
<1>2. ref_stack # <<>> => Innermost \in 1 .. Len(nodes)
  BY FrontProperties DEF StacksTyped, Innermost
<1>3. states # <<>> => Last(states) \in {"array", "object"}
  BY FrontProperties DEF StacksTyped
<1>4. ASSUME pc \notin {"rejected", "destroy", "firstKey", "firstElement", "firstSeparator"},
             states # <<>>
      PROVE  Node(Innermost).kind = Last(states)
  <2>1. Len(ref_stack) = Len(states)
    BY <1>1, <1>4 DEF StacksAgree
  <2>a. DOMAIN states = 1 .. Len(states)
    BY LenProperties DEF StacksTyped
  <2>b. Len(states) \in DOMAIN states
    BY <1>1, <1>4, <2>a
  <2>2. QED
    BY <2>1, <2>b, <1>4 DEF StacksAgree, Innermost, Last
<1>5. QED
  BY <1>1, <1>2, <1>3, <1>4

LEMMA ValuePlaced ==
  ASSUME ParserInvariant, pc = "value"
  PROVE  HasPlace
<1>1. StacksTyped /\ StacksAgree /\ Forest(nodes) /\ PlaceKnown
  BY DEF ParserInvariant
<1>2. Len(ref_stack) = Len(states)
  BY <1>1, InnermostKnown DEF StacksAgree
<1>3. CASE ref_stack = <<>>
  <2>1. states = <<>>
    BY <1>1, <1>2, <1>3, InnermostKnown
  <2>2. QED
    BY <1>1, <1>3, <2>1 DEF HasPlace, PlaceKnown
<1>4. CASE ref_stack # <<>>
  <2>1. states # <<>>
    BY <1>1, <1>2, <1>4, InnermostKnown
  <2>2. /\ Innermost \in 1 .. Len(nodes)
        /\ Node(Innermost).kind = Last(states)
        /\ Last(states) \in {"array", "object"}
    BY <1>1, <1>4, <2>1, InnermostKnown
  <2>3. Last(states) = "object" => object_element[1] = Innermost
    BY <1>1, <2>1 DEF StacksAgree
  <2>4. QED
    BY <1>4, <2>2, <2>3 DEF HasPlace
<1>5. QED
  BY <1>3, <1>4

KindsAgree == \A i \in DOMAIN states : Node(ref_stack[i]).kind = states[i]

\* A value is complete.
LEMMA ValueEvaluated ==
  ASSUME NEW s, Evaluate(s), states' = s, Forest(nodes'), StacksTyped', KindsAgree',
         Len(ref_stack') = Len(states'), nodes' # <<>>
  PROVE  ParserInvariant'
<1>1. states' \in Seq({"array", "object"})
  BY DEF StacksTyped
<1>2. states' # <<>> => Last(states') \in {"array", "object"} /\ Len(states') # 0
  BY <1>1, FrontProperties
<1>3. ref_stack' = <<>> <=> Len(ref_stack') = 0
  BY EmptySeq DEF StacksTyped
<1>4. Len(states') \in Nat
  BY <1>1, LenProperties
<1>5. /\ pc' \in {"end", "array", "object"}
      /\ pc' = "end" => states' = <<>>
      /\ pc' = "array" => states' # <<>> /\ Last(states') = "array"
      /\ pc' = "object" => states' # <<>> /\ Last(states') = "object"
  BY <1>2 DEF Evaluate
<1>6. states' = <<>> => ref_stack' = <<>>
  BY <1>3, EmptySeq
<1>7. StacksAgree'
  BY <1>4, <1>5, <1>6 DEF StacksAgree, KindsAgree
<1>8. PlaceKnown'
  BY <1>5 DEF PlaceKnown
<1>9. QED
  BY <1>7, <1>8 DEF ParserInvariant

\* A node has been added, and the containers are as before.
LEMMA KindsKept ==
  ASSUME StacksTyped, Forest(nodes), NEW v, Extends(nodes', nodes, v)
  PROVE  /\ Len(nodes) \in Nat /\ Len(nodes') = NewNode
         /\ nodes' # <<>>
         /\ \A i \in DOMAIN ref_stack :
              /\ ref_stack[i] \in 1 .. Len(nodes)
              /\ nodes'[ref_stack[i]].kind = Node(ref_stack[i]).kind
         /\ ref_stack \in Seq(1 .. Len(nodes'))
         /\ nodes'[NewNode] = v
<1>1. Len(nodes) \in Nat /\ Len(nodes') = Len(nodes) + 1
  BY LenProperties DEF Forest, NodesTyped, Extends
<1>2. Len(<<>>) = 0
  OBVIOUS
<1>3. \A i \in DOMAIN ref_stack : ref_stack[i] \in 1 .. Len(nodes)
  BY LenProperties, ElementOfSeq DEF StacksTyped
<1>4. 1 .. Len(nodes) \subseteq 1 .. Len(nodes')
  BY <1>1
<1>5. ref_stack \in Seq(1 .. Len(nodes'))
  BY <1>4, SeqMonotonic DEF StacksTyped
<1>6. QED
  BY <1>1, <1>2, <1>3, <1>5 DEF Extends, NewNode, Node

LEMMA ParseScalarKeeps ==
  ASSUME ParserInvariant, ParseScalar
  PROVE  ParserInvariant'
<1>1. /\ pc = "value"
      /\ handle_value(Scalar(last_token))
      /\ UNCHANGED <<ref_stack, object_element, states>>
      /\ Evaluate(states)
  BY DEF ParseScalar
<1> DEFINE v == Scalar(last_token)
<1>2. IsNew(v)
  BY DEF IsNew, IsNode, Scalar
<1> HIDE DEF v
<1>3. StacksTyped /\ StacksAgree /\ Forest(nodes)
  BY DEF ParserInvariant
<1>4. Extends(nodes', nodes, v)
  BY <1>1, <1>2, <1>3, ValuePlaced, ValueHandled DEF v
<1>5. Len(ref_stack) = Len(states) /\ KindsAgree
  BY <1>1, <1>3, InnermostKnown DEF StacksAgree, KindsAgree
<1>6. StacksTyped' /\ Forest(nodes')
  BY <1>1, <1>3, <1>4, KindsKept DEF StacksTyped, Extends
<1>7. DOMAIN states = DOMAIN ref_stack
  BY <1>3, <1>5, LenProperties DEF StacksTyped
<1>8. KindsAgree'
  BY <1>1, <1>3, <1>4, <1>5, <1>7, KindsKept DEF KindsAgree, Node
<1>9. QED
  BY <1>1, <1>3, <1>4, <1>5, <1>6, <1>8, KindsKept, ValueEvaluated

\* A container is opened.
LEMMA BeginKeeps ==
  ASSUME ParserInvariant, BeginObject \/ BeginArray
  PROVE  ParserInvariant'
<1>1. PICK v \in {Object(<<>>), Array(<<>>)} :
        /\ pc = "value"
        /\ start_container(v)
        /\ UNCHANGED states
        /\ pc' = IF v.kind = "object" THEN "firstKey" ELSE "firstElement"
  BY DEF BeginObject, BeginArray, Object, Array
<1>2. handle_value(v) /\ ref_stack' = Append(ref_stack, NewNode) /\ UNCHANGED object_element
  BY <1>1 DEF start_container
<1>3. IsNew(v) /\ v.kind \in {"object", "array"}
  <2>1. <<>> \in Seq({}) /\ <<>> \in [{} -> {}] /\ DOMAIN <<>> = {}
    BY EmptySeq
  <2>2. CASE v = Object(<<>>)
    BY <2>1, <2>2 DEF IsNew, IsNode, Object
  <2>3. CASE v = Array(<<>>)
    BY <2>1, <2>3 DEF IsNew, IsNode, Array
  <2>4. QED
    BY <2>2, <2>3
<1>4. StacksTyped /\ StacksAgree /\ Forest(nodes)
  BY DEF ParserInvariant
<1>5. Extends(nodes', nodes, v)
  BY <1>1, <1>2, <1>3, <1>4, ValuePlaced, ValueHandled
<1>6. Len(ref_stack) = Len(states) /\ KindsAgree /\ Len(states) \in Nat
  BY <1>1, <1>4, InnermostKnown DEF StacksAgree, KindsAgree
<1>7. /\ ref_stack' \in Seq(1 .. Len(nodes'))
      /\ Len(ref_stack') = Len(states) + 1
      /\ \A i \in 1 .. Len(states) : ref_stack'[i] = ref_stack[i]
      /\ ref_stack'[Len(states) + 1] = NewNode
  <2>1. ref_stack \in Seq(1 .. Len(nodes')) /\ NewNode \in 1 .. Len(nodes')
    BY <1>4, <1>5, KindsKept DEF NewNode
  <2>2. QED
    BY <2>1, <1>2, <1>6, AppendProperties
<1>8. StacksTyped' /\ Forest(nodes')
  BY <1>1, <1>4, <1>5, <1>7 DEF StacksTyped, Extends
<1>9. DOMAIN states = 1 .. Len(states) /\ DOMAIN ref_stack = 1 .. Len(states)
  BY <1>4, <1>6, LenProperties DEF StacksTyped
<1>10. KindsAgree'
  BY <1>1, <1>4, <1>5, <1>6, <1>7, <1>9, KindsKept DEF KindsAgree, Node
<1>11. Innermost' = NewNode /\ nodes'[NewNode].kind = v.kind
  BY <1>4, <1>5, <1>7, KindsKept DEF Innermost, Last
<1>12. StacksAgree'
  BY <1>1, <1>7, <1>10 DEF StacksAgree, KindsAgree
<1>13. PlaceKnown'
  BY <1>1, <1>3, <1>11 DEF PlaceKnown, Node
<1>14. QED
  BY <1>8, <1>12, <1>13 DEF ParserInvariant

LEMMA EmptyContainerKeeps ==
  ASSUME ParserInvariant, EmptyContainer
  PROVE  ParserInvariant'
<1>1. /\ pc \in {"firstKey", "firstElement"}
      /\ end_container
      /\ Evaluate(states) /\ UNCHANGED states
  BY DEF EmptyContainer
<1>2. ref_stack' = Front(ref_stack) /\ UNCHANGED <<nodes, object_element>>
  BY <1>1 DEF end_container
<1>3. StacksTyped /\ StacksAgree /\ Forest(nodes)
  BY DEF ParserInvariant
<1>4. Len(ref_stack) = Len(states) + 1 /\ KindsAgree /\ Len(states) \in Nat
  BY <1>1, <1>3, InnermostKnown DEF StacksAgree, KindsAgree
<1>5. ref_stack # <<>>
  BY <1>3, <1>4, InnermostKnown
<1>6. /\ ref_stack' \in Seq(1 .. Len(nodes))
      /\ Len(ref_stack') = Len(states)
      /\ \A i \in 1 .. Len(states) : ref_stack'[i] = ref_stack[i]
  <2>1. /\ ref_stack' \in Seq(1 .. Len(nodes))
        /\ Len(ref_stack') = Len(ref_stack) - 1
        /\ \A i \in 1 .. Len(ref_stack) - 1 : ref_stack'[i] = ref_stack[i]
    BY <1>2, <1>3, <1>5, FrontProperties DEF StacksTyped
  <2>2. Len(ref_stack) - 1 = Len(states)
    BY <1>4
  <2>3. QED
    BY <2>1, <2>2
<1>7. StacksTyped'
  BY <1>1, <1>2, <1>3, <1>6 DEF StacksTyped
<1>8. KindsAgree'
  <2>1. DOMAIN states = 1 .. Len(states)
    BY <1>3, LenProperties DEF StacksTyped
  <2>2. QED
    BY <2>1, <1>1, <1>2, <1>4, <1>6 DEF KindsAgree, Node
<1>9. nodes' # <<>>
  <2>1. Innermost \in 1 .. Len(nodes) /\ Len(<<>>) = 0
    BY <1>3, <1>5, InnermostKnown
  <2>2. QED
    BY <2>1, <1>2
<1>10. QED
  BY <1>1, <1>2, <1>3, <1>6, <1>7, <1>8, <1>9, ValueEvaluated

LEMMA EndContainerKeeps ==
  ASSUME ParserInvariant, EndContainer
  PROVE  ParserInvariant'
<1>1. /\ pc \in {"array", "object"}
      /\ end_container
      /\ Evaluate(Popped)
      /\ states' = Front(states)
  BY DEF EndContainer, Popped
<1>2. ref_stack' = Front(ref_stack) /\ UNCHANGED <<nodes, object_element>>
  BY <1>1 DEF end_container
<1>3. StacksTyped /\ StacksAgree /\ Forest(nodes) /\ PlaceKnown
  BY <1>1 DEF ParserInvariant
<1>4. Len(ref_stack) = Len(states) /\ KindsAgree /\ Len(states) \in Nat
  BY <1>1, <1>3, InnermostKnown DEF StacksAgree, KindsAgree
<1>5. states # <<>> /\ ref_stack # <<>>
  BY <1>1, <1>3, <1>4, InnermostKnown DEF PlaceKnown
<1>6. /\ ref_stack' \in Seq(1 .. Len(nodes))
      /\ Len(ref_stack') = Len(states) - 1
      /\ \A i \in 1 .. Len(states) - 1 : ref_stack'[i] = ref_stack[i]
  BY <1>2, <1>3, <1>4, <1>5, FrontProperties DEF StacksTyped
<1>7. /\ states' \in Seq({"array", "object"})
      /\ Len(states') = Len(states) - 1
      /\ \A i \in 1 .. Len(states) - 1 : states'[i] = states[i]
  BY <1>1, <1>3, <1>5, FrontProperties DEF StacksTyped
<1>8. StacksTyped'
  BY <1>2, <1>6, <1>7 DEF StacksTyped
<1>9. KindsAgree'
  <2>1. DOMAIN states = 1 .. Len(states) /\ DOMAIN states' = 1 .. Len(states) - 1
    BY <1>3, <1>7, LenProperties DEF StacksTyped
  <2>2. ASSUME NEW i \in DOMAIN states'
        PROVE  Node(ref_stack[i])'.kind = states'[i]
    <3>1. i \in 1 .. Len(states) - 1 /\ i \in DOMAIN states
      BY <2>1, <1>4
    <3>2. Node(ref_stack[i]).kind = states[i]
      BY <3>1, <1>4 DEF KindsAgree
    <3>3. states'[i] = states[i] /\ ref_stack'[i] = ref_stack[i]
      BY <3>1, <1>6, <1>7
    <3>4. QED
      BY <3>2, <3>3, <1>2 DEF Node
  <2>3. QED
    BY <2>2 DEF KindsAgree
<1>10. nodes' # <<>>
  <2>1. Innermost \in 1 .. Len(nodes) /\ Len(<<>>) = 0
    BY <1>3, <1>5, InnermostKnown
  <2>2. QED
    BY <2>1, <1>2
<1>11. Evaluate(Popped) /\ states' = Popped
  BY <1>1 DEF Popped
<1>12. QED
  BY <1>2, <1>3, <1>6, <1>7, <1>8, <1>9, <1>10, <1>11, ValueEvaluated

\* The first element or the first member has been reached: the container goes
\* on the stack of the parser too.
LEMMA EnterKeeps ==
  ASSUME ParserInvariant,
         NEW kind \in {"array", "object"},
         pc \in {"firstElement", "firstSeparator"},
         kind = IF pc = "firstElement" THEN "array" ELSE "object",
         states' = Append(states, kind),
         pc' = "value",
         UNCHANGED builder
  PROVE  ParserInvariant'
<1>1. UNCHANGED <<nodes, ref_stack, object_element>>
  BY DEF builder
<1>2. StacksTyped /\ StacksAgree /\ Forest(nodes) /\ PlaceKnown
  BY DEF ParserInvariant
<1>3. Len(ref_stack) = Len(states) + 1 /\ KindsAgree /\ Len(states) \in Nat
  BY <1>2, InnermostKnown DEF StacksAgree, KindsAgree
<1>4. /\ states' \in Seq({"array", "object"}) /\ states' # <<>>
      /\ Len(states') = Len(states) + 1
      /\ \A i \in 1 .. Len(states) : states'[i] = states[i]
      /\ states'[Len(states) + 1] = kind
  BY <1>2, AppendProperties DEF StacksTyped
<1>5. StacksTyped' /\ Last(states') = kind /\ ref_stack[Len(states) + 1] = Innermost
  BY <1>1, <1>2, <1>3, <1>4 DEF StacksTyped, Last, Innermost
<1>6. Node(Innermost).kind = kind /\ (kind = "object" => object_element[1] = Innermost)
  BY <1>2 DEF PlaceKnown
<1>7. KindsAgree'
  <2>1. DOMAIN states = 1 .. Len(states) /\ DOMAIN states' = 1 .. Len(states) + 1
    BY <1>2, <1>4, LenProperties DEF StacksTyped
  <2>2. QED
    BY <2>1, <1>1, <1>3, <1>4, <1>5, <1>6 DEF KindsAgree, Node
<1>8. Innermost' = Innermost
  BY <1>1 DEF Innermost
<1>9. StacksAgree'
  BY <1>1, <1>3, <1>4, <1>5, <1>6, <1>7, <1>8 DEF StacksAgree, KindsAgree
<1>10. PlaceKnown'
  BY <1>4 DEF PlaceKnown
<1>11. QED
  BY <1>1, <1>2, <1>5, <1>9, <1>10 DEF ParserInvariant

\* Both stacks stay as they are.
LEMMA InsideKeeps ==
  ASSUME ParserInvariant,
         UNCHANGED <<states, nodes, ref_stack>>,
         \/ /\ pc \in {"firstKey", "nextKey"}
            /\ pc' = IF pc = "firstKey" THEN "firstSeparator" ELSE "separator"
            /\ object_element'[1] = Innermost
         \/ /\ UNCHANGED object_element
            /\ \/ pc = "separator" /\ pc' = "value"
               \/ pc = "array" /\ pc' = "value"
               \/ pc = "object" /\ pc' = "nextKey"
               \/ pc = "end" /\ pc' = "accepted"
               \/ pc' \in {"rejected", "destroy"}
  PROVE  ParserInvariant'
<1>1. CASE pc' \in {"rejected", "destroy"}
  BY <1>1 DEF ParserInvariant, StacksTyped, StacksAgree
<1>2. CASE pc' \notin {"rejected", "destroy"}
  <2>1. StacksTyped /\ StacksAgree /\ Forest(nodes) /\ PlaceKnown
    BY <1>2 DEF ParserInvariant
  <2>2. Innermost' = Innermost
    BY DEF Innermost
  <2>3. PlaceKnown'
    BY <1>2, <2>1, <2>2 DEF PlaceKnown, Node
  <2>4. StacksAgree'
    BY <1>2, <2>1, <2>2 DEF StacksAgree, PlaceKnown, Node
  <2>5. QED
    BY <2>1, <2>3, <2>4 DEF ParserInvariant, StacksTyped
<1>3. QED
  BY <1>1, <1>2

LEMMA ParserNext ==
  ASSUME ParserInvariant, [Next]_vars
  PROVE  ParserInvariant'
<1>1. CASE ParseScalar
  BY <1>1, ParseScalarKeeps
<1>2. CASE BeginObject \/ BeginArray
  BY <1>2, BeginKeeps
<1>3. CASE EmptyContainer
  BY <1>3, EmptyContainerKeeps
<1>4. CASE FirstElement
  <2>1. /\ pc = "firstElement" /\ pc' = "value"
        /\ states' = Append(states, "array") /\ UNCHANGED builder
    BY <1>4 DEF FirstElement
  <2>2. QED
    BY <2>1, EnterKeeps
<1>5. CASE Key
  <2>1. /\ pc \in {"firstKey", "nextKey"}
        /\ pc' = IF pc = "firstKey" THEN "firstSeparator" ELSE "separator"
        /\ object_element' = <<Innermost, last_token>>
        /\ UNCHANGED <<states, nodes, ref_stack>>
    BY <1>5 DEF Key, key
  <2>2. QED
    BY <2>1, InsideKeeps
<1>6. CASE Separator
  <2>1. /\ pc \in {"firstSeparator", "separator"} /\ pc' = "value"
        /\ states' = IF pc = "firstSeparator" THEN Append(states, "object") ELSE states
        /\ UNCHANGED builder
    BY <1>6 DEF Separator
  <2>2. CASE pc = "firstSeparator"
    BY <2>1, <2>2, EnterKeeps
  <2>3. CASE pc = "separator"
    BY <2>1, <2>3, InsideKeeps DEF builder
  <2>4. QED
    BY <2>1, <2>2, <2>3
<1>7. CASE Comma
  <2>1. /\ pc \in {"array", "object"}
        /\ pc' = IF pc = "array" THEN "value" ELSE "nextKey"
        /\ UNCHANGED <<states, builder>>
    BY <1>7 DEF Comma
  <2>2. QED
    BY <2>1, InsideKeeps DEF builder
<1>8. CASE EndContainer
  BY <1>8, EndContainerKeeps
<1>9. CASE Accept
  BY <1>9, InsideKeeps DEF Accept, builder
<1>10. CASE Reject
  BY <1>10, InsideKeeps DEF Reject, builder
<1>11. CASE BeginDestroy
  BY <1>11, InsideKeeps DEF BeginDestroy, builder
<1>12. CASE destroy \/ Returned \/ UNCHANGED vars
  <2>1. UNCHANGED parserVars
    BY <1>12 DEF destroy, Returned, vars
  <2>2. QED
    BY <2>1 DEF parserVars, builder, ParserInvariant, StacksTyped, StacksAgree,
                PlaceKnown, Node, Innermost
<1>13. QED
  BY <1>1, <1>2, <1>3, <1>4, <1>5, <1>6, <1>7, <1>8, <1>9, <1>10, <1>11, <1>12
  DEF Next, sax_parse_internal

\* The nodes form a forest whose roots are the text's value and what members of
\* the same name have replaced, and the stacks are in step.
THEOREM ParserInvariantHolds == Spec => []ParserInvariant
<1>1. Init => ParserInvariant
  BY ParserStarts DEF Init
<1>2. ParserInvariant /\ [Next]_vars => ParserInvariant'
  BY ParserNext
<1>3. QED
  BY <1>1, <1>2, PTL DEF Spec

\* The stack of sax_parse_internal and that of json_sax_dom_parser describe the
\* same nesting, for every token sequence.
THEOREM StacksAgreeHolds == Spec => []StacksAgree
<1>1. ParserInvariant => StacksAgree
  BY DEF ParserInvariant
<1>2. QED
  BY <1>1, ParserInvariantHolds, PTL
-----------------------------------------------------------------------------
(***************************************************************************)
(* Numbers, and sequences without repetitions.                             *)
(***************************************************************************)

LEMMA LeastElement ==
  ASSUME NEW S \in SUBSET Nat, S # {}
  PROVE  \E m \in S : \A k \in S : m <= k
<1> DEFINE R == {p \in Nat \X Nat : p[1] < p[2]}
<1>1. R = OpToRel(<, Nat)
  BY DEF OpToRel
<1>2. IsWellFoundedOn(R, Nat)
  BY <1>1, NatLessThanWellFounded
<1> HIDE DEF R
<1>3. PICK x \in S : \A y \in S : <<y, x>> \notin R
  BY <1>2, WFMin
<1>4. ASSUME NEW y \in S PROVE ~(y < x)
  <2>1. y \in Nat /\ x \in Nat /\ <<y, x>> \notin R
    BY <1>3
  <2>2. QED
    BY <2>1 DEF R
<1>5. QED
  BY <1>4

\* A sequence of members of S without repetitions.
Distinct(s, S) == s \in Seq(S) /\ IsInjective(s)

LEMMA SequenceRange ==
  ASSUME NEW S, NEW s \in Seq(S)
  PROVE  /\ Len(s) \in Nat /\ DOMAIN s = 1 .. Len(s)
         /\ Range(s) \subseteq S
         /\ \A x : x \in Range(s) <=> \E i \in 1 .. Len(s) : s[i] = x
         /\ s = <<>> <=> Range(s) = {}
<1>1. Len(s) \in Nat /\ DOMAIN s = 1 .. Len(s) /\ \A i \in 1 .. Len(s) : s[i] \in S
  BY LenProperties, ElementOfSeq
<1>2. s = <<>> <=> Len(s) = 0
  BY EmptySeq
<1>3. \A x : x \in Range(s) <=> \E i \in 1 .. Len(s) : s[i] = x
  BY <1>1 DEF Range
<1>4. s # <<>> => s[1] \in Range(s)
  BY <1>1, <1>2, <1>3
<1>5. s = <<>> => Range(s) = {}
  BY <1>1, <1>2, <1>3
<1>6. QED
  BY <1>1, <1>3, <1>4, <1>5

LEMMA ConcatDistinct ==
  ASSUME NEW S, NEW s, NEW t, Distinct(s, S), Distinct(t, S), Range(s) \cap Range(t) = {}
  PROVE  Distinct(s \o t, S) /\ Range(s \o t) = Range(s) \cup Range(t)
<1> DEFINE u == s \o t
           m == Len(s)
           n == Len(t)
<1>1. s \in Seq(S) /\ t \in Seq(S)
  BY DEF Distinct
<1>2. u \in Seq(S) /\ Len(u) = m + n /\ m \in Nat /\ n \in Nat
  BY <1>1, ConcatProperties, LenProperties
<1>3. /\ \A i \in 1 .. m : u[i] = s[i] /\ s[i] \in Range(s)
      /\ \A i \in 1 .. n : u[m + i] = t[i] /\ t[i] \in Range(t)
  BY <1>1, <1>2, ConcatProperties, SequenceRange
<1>4. \A i \in 1 .. m + n : i \in 1 .. m \/ \E k \in 1 .. n : i = m + k
  <2>1. \A i \in 1 .. m + n : i \in 1 .. m \/ (i - m \in 1 .. n /\ i = m + (i - m))
    BY <1>2
  <2>2. QED
    BY <2>1
<1>5. DOMAIN u = 1 .. m + n /\ DOMAIN s = 1 .. m /\ DOMAIN t = 1 .. n
  BY <1>1, <1>2, LenProperties
<1> HIDE DEF u, m, n
<1>6. IsInjective(u)
  <2>1. SUFFICES ASSUME NEW i \in 1 .. m + n, NEW j \in 1 .. m + n, u[i] = u[j]
                 PROVE  i = j
    BY <1>5 DEF IsInjective
  <2>2. /\ \A a, b \in 1 .. m : s[a] = s[b] => a = b
        /\ \A a, b \in 1 .. n : t[a] = t[b] => a = b
    BY <1>5 DEF Distinct, IsInjective
  <2>3. CASE i \in 1 .. m /\ j \in 1 .. m
    BY <2>1, <2>2, <2>3, <1>3
  <2>4. CASE \E a \in 1 .. n, b \in 1 .. n : i = m + a /\ j = m + b
    BY <2>1, <2>2, <2>4, <1>3
  <2>5. ~(i \in 1 .. m /\ \E b \in 1 .. n : j = m + b)
    BY <2>1, <1>3
  <2>6. ~(j \in 1 .. m /\ \E b \in 1 .. n : i = m + b)
    BY <2>1, <1>3
  <2>7. QED
    BY <2>3, <2>4, <2>5, <2>6, <1>4
<1>7. Range(u) = Range(s) \cup Range(t)
  <2>1. ASSUME NEW x \in Range(u) PROVE x \in Range(s) \cup Range(t)
    <3>1. PICK i \in 1 .. m + n : u[i] = x
      BY <1>5 DEF Range
    <3>2. QED
      BY <3>1, <1>3, <1>4
  <2>2. ASSUME NEW x \in Range(s) PROVE x \in Range(u)
    <3>1. PICK i \in 1 .. m : s[i] = x
      BY <1>5 DEF Range
    <3>2. u[i] = x /\ i \in DOMAIN u
      BY <3>1, <1>2, <1>3, <1>5
    <3>3. QED
      BY <3>2 DEF Range
  <2>3. ASSUME NEW x \in Range(t) PROVE x \in Range(u)
    <3>1. PICK i \in 1 .. n : t[i] = x
      BY <1>5 DEF Range
    <3>2. u[m + i] = x /\ m + i \in DOMAIN u
      BY <3>1, <1>2, <1>3, <1>5
    <3>3. QED
      BY <3>2 DEF Range
  <2>4. QED
    BY <2>1, <2>2, <2>3
<1>8. QED
  BY <1>2, <1>6, <1>7 DEF Distinct, u

LEMMA SingleDistinct ==
  ASSUME NEW S, NEW v \in S
  PROVE  Distinct(<<v>>, S) /\ Range(<<v>>) = {v}
BY DEF Distinct, IsInjective, Range

LEMMA AppendDistinct ==
  ASSUME NEW S, NEW s, Distinct(s, S), NEW v \in S, v \notin Range(s)
  PROVE  Distinct(Append(s, v), S) /\ Range(Append(s, v)) = Range(s) \cup {v}
<1>1. s \in Seq(S)
  BY DEF Distinct
<1>2. Append(s, v) = s \o <<v>>
  BY <1>1, AppendIsConcat
<1>3. QED
  BY <1>2, SingleDistinct, ConcatDistinct

LEMMA FrontDistinct ==
  ASSUME NEW S, NEW s, Distinct(s, S), s # <<>>
  PROVE  /\ Distinct(Front(s), S)
         /\ Last(s) \in Range(s)
         /\ Range(Front(s)) = Range(s) \ {Last(s)}
<1> DEFINE n == Len(s) - 1
           f == Front(s)
<1>1. s \in Seq(S)
  BY DEF Distinct
<1>2. /\ Len(s) \in Nat \ {0} /\ f \in Seq(S) /\ Len(f) = n
      /\ \A i \in 1 .. n : f[i] = s[i]
  BY <1>1, FrontProperties
<1>3. n \in Nat /\ Len(s) = n + 1 /\ Last(s) = s[n + 1]
  BY <1>2 DEF Last
<1>4. DOMAIN s = 1 .. n + 1 /\ DOMAIN f = 1 .. n
  BY <1>1, <1>2, <1>3, LenProperties
<1> HIDE DEF n, f
<1>5. \A a, b \in 1 .. n + 1 : s[a] = s[b] => a = b
  BY <1>4 DEF Distinct, IsInjective
<1>6. IsInjective(f)
  BY <1>2, <1>3, <1>4, <1>5 DEF IsInjective
<1>7. Last(s) \in Range(s)
  BY <1>3, <1>4 DEF Range
<1>8. Range(f) = Range(s) \ {Last(s)}
  <2>1. ASSUME NEW i \in 1 .. n PROVE f[i] \in Range(s) /\ f[i] # Last(s)
    <3>1. i \in 1 .. n + 1 /\ n + 1 \in 1 .. n + 1 /\ i # n + 1
      BY <1>3
    <3>2. QED
      BY <3>1, <1>2, <1>3, <1>4, <1>5 DEF Range
  <2>2. ASSUME NEW i \in 1 .. n + 1, s[i] # Last(s) PROVE s[i] \in Range(f)
    <3>1. i \in 1 .. n
      BY <2>2, <1>3
    <3>2. QED
      BY <3>1, <1>2, <1>4 DEF Range
  <2>3. QED
    BY <2>1, <2>2, <1>4 DEF Range
<1>9. QED
  BY <1>2, <1>6, <1>7, <1>8 DEF Distinct, f

-----------------------------------------------------------------------------
(***************************************************************************)
(* The tree: which values it has, and that each is held by one other.      *)
(***************************************************************************)

\* The values that are reached from the first along E, as a recursive function.
LEMMA Reachable ==
  ASSUME NEW E
  PROVE  \E f : f = [n \in Nat |-> n = 1 \/ \E m \in 1 .. n - 1 : f[m] /\ <<m, n>> \in E]
<1> DEFINE Closed(S) ==
             \A n \in Nat :
               n = 1 \/ (\E m \in 1 .. n - 1 : m \in S /\ <<m, n>> \in E) => n \in S
           R == {n \in Nat : \A S \in SUBSET Nat : Closed(S) => n \in S}
<1>1. Closed(R)
  <2>1. SUFFICES ASSUME NEW n \in Nat,
                        n = 1 \/ \E m \in 1 .. n - 1 : m \in R /\ <<m, n>> \in E,
                        NEW S \in SUBSET Nat, Closed(S)
                 PROVE  n \in S
    OBVIOUS
  <2>2. QED
    BY <2>1
<1>2. ASSUME NEW n \in R, n # 1
      PROVE  \E m \in 1 .. n - 1 : m \in R /\ <<m, n>> \in E
  <2>1. SUFFICES ASSUME ~ \E m \in 1 .. n - 1 : m \in R /\ <<m, n>> \in E
                 PROVE  FALSE
    OBVIOUS
  <2>2. Closed(R \ {n})
    BY <1>1, <1>2, <2>1
  <2>3. R \ {n} \in SUBSET Nat
    OBVIOUS
  <2>4. QED
    BY <2>2, <2>3
<1>3. \A n \in Nat : n \in R <=> n = 1 \/ \E m \in 1 .. n - 1 : m \in R /\ <<m, n>> \in E
  BY <1>1, <1>2
<1> HIDE DEF R
<1> DEFINE f == [n \in Nat |-> n \in R]
<1>4. \A n \in Nat : 1 .. n - 1 \subseteq Nat
  OBVIOUS
<1>5. f = [n \in Nat |-> n = 1 \/ \E m \in 1 .. n - 1 : f[m] /\ <<m, n>> \in E]
  <2>1. \A n \in Nat : \A m \in 1 .. n - 1 : f[m] <=> m \in R
    BY <1>4
  <2> HIDE DEF f
  <2> DEFINE P(n) == n = 1 \/ \E m \in 1 .. n - 1 : f[m] /\ <<m, n>> \in E
  <2>2. \A n \in Nat : (n \in R) <=> P(n)
    BY <1>3, <2>1
  <2> HIDE DEF P
  <2>3. \A n \in Nat : (n \in R) = P(n)
    BY <2>2 DEF P
  <2>4. f = [n \in Nat |-> P(n)]
    BY <2>3 DEF f
  <2>5. QED
    BY <2>4 DEF P
<1>6. QED
  BY <1>5

\* Whether a value is in the tree depends on those before it.
LEMMA InTreeUnfolded ==
  \A n \in Nat : InTree[n] <=> n = 1 \/ \E m \in 1 .. n - 1 : InTree[m] /\ n \in Range(Content(m))
<1> DEFINE E == {e \in Nat \X Nat : e[2] \in Range(Content(e[1]))}
           Def(f) == f = [n \in Nat |-> n = 1 \/ \E m \in 1 .. n - 1 : f[m] /\ n \in Range(Content(m))]
<1>1. \A n \in Nat : \A m \in 1 .. n - 1 : <<m, n>> \in E <=> n \in Range(Content(m))
  OBVIOUS
<1> HIDE DEF E
<1>2. PICK f : f = [n \in Nat |-> n = 1 \/ \E m \in 1 .. n - 1 : f[m] /\ <<m, n>> \in E]
  BY Reachable
<1>3. Def(f)
  <2> DEFINE P(n) == n = 1 \/ \E m \in 1 .. n - 1 : f[m] /\ <<m, n>> \in E
             Q(n) == n = 1 \/ \E m \in 1 .. n - 1 : f[m] /\ n \in Range(Content(m))
  <2>1. \A n \in Nat : P(n) <=> Q(n)
    BY <1>1
  <2>2. f = [n \in Nat |-> P(n)]
    BY <1>2
  <2>3. \A n \in Nat : P(n) = Q(n)
    BY <2>1
  <2> HIDE DEF P
  <2>4. f = [n \in Nat |-> Q(n)]
    BY <2>2, <2>3
  <2>5. QED
    BY <2>4
<1>4. InTree = CHOOSE g : Def(g)
  BY DEF InTree
<1> HIDE DEF Def
<1>5. Def(InTree)
  BY <1>3, <1>4
<1>6. QED
  BY <1>5 DEF Def

LEMMA SetToSeqDistinct ==
  ASSUME NEW S, IsFiniteSet(S)
  PROVE  Distinct(SetToSeq(S), S)
<1> DEFINE n == Cardinality(S)
<1>1. n \in Nat /\ ExistsBijection(1 .. n, S)
  BY FS_CardinalityType
<1>2. \E f \in [1 .. n -> S] : IsInjective(f)
  BY <1>1 DEF ExistsBijection, Bijection, Injection, IsInjective
<1>3. SetToSeq(S) \in [1 .. n -> S] /\ IsInjective(SetToSeq(S))
  BY <1>2 DEF SetToSeq
<1>4. QED
  BY <1>1, <1>3 DEF Distinct

\* What a value holds.
LEMMA ContentHeld ==
  ASSUME Forest(nodes), NEW n \in 1 .. Len(nodes)
  PROVE  /\ Distinct(Content(n), n + 1 .. Len(nodes))
         /\ \A x \in Range(Content(n)) : \E i : HeldAt(nodes, n, i, x)
<1> DEFINE V == n + 1 .. Len(nodes)
           w == nodes[n].value
<1>1. IsNode(nodes[n], V)
  BY DEF Forest, NodesTyped
<1>2. Len(nodes) \in Nat
  BY LenProperties DEF Forest, NodesTyped
<1>3. CASE nodes[n].kind = "array"
  <2>1. Content(n) = w /\ w \in Seq(V)
    BY <1>1, <1>3 DEF Content, Node, IsNode
  <2>2. \A i \in DOMAIN w : HeldAt(nodes, n, i, w[i])
    BY <1>3 DEF HeldAt
  <2>3. \A i, j \in DOMAIN w : w[i] = w[j] => i = j
    BY <2>2 DEF Forest, HeldAtMostOnce
  <2>4. QED
    BY <2>1, <2>2, <2>3 DEF Distinct, IsInjective, Range
<1>4. CASE nodes[n].kind = "object"
  <2>1. Content(n) = SetToSeq(Range(w)) /\ w \in [DOMAIN w -> V]
    BY <1>1, <1>4 DEF Content, Node, IsNode
  <2>2. Range(w) \subseteq V
    BY <2>1 DEF Range
  <2>3. IsFiniteSet(V)
    BY <1>2, FS_Interval
  <2>4. Distinct(Content(n), Range(w))
    BY <2>1, <2>2, <2>3, FS_Subset, SetToSeqDistinct
  <2>5. Range(Content(n)) \subseteq Range(w)
    BY <2>4, SequenceRange DEF Distinct
  <2>6. Distinct(Content(n), V)
    BY <2>2, <2>4, SeqMonotonic DEF Distinct
  <2>7. \A x \in Range(w) : \E i : HeldAt(nodes, n, i, x)
    BY <1>4 DEF HeldAt, Range
  <2>8. QED
    BY <2>5, <2>6, <2>7
<1>5. CASE nodes[n].kind = "scalar"
  <2>1. Content(n) = <<>>
    BY <1>5 DEF Content, Node
  <2>2. QED
    BY <2>1, EmptySeq DEF Distinct, IsInjective, Range
<1>6. QED
  BY <1>1, <1>3, <1>4, <1>5 DEF IsNode

-----------------------------------------------------------------------------
(***************************************************************************)
(* The places of the values while they are destroyed.                      *)
(***************************************************************************)

\* Every value v has its children ch[v], which are younger, and no value is the
\* child of two.
Family(ch) ==
  /\ DOMAIN ch \subseteq Nat
  /\ \A v \in DOMAIN ch :
       /\ Distinct(ch[v], DOMAIN ch)
       /\ \A x \in Range(ch[v]) : v < x
  /\ \A v, w \in DOMAIN ch : v # w => Range(ch[v]) \cap Range(ch[w]) = {}

\* Each value is in exactly one place: still a child of another one, waiting on
\* the stack s, freed, or one of the values cs whose destructor is running.
Apart(ch, s, fr, cs) ==
  /\ Family(ch)
  /\ Distinct(s, DOMAIN ch)
  /\ Distinct(fr, DOMAIN ch)
  /\ cs \subseteq DOMAIN ch
  /\ Range(s) \cap Range(fr) = {}
  /\ Range(s) \cap cs = {}
  /\ Range(fr) \cap cs = {}
  /\ \A v \in DOMAIN ch : Range(ch[v]) \cap (Range(s) \cup Range(fr) \cup cs) = {}
  /\ \A x \in DOMAIN ch \ (Range(s) \cup Range(fr) \cup cs) :
       \E v \in DOMAIN ch : x \in Range(ch[v])
  /\ \A v \in Range(fr) : ch[v] = <<>>

\* The children of p are moved to the stack.
LEMMA ApartMove ==
  ASSUME NEW ch, NEW s, NEW fr, NEW cs, Apart(ch, s, fr, cs), NEW p \in DOMAIN ch
  PROVE  Apart([ch EXCEPT ![p] = <<>>], s \o ch[p], fr, cs)
<1> DEFINE V == DOMAIN ch
           new == [ch EXCEPT ![p] = <<>>]
           t == s \o ch[p]
<1>1. DOMAIN new = V /\ new[p] = <<>> /\ \A v \in V : v # p => new[v] = ch[v]
  OBVIOUS
<1>2. Distinct(<<>>, V) /\ Range(<<>>) = {}
  BY EmptySeq DEF Distinct, IsInjective, Range
<1>3. \A v \in V : Range(new[v]) = IF v = p THEN {} ELSE Range(ch[v])
  BY <1>1, <1>2
<1> HIDE DEF new
<1>4. Distinct(t, V) /\ Range(t) = Range(s) \cup Range(ch[p])
  BY ConcatDistinct DEF Apart, Family
<1> HIDE DEF t, V
<1>5. Family(new)
  <2>1. V \subseteq Nat
    BY DEF Apart, Family, V
  <2>2. \A v \in V : Distinct(new[v], V)
    BY <1>1, <1>2 DEF Apart, Family, V
  <2>3. \A v \in V : \A x \in Range(new[v]) : v < x
    BY <1>3 DEF Apart, Family, V
  <2>4. \A v, w \in V : v # w => Range(new[v]) \cap Range(new[w]) = {}
    BY <1>3 DEF Apart, Family, V
  <2>5. QED
    BY <1>1, <2>1, <2>2, <2>3, <2>4 DEF Family
<1>6. \A v \in V : Range(new[v]) \cap (Range(t) \cup Range(fr) \cup cs) = {}
  BY <1>3, <1>4 DEF Apart, Family, V
<1>7. ASSUME NEW x \in V \ (Range(t) \cup Range(fr) \cup cs)
      PROVE  \E v \in V : x \in Range(new[v])
  <2>1. PICK v \in V : x \in Range(ch[v])
    BY <1>4 DEF Apart, V
  <2>2. QED
    BY <2>1, <1>3, <1>4
<1>8. \A v \in Range(fr) : new[v] = <<>>
  BY <1>1 DEF Apart, V, Distinct, Range
<1>9. Distinct(fr, V) /\ cs \subseteq V /\ Range(fr) \cap cs = {}
  BY DEF Apart, V
<1>10. Range(t) \cap Range(fr) = {} /\ Range(t) \cap cs = {}
  BY <1>4 DEF Apart, V
<1>11. Apart(new, t, fr, cs)
  BY <1>1, <1>4, <1>5, <1>6, <1>7, <1>8, <1>9, <1>10 DEF Apart
<1>12. QED
  BY <1>11 DEF new, t

\* The destructor of the last value on the stack begins.
LEMMA ApartTake ==
  ASSUME NEW ch, NEW s, NEW fr, NEW cs, Apart(ch, s, fr, cs), s # <<>>
  PROVE  /\ Last(s) \in DOMAIN ch
         /\ Last(s) \notin cs
         /\ Apart(ch, Front(s), fr, cs \cup {Last(s)})
<1>1. /\ Distinct(Front(s), DOMAIN ch)
      /\ Last(s) \in Range(s)
      /\ Range(Front(s)) = Range(s) \ {Last(s)}
  BY FrontDistinct DEF Apart
<1>2. Range(s) \subseteq DOMAIN ch
  BY SequenceRange DEF Apart, Distinct
<1>3. Range(Front(s)) \cup Range(fr) \cup (cs \cup {Last(s)}) = Range(s) \cup Range(fr) \cup cs
  BY <1>1
<1>4. /\ Range(Front(s)) \cap Range(fr) = {}
      /\ Range(Front(s)) \cap (cs \cup {Last(s)}) = {}
      /\ Range(fr) \cap (cs \cup {Last(s)}) = {}
      /\ Last(s) \notin cs
  BY <1>1 DEF Apart
<1>5. QED
  BY <1>1, <1>2, <1>3, <1>4 DEF Apart

\* A destructor ends.
LEMMA ApartFree ==
  ASSUME NEW ch, NEW s, NEW fr, NEW cs, Apart(ch, s, fr, cs), NEW v \in cs, ch[v] = <<>>
  PROVE  Apart(ch, s, Append(fr, v), cs \ {v})
<1>1. Distinct(Append(fr, v), DOMAIN ch) /\ Range(Append(fr, v)) = Range(fr) \cup {v}
  BY AppendDistinct DEF Apart
<1>2. Range(s) \cup Range(Append(fr, v)) \cup (cs \ {v}) = Range(s) \cup Range(fr) \cup cs
  BY <1>1
<1>3. /\ Range(s) \cap Range(Append(fr, v)) = {}
      /\ Range(s) \cap (cs \ {v}) = {}
      /\ Range(Append(fr, v)) \cap (cs \ {v}) = {}
      /\ \A x \in Range(Append(fr, v)) : ch[x] = <<>>
  BY <1>1 DEF Apart
<1>4. QED
  BY <1>1, <1>2, <1>3 DEF Apart

\* In the end nothing is left: the oldest value left over would be a child of one
\* that has been freed, and those have none.
LEMMA ApartDone ==
  ASSUME NEW ch, NEW fr, Apart(ch, <<>>, fr, {})
  PROVE  Range(fr) = DOMAIN ch
<1>1. Range(<<>>) = {}
  BY DEF Range
<1>2. Range(fr) \subseteq DOMAIN ch /\ DOMAIN ch \subseteq Nat
  BY SequenceRange DEF Apart, Distinct, Family
<1>3. SUFFICES ASSUME DOMAIN ch \ Range(fr) # {} PROVE FALSE
  BY <1>2
<1>4. PICK x \in DOMAIN ch \ Range(fr) : \A y \in DOMAIN ch \ Range(fr) : x <= y
  BY <1>2, <1>3, LeastElement
<1>5. PICK v \in DOMAIN ch : x \in Range(ch[v])
  BY <1>1, <1>4 DEF Apart
<1>6. v < x /\ v \in Nat /\ x \in Nat
  BY <1>2, <1>5 DEF Apart, Family
<1>7. v \in Range(fr)
  BY <1>4, <1>6
<1>8. QED
  BY <1>1, <1>5, <1>7 DEF Apart

\* The values of the tree when its destruction begins: the root is in no other.
LEMMA TreeApart ==
  ASSUME Forest(nodes),
         NEW ch, ch = [n \in {m \in DOMAIN nodes : InTree[m]} |-> Content(n)]
  PROVE  Apart(ch, <<>>, <<>>, IF nodes = <<>> THEN {} ELSE {1})
<1> DEFINE V == {m \in DOMAIN nodes : InTree[m]}
           cs == IF nodes = <<>> THEN {} ELSE {1}
<1>1. Len(nodes) \in Nat /\ DOMAIN nodes = 1 .. Len(nodes) /\ (nodes = <<>> <=> Len(nodes) = 0)
  BY LenProperties, EmptySeq DEF Forest, NodesTyped
<1>2. V \subseteq Nat /\ DOMAIN ch = V /\ \A v \in V : ch[v] = Content(v) /\ v \in 1 .. Len(nodes)
  BY <1>1
<1>3. /\ \A n \in V : n = 1 \/ \E m \in V : n \in Range(ch[m])
      /\ \A m \in V : \A n \in m + 1 .. Len(nodes) : n \in Range(ch[m]) => n \in V
      /\ nodes # <<>> => 1 \in V
  <2>1. ASSUME NEW n \in V, n # 1 PROVE \E m \in V : n \in Range(ch[m])
    <3>1. PICK m \in 1 .. n - 1 : InTree[m] /\ n \in Range(Content(m))
      BY <1>2, <2>1, InTreeUnfolded
    <3>2. m \in 1 .. Len(nodes)
      BY <1>1, <1>2
    <3>3. m \in V
      BY <3>1, <3>2, <1>1
    <3>4. QED
      BY <3>1, <3>3, <1>2
  <2>2. ASSUME NEW m \in V, NEW n \in m + 1 .. Len(nodes), n \in Range(ch[m])
        PROVE  n \in V
    <3>1. n \in Nat /\ n \in 1 .. Len(nodes) /\ m \in 1 .. n - 1
      BY <1>1, <1>2
    <3>2. InTree[n]
      BY <2>2, <3>1, <1>2, InTreeUnfolded
    <3>3. QED
      BY <3>1, <3>2, <1>1
  <2>3. nodes # <<>> => 1 \in V
    BY <1>1, InTreeUnfolded
  <2>4. QED
    BY <2>1, <2>2, <2>3
<1> HIDE DEF V
<1>4. ASSUME NEW v \in V
      PROVE  /\ Distinct(ch[v], V)
             /\ \A x \in Range(ch[v]) : v < x /\ \E i : HeldAt(nodes, v, i, x)
  <2>1. /\ Distinct(ch[v], v + 1 .. Len(nodes))
        /\ \A x \in Range(ch[v]) : \E i : HeldAt(nodes, v, i, x)
    BY <1>2, ContentHeld
  <2>2. Range(ch[v]) \subseteq v + 1 .. Len(nodes)
    BY <2>1, SequenceRange DEF Distinct
  <2>3. Range(ch[v]) \subseteq V
    BY <2>2, <1>3
  <2>4. ch[v] \in Seq(Range(ch[v]))
    BY <2>1, SeqOfRange DEF Distinct
  <2>5. ch[v] \in Seq(V)
    BY <2>3, <2>4, SeqMonotonic
  <2>6. \A x \in v + 1 .. Len(nodes) : v < x
    BY <1>1, <1>2
  <2>7. QED
    BY <2>1, <2>2, <2>5, <2>6 DEF Distinct
<1>5. ASSUME NEW v \in V, NEW w \in V, v # w
      PROVE  Range(ch[v]) \cap Range(ch[w]) = {}
  <2>1. SUFFICES ASSUME NEW x \in Range(ch[v]) \cap Range(ch[w]) PROVE FALSE
    OBVIOUS
  <2>2. PICK i, j : HeldAt(nodes, v, i, x) /\ HeldAt(nodes, w, j, x)
    BY <1>4
  <2>3. v \in 1 .. Len(nodes) /\ w \in 1 .. Len(nodes)
    BY <1>2
  <2>4. QED
    BY <2>2, <2>3, <1>5 DEF Forest, HeldAtMostOnce
<1>6. Family(ch)
  BY <1>2, <1>4, <1>5 DEF Family
<1>7. Distinct(<<>>, V) /\ Range(<<>>) = {}
  BY EmptySeq DEF Distinct, IsInjective, Range
<1>8. cs \subseteq V
  BY <1>3
<1>9. \A v \in V : Range(ch[v]) \cap (Range(<<>>) \cup Range(<<>>) \cup cs) = {}
  BY <1>2, <1>4, <1>7
<1>10. \A x \in V \ (Range(<<>>) \cup Range(<<>>) \cup cs) : \E v \in V : x \in Range(ch[v])
  <2>1. CASE nodes = <<>>
    BY <2>1, <1>1, <1>2
  <2>2. CASE nodes # <<>>
    BY <2>2, <1>3
  <2>3. QED
    BY <2>1, <2>2
<1> HIDE DEF cs
<1>11. QED
  BY <1>2, <1>6, <1>7, <1>8, <1>9, <1>10 DEF Apart, cs

-----------------------------------------------------------------------------
(***************************************************************************)
(* The destructors that are running.                                       *)
(***************************************************************************)

LEMMA OneCall ==
  ASSUME NEW a
  PROVE  /\ <<a>> # <<>> /\ Last(<<a>>) = a /\ Front(<<a>>) = <<>>
         /\ \A b : Append(<<>>, b) = <<b>>
         /\ \A b : Append(<<a>>, b) = <<a, b>>
<1> DEFINE s == <<a>>
           f == Front(s)
<1>1. s \in Seq({a}) /\ Len(s) = 1 /\ s[1] = a /\ s # <<>>
  OBVIOUS
<1> HIDE DEF s
<1>2. f \in Seq({a}) /\ Len(f) = 0
  BY <1>1, FrontProperties
<1>3. f = <<>>
  BY <1>2, EmptySeq
<1>4. Last(s) = a
  BY <1>1 DEF Last
<1> HIDE DEF f
<1>5. s # <<>> /\ Last(s) = a /\ f = <<>>
  BY <1>1, <1>3, <1>4
<1>6. ASSUME NEW b PROVE Append(<<>>, b) = <<b>>
  OBVIOUS
<1>7. ASSUME NEW b PROVE Append(<<a>>, b) = <<a, b>>
  <2> DEFINE u == Append(<<a>>, b)
  <2>1. u \in Seq({a, b}) /\ Len(u) = 2 /\ u[1] = a /\ u[2] = b
    <3>1. <<a>> \in Seq({a, b}) /\ Len(<<a>>) = 1 /\ <<a>>[1] = a /\ b \in {a, b}
      OBVIOUS
    <3>2. QED
      BY <3>1, AppendProperties
  <2> HIDE DEF u
  <2>2. u = <<a, b>>
    BY <2>1
  <2>3. QED
    BY <2>2 DEF u
<1>8. QED
  BY <1>5, <1>6, <1>7 DEF s, f

LEMMA TwoCalls ==
  ASSUME NEW a, NEW b
  PROVE  <<a, b>> # <<>> /\ Last(<<a, b>>) = b /\ Front(<<a, b>>) = <<a>>
<1> DEFINE s == <<a, b>>
           f == Front(s)
<1>1. s \in Seq({a, b}) /\ Len(s) = 2 /\ s[1] = a /\ s[2] = b
  OBVIOUS
<1> HIDE DEF s
<1>2. s # <<>> /\ Last(s) = b
  <2>1. s # <<>>
    BY <1>1 DEF s
  <2>2. QED
    BY <1>1, <2>1 DEF Last
<1>3. f \in Seq({a, b}) /\ Len(f) = 1 /\ f[1] = a
  <2>1. /\ f \in Seq({a, b})
        /\ Len(f) = Len(s) - 1
        /\ \A i \in 1 .. Len(s) - 1 : f[i] = s[i]
    BY <1>1, <1>2, FrontProperties
  <2>2. Len(s) - 1 = 1 /\ 1 \in 1 .. 1
    BY <1>1
  <2>3. QED
    BY <1>1, <2>1, <2>2
<1> HIDE DEF f
<1>4. f = <<a>>
  BY <1>3
<1>5. QED
  BY <1>2, <1>4 DEF s, f

\* A call of destroy for the value v.
CallAt(v, stack, where) == [value |-> v, stack |-> stack, pc |-> where]

Places == {"flatten", "loop", "release"}

\* No destructor is running: the tree was empty, or all of it is gone.
Idle == calls = <<>> /\ Apart(children, <<>>, freed, {})

\* The destructor of the root.
RootRuns(s, where) ==
  /\ calls = <<CallAt(1, s, where)>>
  /\ where \in Places
  /\ where # "loop" => s = <<>>
  /\ where # "flatten" => children[1] = <<>>
  /\ Apart(children, s, freed, {1})

\* The destructor of another value, called by that of the root: its children are
\* on the stack of the root, and its own stack stays empty.
ItemRuns(s, v, where) ==
  /\ calls = <<CallAt(1, s, "loop"), CallAt(v, <<>>, where)>>
  /\ where \in Places
  /\ v # 1
  /\ children[1] = <<>> /\ children[v] = <<>>
  /\ Apart(children, s, freed, {1, v})

DestroyInvariant ==
  /\ pc # "destroy" => calls = <<>> /\ freed = <<>>
  /\ pc = "destroy" =>
       \/ Idle
       \/ \E s, where : RootRuns(s, where)
       \/ \E s, v, where : ItemRuns(s, v, where)

LEMMA CallContinued ==
  ASSUME NEW v, NEW s, NEW where, NEW t, NEW w, Running = CallAt(v, s, where)
  PROVE  Continued(t, w) = Append(Front(calls), CallAt(v, t, w))
<1> DEFINE r == [Running EXCEPT !.stack = t]
<1>1. r = [value |-> v, stack |-> t, pc |-> where]
  BY DEF CallAt
<1> HIDE DEF r
<1>2. [r EXCEPT !.pc = w] = [value |-> v, stack |-> t, pc |-> w]
  BY <1>1
<1>3. [Running EXCEPT !.stack = t, !.pc = w] = CallAt(v, t, w)
  BY <1>2 DEF r, CallAt
<1>4. QED
  BY <1>3 DEF Continued

LEMMA RootCall ==
  ASSUME NEW s, NEW where, RootRuns(s, where)
  PROVE  /\ Running = CallAt(1, s, where) /\ calls # <<>> /\ Front(calls) = <<>>
         /\ \A t, w : Continued(t, w) = <<CallAt(1, t, w)>>
<1>1. Running = CallAt(1, s, where) /\ calls # <<>> /\ Front(calls) = <<>>
  BY OneCall DEF RootRuns, Running
<1>2. ASSUME NEW t, NEW w PROVE Continued(t, w) = <<CallAt(1, t, w)>>
  BY <1>1, CallContinued, OneCall
<1>3. QED
  BY <1>1, <1>2

LEMMA ItemCall ==
  ASSUME NEW s, NEW v, NEW where, ItemRuns(s, v, where)
  PROVE  /\ Running = CallAt(v, <<>>, where) /\ calls # <<>>
         /\ Front(calls) = <<CallAt(1, s, "loop")>>
         /\ \A t, w : Continued(t, w) = <<CallAt(1, s, "loop"), CallAt(v, t, w)>>
<1>1. /\ Running = CallAt(v, <<>>, where) /\ calls # <<>>
      /\ Front(calls) = <<CallAt(1, s, "loop")>>
  BY TwoCalls DEF ItemRuns, Running
<1>2. ASSUME NEW t, NEW w
      PROVE  Continued(t, w) = <<CallAt(1, s, "loop"), CallAt(v, t, w)>>
  BY <1>1, CallContinued, OneCall
<1>3. QED
  BY <1>1, <1>2

\* A step of the destructor of the root.
LEMMA RootStep ==
  ASSUME NEW s, NEW where, RootRuns(s, where),
         Flatten \/ DestroyItem \/ EndLoop \/ Release
  PROVE  \/ Idle'
         \/ \E t, w : RootRuns(t, w)'
         \/ \E t, v, w : ItemRuns(t, v, w)'
<1>1. /\ Running.value = 1 /\ Running.stack = s /\ Running.pc = where
      /\ Front(calls) = <<>>
      /\ \A t, w : Continued(t, w) = <<CallAt(1, t, w)>>
  BY RootCall DEF CallAt
<1>2. 1 \in DOMAIN children /\ Apart(children, s, freed, {1})
  BY DEF RootRuns, Apart
<1>3. CASE Flatten
  <2>1. where = "flatten" /\ s = <<>>
    BY <1>1, <1>3 DEF Flatten, In, RootRuns
  <2>0. PICK t : t = <<>> \o children[1]
    OBVIOUS
  <2>2. /\ calls' = <<CallAt(1, t, "loop")>>
        /\ children' = [children EXCEPT ![1] = <<>>]
        /\ freed' = freed
    BY <1>1, <1>3, <2>0 DEF Flatten, Moved
  <2>3. Apart(children', t, freed, {1})
    BY <1>2, <2>1, <2>2, <2>0, ApartMove
  <2>4. children'[1] = <<>>
    BY <1>2, <2>2
  <2>5. RootRuns(t, "loop")'
    BY <2>2, <2>3, <2>4 DEF RootRuns, Places
  <2>6. QED
    BY <2>5
<1>4. CASE DestroyItem
  <2> DEFINE v == Last(s)
  <2>0. PICK t : t = Front(s) \o children[v]
    OBVIOUS
  <2>1. where = "loop" /\ s # <<>> /\ children[1] = <<>>
    BY <1>1, <1>4 DEF DestroyItem, In, RootRuns
  <2>2. /\ calls' = Append(<<CallAt(1, t, "loop")>>, CallAt(v, <<>>, "flatten"))
        /\ children' = [children EXCEPT ![v] = <<>>]
        /\ freed' = freed
    BY <1>1, <1>4, <2>0 DEF DestroyItem, Moved, Taken, Call, CallAt
  <2>3. v \in DOMAIN children /\ v # 1 /\ Apart(children, Front(s), freed, {1, v})
    <3>1. {1} \cup {v} = {1, v}
      OBVIOUS
    <3>2. v \in DOMAIN children /\ v \notin {1} /\ Apart(children, Front(s), freed, {1} \cup {v})
      BY <1>2, <2>1, ApartTake
    <3>3. QED
      BY <3>1, <3>2
  <2>4. children'[1] = <<>> /\ children'[v] = <<>>
    BY <1>2, <2>1, <2>2, <2>3
  <2> HIDE DEF v
  <2>5. Apart(children', t, freed, {1, v})
    BY <2>2, <2>3, <2>0, ApartMove
  <2>6. calls' = <<CallAt(1, t, "loop"), CallAt(v, <<>>, "flatten")>>
    BY <2>2, OneCall
  <2>7. ItemRuns(t, v, "flatten")'
    BY <2>2, <2>3, <2>4, <2>5, <2>6 DEF ItemRuns, Places
  <2>8. QED
    BY <2>7
<1>5. CASE EndLoop
  <2>1. where = "loop" /\ s = <<>> /\ children[1] = <<>>
    BY <1>1, <1>5 DEF EndLoop, In, RootRuns
  <2>2. calls' = <<CallAt(1, <<>>, "release")>> /\ children' = children /\ freed' = freed
    BY <1>1, <1>5 DEF EndLoop
  <2>3. RootRuns(<<>>, "release")'
    BY <1>2, <2>1, <2>2 DEF RootRuns, Places
  <2>4. QED
    BY <2>3
<1>6. CASE Release
  <2>1. where = "release" /\ s = <<>> /\ children[1] = <<>>
    BY <1>1, <1>6 DEF Release, In, RootRuns
  <2>2. calls' = <<>> /\ children' = children /\ freed' = Append(freed, 1)
    BY <1>1, <1>6, <2>1 DEF Release
  <2>3. {1} \ {1} = {}
    OBVIOUS
  <2>4. Apart(children, <<>>, Append(freed, 1), {1} \ {1})
    BY <1>2, <2>1, ApartFree
  <2>5. Idle'
    BY <2>2, <2>3, <2>4 DEF Idle
  <2>6. QED
    BY <2>5
<1>7. QED
  BY <1>3, <1>4, <1>5, <1>6

\* A step of the destructor of another value.
LEMMA ItemStep ==
  ASSUME NEW s, NEW v, NEW where, ItemRuns(s, v, where),
         Flatten \/ DestroyItem \/ EndLoop \/ Release
  PROVE  \/ \E t, w : RootRuns(t, w)'
         \/ \E t, u, w : ItemRuns(t, u, w)'
<1>1. /\ Running.value = v /\ Running.stack = <<>> /\ Running.pc = where
      /\ Front(calls) = <<CallAt(1, s, "loop")>>
      /\ \A t, w : Continued(t, w) = <<CallAt(1, s, "loop"), CallAt(v, t, w)>>
  BY ItemCall DEF CallAt
<1>2. /\ v \in DOMAIN children /\ Apart(children, s, freed, {1, v})
      /\ children[1] = <<>> /\ children[v] = <<>> /\ v # 1
  BY DEF ItemRuns, Apart
<1>3. CASE Flatten
  <2>1. <<>> \o <<>> = <<>> /\ s \o <<>> = s
    <3>1. s \in Seq(DOMAIN children) /\ <<>> \in Seq({})
      BY <1>2, EmptySeq DEF Apart, Distinct
    <3>2. QED
      BY <3>1, ConcatEmptySeq
  <2>2. /\ calls' = <<CallAt(1, s, "loop"), CallAt(v, <<>>, "loop")>>
        /\ children' = [children EXCEPT ![v] = <<>>]
        /\ freed' = freed
    BY <1>1, <1>2, <1>3, <2>1 DEF Flatten, Moved
  <2>3. Apart(children', s \o children[v], freed, {1, v})
    BY <1>2, <2>2, ApartMove
  <2>4. children'[1] = <<>> /\ children'[v] = <<>>
    BY <1>2, <2>2
  <2>5. ItemRuns(s, v, "loop")'
    BY <1>2, <2>1, <2>2, <2>3, <2>4 DEF ItemRuns, Places
  <2>6. QED
    BY <2>5
<1>4. CASE DestroyItem
  BY <1>1, <1>4 DEF DestroyItem
<1>5. CASE EndLoop
  <2>1. /\ calls' = <<CallAt(1, s, "loop"), CallAt(v, <<>>, "release")>>
        /\ children' = children /\ freed' = freed
    BY <1>1, <1>5 DEF EndLoop
  <2>2. ItemRuns(s, v, "release")'
    BY <1>2, <2>1 DEF ItemRuns, Places
  <2>3. QED
    BY <2>2
<1>6. CASE Release
  <2>1. calls' = <<CallAt(1, s, "loop")>> /\ children' = children /\ freed' = Append(freed, v)
    BY <1>1, <1>2, <1>6 DEF Release
  <2>2. {1, v} \ {v} = {1}
    BY <1>2
  <2>3. Apart(children, s, Append(freed, v), {1, v} \ {v})
    BY <1>2, ApartFree
  <2>4. RootRuns(s, "loop")'
    BY <1>2, <2>1, <2>2, <2>3 DEF RootRuns, Places
  <2>5. QED
    BY <2>4
<1>7. QED
  BY <1>3, <1>4, <1>5, <1>6

LEMMA ParsesOnly ==
  ASSUME sax_parse_internal
  PROVE  pc # "destroy" /\ pc' # "destroy"
<1>1. CASE ParseScalar
  BY <1>1 DEF ParseScalar, Evaluate
<1>2. CASE BeginObject
  BY <1>2 DEF BeginObject
<1>3. CASE BeginArray
  BY <1>3 DEF BeginArray
<1>4. CASE EmptyContainer
  <2>1. pc \in {"firstKey", "firstElement"} /\ Evaluate(states)
    BY <1>4 DEF EmptyContainer
  <2>2. QED
    BY <2>1 DEF Evaluate
<1>5. CASE FirstElement
  <2>1. pc = "firstElement" /\ pc' = "value"
    BY <1>5 DEF FirstElement
  <2>2. QED
    BY <2>1
<1>6. CASE Key
  BY <1>6 DEF Key
<1>7. CASE Separator
  BY <1>7 DEF Separator
<1>8. CASE Comma
  <2>1. /\ pc \in {"array", "object"}
        /\ pc' = IF pc = "array" THEN "value" ELSE "nextKey"
    BY <1>8 DEF Comma
  <2>2. QED
    BY <2>1
<1>9. CASE EndContainer
  <2>1. pc \in {"array", "object"} /\ Evaluate(Popped)
    BY <1>9 DEF EndContainer
  <2>2. QED
    BY <2>1 DEF Evaluate
<1>10. CASE Accept
  BY <1>10 DEF Accept
<1>11. CASE Reject
  <2>1. pc = "destroy" => Expected = {last_token}
    <3>1. SUFFICES ASSUME pc = "destroy" PROVE Expected = {last_token}
      OBVIOUS
    <3>2. /\ pc # "value" /\ pc # "firstKey" /\ pc # "nextKey" /\ pc # "end"
          /\ pc \notin {"firstSeparator", "separator"} /\ pc # "array" /\ pc # "object"
      BY <3>1
    <3>3. QED
      BY <3>2, Zenon DEF Expected
  <2>2. last_token \notin Expected /\ pc' = "rejected"
    BY <1>11 DEF Reject
  <2>3. QED
    BY <2>1, <2>2
<1>12. QED
  BY <1>1, <1>2, <1>3, <1>4, <1>5, <1>6, <1>7, <1>8, <1>9, <1>10, <1>11
  DEF sax_parse_internal

LEMMA DestroyNext ==
  ASSUME ParserInvariant, DestroyInvariant, [Next]_vars
  PROVE  DestroyInvariant'
<1>1. CASE sax_parse_internal /\ UNCHANGED destroyVars
  <2>1. UNCHANGED <<children, calls, freed>>
    BY <1>1 DEF destroyVars
  <2>2. pc # "destroy" /\ pc' # "destroy"
    BY <1>1, ParsesOnly
  <2>3. QED
    BY <2>1, <2>2 DEF DestroyInvariant
<1>2. CASE BeginDestroy
  <2>1. /\ pc # "destroy" /\ pc' = "destroy"
        /\ children' = [n \in {m \in DOMAIN nodes : InTree[m]} |-> Content(n)]
        /\ calls' = IF nodes = <<>> THEN <<>> ELSE <<Call(1)>>
        /\ freed' = freed
    BY <1>2 DEF BeginDestroy
  <2>2. freed' = <<>>
    BY <2>1 DEF DestroyInvariant
  <2>3. Apart(children', <<>>, <<>>, IF nodes = <<>> THEN {} ELSE {1})
    BY <2>1, TreeApart DEF ParserInvariant
  <2>4. CASE nodes = <<>>
    <3>1. Idle'
      BY <2>1, <2>2, <2>3, <2>4 DEF Idle
    <3>2. QED
      BY <2>1, <3>1 DEF DestroyInvariant
  <2>5. CASE nodes # <<>>
    <3>1. RootRuns(<<>>, "flatten")'
      BY <2>1, <2>2, <2>3, <2>5 DEF RootRuns, Places, Call, CallAt
    <3>2. QED
      BY <2>1, <3>1 DEF DestroyInvariant
  <2>6. QED
    BY <2>4, <2>5
<1>3. CASE destroy
  <2>1. pc' = pc /\ calls # <<>> /\ (Flatten \/ DestroyItem \/ EndLoop \/ Release)
    BY <1>3 DEF destroy, parserVars, Flatten, DestroyItem, EndLoop, Release, In
  <2>2. pc = "destroy" /\ pc' = "destroy" /\ ~Idle
    BY <2>1 DEF DestroyInvariant, Idle
  <2>3. CASE \E s, where : RootRuns(s, where)
    BY <2>1, <2>2, <2>3, RootStep DEF DestroyInvariant
  <2>4. CASE \E s, v, where : ItemRuns(s, v, where)
    BY <2>1, <2>2, <2>4, ItemStep DEF DestroyInvariant
  <2>5. QED
    BY <2>2, <2>3, <2>4 DEF DestroyInvariant
<1>4. CASE Returned \/ UNCHANGED vars
  <2>1. UNCHANGED <<pc, children, calls, freed>>
    BY <1>4 DEF Returned, vars, parserVars, destroyVars
  <2>2. QED
    BY <2>1 DEF DestroyInvariant, Idle, RootRuns, ItemRuns
<1>5. QED
  BY <1>1, <1>2, <1>3, <1>4 DEF Next

\* Nothing that has been freed is still in use.
LEMMA ApartUnused ==
  ASSUME NEW s, NEW cs, Apart(children, s, freed, cs)
  PROVE  /\ IsInjective(freed)
         /\ Range(freed) \cap Range(s) = {}
         /\ Range(freed) \cap cs = {}
         /\ Range(freed) \cap Inside = {}
<1>1. Inside \subseteq UNION {Range(children[v]) : v \in DOMAIN children}
  BY DEF Inside, Values
<1>2. \A v \in DOMAIN children : Range(children[v]) \cap Range(freed) = {}
  BY DEF Apart
<1>3. QED
  BY <1>1, <1>2 DEF Apart, Distinct

LEMMA DestroySafe ==
  ASSUME DestroyInvariant
  PROVE  DestructionIsSafe
<1>1. Range(<<>>) = {} /\ IsInjective(<<>>)
  BY DEF Range, IsInjective
<1>2. CASE pc # "destroy"
  <2>1. calls = <<>> /\ freed = <<>>
    BY <1>2 DEF DestroyInvariant
  <2>2. Len(calls) = 0
    BY <2>1
  <2>3. QED
    BY <1>1, <1>2, <2>1, <2>2 DEF DestructionIsSafe, FreedExactlyOnce, DoesNotRecurse
<1>3. CASE pc = "destroy" /\ Idle
  <2>1. calls = <<>> /\ DOMAIN calls = {} /\ Len(calls) = 0
    BY <1>3 DEF Idle
  <2>2. Waiting = {} /\ {calls[i].value : i \in DOMAIN calls} = {}
    BY <2>1 DEF Waiting
  <2>3. Range(freed) = Values
    BY <1>3, ApartDone DEF Idle, Values
  <2>4. QED
    BY <1>3, <2>1, <2>2, <2>3, ApartUnused
    DEF Idle, DestructionIsSafe, FreedExactlyOnce, DoesNotRecurse
<1>4. ASSUME NEW s, NEW where, RootRuns(s, where) PROVE DestructionIsSafe
  <2>1. /\ calls # <<>> /\ DOMAIN calls = {1} /\ Len(calls) = 1
        /\ calls[1].value = 1 /\ calls[1].stack = s
    BY <1>4 DEF RootRuns, CallAt
  <2>2. Waiting = Range(s) /\ {calls[i].value : i \in DOMAIN calls} = {1}
    BY <2>1 DEF Waiting
  <2>3. QED
    BY <1>4, <2>1, <2>2, ApartUnused
    DEF RootRuns, DestructionIsSafe, FreedExactlyOnce, DoesNotRecurse
<1>5. ASSUME NEW s, NEW v, NEW where, ItemRuns(s, v, where) PROVE DestructionIsSafe
  <2>1. /\ calls # <<>> /\ DOMAIN calls = {1, 2} /\ Len(calls) = 2
        /\ calls[1].value = 1 /\ calls[1].stack = s
        /\ calls[2].value = v /\ calls[2].stack = <<>>
    BY <1>5 DEF ItemRuns, CallAt
  <2>2. Waiting = Range(s) /\ {calls[i].value : i \in DOMAIN calls} = {1, v}
    BY <1>1, <2>1 DEF Waiting
  <2>3. QED
    BY <1>5, <2>1, <2>2, ApartUnused
    DEF ItemRuns, DestructionIsSafe, FreedExactlyOnce, DoesNotRecurse
<1>6. QED
  BY <1>2, <1>3, <1>4, <1>5 DEF DestroyInvariant

\* The destruction of a value, also of one that is half-built, frees every value
\* of the tree exactly once, uses none after that, and never nests more than two
\* calls: for every token sequence and any depth of nesting.
THEOREM DestructionIsSafeHolds == Spec => []DestructionIsSafe
<1>1. Init => DestroyInvariant
  BY DEF Init, ParserInit, DestroyInvariant
<1>2. ParserInvariant /\ DestroyInvariant /\ [Next]_vars => DestroyInvariant'
  BY DestroyNext
<1>3. DestroyInvariant => DestructionIsSafe
  BY DestroySafe
<1>4. QED
  BY <1>1, <1>2, <1>3, ParserInvariantHolds, PTL DEF Spec

-----------------------------------------------------------------------------
(***************************************************************************)
(* The grammar of a number: its parts and where they end.                  *)
(***************************************************************************)

\* The characters of s from m to n are digits.
AllDigits(s, m, n) == \A k \in m .. n : s[k] \in Digits

\* Where the digits of the number s begin.
FirstDigit(s) == IF s[1] = "-" THEN 2 ELSE 1

\* The integer part of s ends at i, the fraction at j, and the exponent at n.
IntTo(s, i) ==
  /\ FirstDigit(s) <= i
  /\ AllDigits(s, FirstDigit(s), i)
  /\ s[FirstDigit(s)] = "0" => i = FirstDigit(s)
FractionTo(s, i, j) ==
  j = i \/ (s[i + 1] = "." /\ i + 2 <= j /\ AllDigits(s, i + 2, j))
ExponentTo(s, j, n) ==
  \/ j = n
  \/ /\ s[j + 1] = "e"
     /\ \/ j + 2 <= n /\ AllDigits(s, j + 2, n)
        \/ s[j + 2] \in {"+", "-"} /\ j + 3 <= n /\ AllDigits(s, j + 3, n)

\* The parts of the number s.
Parts(s, i, j) ==
  IntTo(s, i) /\ FractionTo(s, i, j) /\ ExponentTo(s, j, Len(s))

LEMMA DigitsPart ==
  ASSUME NEW S, NEW u \in Seq(S), NEW m \in Nat \ {0}, NEW n \in 0 .. Len(u)
  PROVE  IsDigits(SubSeq(u, m, n)) <=> m <= n /\ AllDigits(u, m, n)
<1> DEFINE t == SubSeq(u, m, n)
<1>1. Len(u) \in Nat /\ n \in Nat /\ \A k \in m .. n : u[k] \in S
  BY LenProperties, ElementOfSeq
<1>2. /\ t \in Seq(S)
      /\ Len(t) = IF m <= n THEN n - m + 1 ELSE 0
      /\ \A k \in 1 .. n - m + 1 : t[k] = u[m + k - 1]
  BY <1>1, SubSeqProperties
<1>3. DOMAIN t = 1 .. Len(t) /\ (t = <<>> <=> Len(t) = 0)
  BY <1>2, LenProperties, EmptySeq
<1> HIDE DEF t
<1>4. CASE m <= n
  <2>1. t # <<>> /\ DOMAIN t = 1 .. n - m + 1
    BY <1>1, <1>2, <1>3, <1>4
  <2>2. ASSUME AllDigits(u, m, n) PROVE \A k \in DOMAIN t : t[k] \in Digits
    BY <1>1, <1>2, <2>1, <2>2 DEF AllDigits
  <2>3. ASSUME \A k \in DOMAIN t : t[k] \in Digits PROVE AllDigits(u, m, n)
    <3>1. ASSUME NEW k \in m .. n PROVE u[k] \in Digits
      <4>1. k - m + 1 \in 1 .. n - m + 1 /\ m + (k - m + 1) - 1 = k
        BY <1>1
      <4>2. t[k - m + 1] = u[k]
        BY <4>1, <1>2
      <4>3. QED
        BY <4>1, <4>2, <2>1, <2>3
    <3>2. QED
      BY <3>1 DEF AllDigits
  <2>4. QED
    BY <1>4, <2>1, <2>2, <2>3 DEF IsDigits, t
<1>5. CASE ~(m <= n)
  BY <1>1, <1>2, <1>3, <1>5 DEF IsDigits, t
<1>6. QED
  BY <1>4, <1>5

LEMMA IntPart ==
  ASSUME NEW S, NEW u \in Seq(S), NEW i \in 0 .. Len(u)
  PROVE  IsInt(SubSeq(u, 1, i)) <=>
           1 <= i /\ AllDigits(u, 1, i) /\ (u[1] = "0" => i = 1)
<1> DEFINE t == SubSeq(u, 1, i)
<1>1. Len(u) \in Nat /\ i \in Nat /\ \A k \in 1 .. i : u[k] \in S
  BY LenProperties, ElementOfSeq
<1>2. /\ Len(t) = IF 1 <= i THEN i - 1 + 1 ELSE 0
      /\ \A k \in 1 .. i - 1 + 1 : t[k] = u[1 + k - 1]
  BY <1>1, SubSeqProperties
<1>3. IsDigits(t) <=> 1 <= i /\ AllDigits(u, 1, i)
  BY DigitsPart
<1> HIDE DEF t
<1>4. 1 <= i => t[1] = u[1] /\ Len(t) = i
  BY <1>1, <1>2
<1>5. QED
  BY <1>3, <1>4 DEF IsInt, t

LEMMA FractionPart ==
  ASSUME NEW S, NEW u \in Seq(S), NEW i \in 0 .. Len(u), NEW j \in 0 .. Len(u), i <= j
  PROVE  IsFraction(SubSeq(u, i + 1, j)) <=>
           j = i \/ (u[i + 1] = "." /\ i + 2 <= j /\ AllDigits(u, i + 2, j))
<1> DEFINE t == SubSeq(u, i + 1, j)
<1>1. Len(u) \in Nat /\ i \in Nat /\ j \in Nat /\ \A k \in i + 1 .. j : u[k] \in S
  BY LenProperties, ElementOfSeq
<1>2. /\ t \in Seq(S)
      /\ Len(t) = IF i + 1 <= j THEN j - (i + 1) + 1 ELSE 0
      /\ \A k \in 1 .. j - (i + 1) + 1 : t[k] = u[i + 1 + k - 1]
  BY <1>1, SubSeqProperties
<1>3. t = <<>> <=> Len(t) = 0
  BY <1>2, EmptySeq
<1>4. CASE j = i
  BY <1>1, <1>2, <1>3, <1>4 DEF IsFraction
<1>5. CASE j # i
  <2>1. i + 1 <= j /\ t # <<>> /\ t[1] = u[i + 1] /\ Len(t) = j - i
    BY <1>1, <1>2, <1>3, <1>5
  <2>2. Tail(t) = SubSeq(u, i + 2, j)
    <3>1. i + 1 \in 1 .. Len(u) /\ j \in i + 1 .. Len(u) /\ i + 1 + 1 = i + 2
      BY <1>1, <2>1
    <3>2. QED
      BY <3>1, HeadTailOfSubSeq
  <2>3. i + 2 \in Nat \ {0}
    BY <1>1
  <2>4. IsDigits(Tail(t)) <=> i + 2 <= j /\ AllDigits(u, i + 2, j)
    BY <2>2, <2>3, DigitsPart
  <2> HIDE DEF t
  <2>5. QED
    BY <1>5, <2>1, <2>4 DEF IsFraction, t
<1>6. QED
  BY <1>4, <1>5

LEMMA ExponentPart ==
  ASSUME NEW S, NEW u \in Seq(S), NEW j \in 0 .. Len(u)
  PROVE  IsExponent(SubSeq(u, j + 1, Len(u))) <=> ExponentTo(u, j, Len(u))
<1> DEFINE n == Len(u)
           t == SubSeq(u, j + 1, n)
<1>1. n \in Nat /\ j \in Nat /\ \A k \in j + 1 .. n : u[k] \in S
  BY LenProperties, ElementOfSeq
<1>2. /\ t \in Seq(S)
      /\ Len(t) = IF j + 1 <= n THEN n - (j + 1) + 1 ELSE 0
      /\ \A k \in 1 .. n - (j + 1) + 1 : t[k] = u[j + 1 + k - 1]
  BY <1>1, SubSeqProperties
<1>3. t = <<>> <=> Len(t) = 0
  BY <1>2, EmptySeq
<1>4. CASE j = n
  BY <1>1, <1>2, <1>3, <1>4 DEF IsExponent, ExponentTo
<1>5. CASE j # n
  <2>1. t # <<>> /\ t[1] = u[j + 1] /\ Len(t) = n - j
    BY <1>1, <1>2, <1>3, <1>5
  <2>2. 2 \in 1 .. n - j => t[2] = u[j + 2]
    BY <1>1, <1>2
  <2>3. ASSUME NEW q \in 2 .. Len(t)
        PROVE  IsDigits(SubSeq(t, q, Len(t))) <=> AllDigits(u, j + q, n)
    <3>1. /\ j + 1 \in 1 .. n /\ n \in 1 .. n
          /\ q \in 1 .. n - (j + 1) + 1
          /\ Len(t) \in 1 .. n - (j + 1) + 1
          /\ j + 1 + q - 1 = j + q /\ j + 1 + Len(t) - 1 = n
          /\ j + q \in Nat \ {0} /\ n \in 0 .. n /\ j + q <= n
      <4> DEFINE l == Len(t)
      <4>1. l = n - j /\ q \in 2 .. l /\ j \in 0 .. n
        BY <2>1
      <4> HIDE DEF l, n
      <4>2. QED
        BY <4>1, <1>1, <1>5 DEF l
    <3>2. SubSeq(t, q, Len(t)) = SubSeq(u, j + q, n)
      BY <3>1, SubSeqOfSubSeq
    <3>3. QED
      BY <3>1, <3>2, DigitsPart
  <2> HIDE DEF t, n
  <2>4. IsExponent(t) <=>
          /\ u[j + 1] = "e"
          /\ \E q \in 2 .. n - j :
               /\ q = 2 \/ (q = 3 /\ u[j + 2] \in {"+", "-"})
               /\ AllDigits(u, j + q, n)
    <3>1. \A q \in 2 .. n - j : t[2] = u[j + 2]
      BY <1>1, <2>2
    <3>2. QED
      BY <2>1, <2>3, <3>1 DEF IsExponent
  <2>5. @ <=> ExponentTo(u, j, n)
    <3>1. 2 \in 2 .. n - j <=> j + 2 <= n
      BY <1>1
    <3>2. 3 \in 2 .. n - j <=> j + 3 <= n
      BY <1>1
    <3>3. QED
      BY <1>5, <3>1, <3>2 DEF ExponentTo
  <2>6. QED
    BY <2>4, <2>5 DEF t, n
<1>6. QED
  BY <1>4, <1>5

\* The sequence s without what stands before the position o + 1.
From(s, u, o) ==
  Len(u) = Len(s) - o /\ \A k \in 1 .. Len(u) : u[k] = s[k + o]

LEMMA UnsignedPart ==
  ASSUME NEW S, NEW s \in Seq(S), s # <<>>
  PROVE  /\ Unsigned(s) \in Seq(S)
         /\ From(s, Unsigned(s), FirstDigit(s) - 1)
<1>1. Len(s) \in Nat \ {0}
  BY LenProperties, EmptySeq
<1>2. CASE s[1] = "-"
  <2>1. Unsigned(s) = Tail(s) /\ FirstDigit(s) - 1 = 1
    BY <1>2 DEF Unsigned, FirstDigit
  <2>2. QED
    BY <2>1, HeadTailProperties DEF From
<1>3. CASE s[1] # "-"
  <2>1. Unsigned(s) = s /\ FirstDigit(s) - 1 = 0
    BY <1>3 DEF Unsigned, FirstDigit
  <2>2. \A k \in 1 .. Len(s) : k + 0 = k
    BY <1>1
  <2>3. QED
    BY <1>1, <2>1, <2>2 DEF From
<1>4. QED
  BY <1>2, <1>3

\* A number is one with an integer part, a fraction and an exponent.
LEMMA NumberParts ==
  ASSUME NEW S, NEW s \in Seq(S), s # <<>>
  PROVE  IsNumber(s) <=>
           \E i, j \in 1 .. Len(s) : i <= j /\ Parts(s, i, j)
<1> DEFINE u == Unsigned(s)
           o == FirstDigit(s) - 1
           n == Len(s)
<1>1. u \in Seq(S) /\ From(s, u, o) /\ n \in Nat \ {0} /\ Len(u) \in Nat
  BY UnsignedPart, LenProperties, EmptySeq
<1>2. o \in {0, 1} /\ FirstDigit(s) = o + 1
  BY DEF FirstDigit
<1>3. IsNumber(s) <=> \E i, j \in 0 .. Len(u) :
        /\ i <= j
        /\ IsInt(SubSeq(u, 1, i))
        /\ IsFraction(SubSeq(u, i + 1, j))
        /\ IsExponent(SubSeq(u, j + 1, Len(u)))
  BY DEF IsNumber
<1> HIDE DEF u, o, n
<1>4. Len(u) = n - o /\ \A k \in 1 .. n - o : u[k] = s[k + o]
  BY <1>1 DEF From, n
<1>5. ASSUME NEW i \in 0 .. Len(u), NEW j \in 0 .. Len(u), i <= j
      PROVE  (/\ IsInt(SubSeq(u, 1, i))
              /\ IsFraction(SubSeq(u, i + 1, j))
              /\ IsExponent(SubSeq(u, j + 1, Len(u)))) <=> Parts(s, i + o, j + o)
  <2>1. i \in Nat /\ j \in Nat
    BY <1>1
  <2>2. ASSUME NEW m \in Nat \ {0}, NEW q \in 0 .. n - o
        PROVE  AllDigits(u, m, q) <=> AllDigits(s, m + o, q + o)
    <3>1. ASSUME AllDigits(u, m, q), NEW k \in m + o .. q + o
          PROVE  s[k] \in Digits
      <4>1. k - o \in m .. q /\ k - o \in 1 .. n - o /\ k - o + o = k
        BY <1>1, <1>2, <1>4
      <4>2. QED
        BY <3>1, <4>1, <1>4 DEF AllDigits
    <3>2. ASSUME AllDigits(s, m + o, q + o), NEW k \in m .. q
          PROVE  u[k] \in Digits
      <4>1. k + o \in m + o .. q + o /\ k \in 1 .. n - o
        BY <1>1, <1>2, <1>4
      <4>2. QED
        BY <3>2, <4>1, <1>4 DEF AllDigits
    <3>3. QED
      BY <3>1, <3>2 DEF AllDigits
  <2>3. IsInt(SubSeq(u, 1, i)) <=> IntTo(s, i + o)
    <3>1. IsInt(SubSeq(u, 1, i)) <=>
            1 <= i /\ AllDigits(s, 1 + o, i + o) /\ (s[1 + o] = "0" => i = 1)
      <4>1. 1 <= i => u[1] = s[1 + o]
        BY <1>1, <1>4, <2>1
      <4>2. i \in 0 .. n - o
        BY <1>4
      <4>3. QED
        BY <1>1, <2>2, <4>1, <4>2, IntPart
    <3>2. QED
      BY <3>1, <1>2, <2>1 DEF IntTo
  <2>4. IsFraction(SubSeq(u, i + 1, j)) <=> FractionTo(s, i + o, j + o)
    <3>1. /\ i + 2 <= j => u[i + 1] = s[i + o + 1]
          /\ i + 2 \in Nat \ {0} /\ j \in 0 .. n - o
          /\ i + 2 + o = i + o + 2
          /\ (j = i <=> j + o = i + o)
          /\ (i + 2 <= j <=> i + o + 2 <= j + o)
      <4>1. i + 2 <= j => i + 1 \in 1 .. n - o /\ i + 1 + o = i + o + 1
        BY <1>1, <1>2, <1>4, <2>1
      <4>2. i + 2 <= j => u[i + 1] = s[i + o + 1]
        BY <4>1, <1>4
      <4>3. QED
        BY <4>2, <1>2, <1>4, <2>1
    <3>2. AllDigits(u, i + 2, j) <=> AllDigits(s, i + o + 2, j + o)
      BY <2>2, <3>1
    <3>3. QED
      BY <1>1, <1>5, <3>1, <3>2, FractionPart DEF FractionTo
  <2>5. IsExponent(SubSeq(u, j + 1, Len(u))) <=> ExponentTo(s, j + o, n)
    <3>1. /\ j + 2 <= Len(u) => u[j + 1] = s[j + o + 1] /\ u[j + 2] = s[j + o + 2]
      <4>1. j + 2 <= Len(u) => /\ j + 1 \in 1 .. n - o /\ j + 1 + o = j + o + 1
                               /\ j + 2 \in 1 .. n - o /\ j + 2 + o = j + o + 2
        BY <1>1, <1>2, <1>4, <2>1
      <4>2. QED
        BY <4>1, <1>4
    <3>2. /\ j + 2 \in Nat \ {0} /\ j + 3 \in Nat \ {0} /\ n - o \in 0 .. n - o
          /\ j + 2 + o = j + o + 2 /\ j + 3 + o = j + o + 3 /\ n - o + o = n
          /\ (j = Len(u) <=> j + o = n)
          /\ (j + 2 <= Len(u) <=> j + o + 2 <= n)
          /\ (j + 3 <= Len(u) <=> j + o + 3 <= n)
          /\ (j + 3 <= Len(u) => j + 2 <= Len(u))
      BY <1>1, <1>2, <1>4, <2>1
    <3>3. AllDigits(u, j + 2, n - o) <=> AllDigits(s, j + o + 2, n)
      BY <2>2, <3>2
    <3>4. AllDigits(u, j + 3, n - o) <=> AllDigits(s, j + o + 3, n)
      BY <2>2, <3>2
    <3>5. IsExponent(SubSeq(u, j + 1, Len(u))) <=> ExponentTo(u, j, n - o)
      BY <1>1, <1>4, ExponentPart
    <3>6. QED
      BY <3>1, <3>2, <3>3, <3>4, <3>5, <1>4 DEF ExponentTo
  <2>6. QED
    BY <2>3, <2>4, <2>5 DEF Parts, n
<1>6. ASSUME NEW i \in 0 .. Len(u), NEW j \in 0 .. Len(u), i <= j, Parts(s, i + o, j + o)
      PROVE  \E p, q \in 1 .. n : p <= q /\ Parts(s, p, q)
  <2>1. o + 1 <= i + o
    BY <1>2, <1>6 DEF Parts, IntTo
  <2>2. i + o \in 1 .. n /\ j + o \in 1 .. n /\ i + o <= j + o
    BY <1>1, <1>2, <1>4, <1>6, <2>1
  <2>3. QED
    BY <1>6, <2>2
<1>7. ASSUME NEW p \in 1 .. n, NEW q \in 1 .. n, p <= q, Parts(s, p, q)
      PROVE  \E i, j \in 0 .. Len(u) : i <= j /\ Parts(s, i + o, j + o)
  <2>1. o + 1 <= p
    BY <1>2, <1>7 DEF Parts, IntTo
  <2>2. /\ p - o \in 0 .. Len(u) /\ q - o \in 0 .. Len(u) /\ p - o <= q - o
        /\ p - o + o = p /\ q - o + o = q
    BY <1>1, <1>2, <1>4, <1>7, <2>1
  <2>3. QED
    BY <1>7, <2>2
<1>8. QED
  BY <1>3, <1>5, <1>6, <1>7 DEF n

-----------------------------------------------------------------------------
(***************************************************************************)
(* The automaton of scan_number: what each of its labels says of the       *)
(* characters that have been read.                                         *)
(***************************************************************************)

\* The labels of scan_number.
NumberStates ==
  {"minus", "zero", "any1", "decimal1", "decimal2", "exponent", "sign", "any2"}

\* s is what has been read of a number when the automaton is in the state st; its
\* integer part ends at i and its fraction at j, if it has come that far.
StateAt(st, s, i, j) ==
  /\ i \in 1 .. Len(s) /\ j \in i .. Len(s)
  /\ IntTo(s, i) /\ FractionTo(s, i, j)
  /\ \/ st = "zero" /\ i = Len(s) /\ s[FirstDigit(s)] = "0"
     \/ st = "any1" /\ i = Len(s) /\ s[FirstDigit(s)] # "0"
     \/ st = "decimal1" /\ j = i /\ Len(s) = i + 1 /\ s[i + 1] = "."
     \/ st = "decimal2" /\ i < j /\ j = Len(s)
     \/ st = "exponent" /\ Len(s) = j + 1 /\ s[j + 1] = "e"
     \/ /\ st = "sign" /\ Len(s) = j + 2 /\ s[j + 1] = "e"
        /\ s[j + 2] \in {"+", "-"}
     \/ st = "any2" /\ j < Len(s) /\ ExponentTo(s, j, Len(s))

NumberState(st, s) ==
  \/ st = "minus" /\ Len(s) = 1 /\ s[1] = "-"
  \/ \E i, j \in 1 .. Len(s) : StateAt(st, s, i, j)

\* The table of the automaton.
LEMMA Transitions ==
  ASSUME NEW c
  PROVE  /\ Transition("minus", c) =
              IF c = "0" THEN "zero" ELSE IF c \in Digits THEN "any1" ELSE "error"
         /\ Transition("zero", c) =
              IF c = "." THEN "decimal1" ELSE IF c = "e" THEN "exponent" ELSE "done"
         /\ Transition("any1", c) =
              IF c \in Digits THEN "any1" ELSE IF c = "." THEN "decimal1"
              ELSE IF c = "e" THEN "exponent" ELSE "done"
         /\ Transition("decimal1", c) = IF c \in Digits THEN "decimal2" ELSE "error"
         /\ Transition("decimal2", c) =
              IF c \in Digits THEN "decimal2" ELSE IF c = "e" THEN "exponent" ELSE "done"
         /\ Transition("exponent", c) =
              IF c \in {"+", "-"} THEN "sign" ELSE IF c \in Digits THEN "any2" ELSE "error"
         /\ Transition("sign", c) = IF c \in Digits THEN "any2" ELSE "error"
         /\ Transition("any2", c) = IF c \in Digits THEN "any2" ELSE "done"
<1>0. "." \notin Digits /\ "e" \notin Digits /\ "+" \notin Digits /\ "-" \notin Digits /\ "0" \in Digits
  BY DEF Digits
<1>1. Transition("minus", c) =
        IF c = "0" THEN "zero" ELSE IF c \in Digits THEN "any1" ELSE "error"
  BY <1>0, Zenon DEF Transition, NoTransition, Complete, MayBeSigned
<1>2. Transition("zero", c) =
        IF c = "." THEN "decimal1" ELSE IF c = "e" THEN "exponent" ELSE "done"
  BY <1>0, Zenon DEF Transition, NoTransition, Complete, MayBeSigned
<1>3. Transition("any1", c) =
        IF c \in Digits THEN "any1" ELSE IF c = "." THEN "decimal1"
        ELSE IF c = "e" THEN "exponent" ELSE "done"
  BY <1>0, Zenon DEF Transition, NoTransition, Complete, MayBeSigned
<1>4. Transition("decimal1", c) = IF c \in Digits THEN "decimal2" ELSE "error"
  BY <1>0, Zenon DEF Transition, NoTransition, Complete, MayBeSigned
<1>5. Transition("decimal2", c) =
        IF c \in Digits THEN "decimal2" ELSE IF c = "e" THEN "exponent" ELSE "done"
  BY <1>0, Zenon DEF Transition, NoTransition, Complete, MayBeSigned
<1>6. Transition("exponent", c) =
        IF c \in {"+", "-"} THEN "sign" ELSE IF c \in Digits THEN "any2" ELSE "error"
  BY <1>0, Zenon DEF Transition, NoTransition, Complete, MayBeSigned
<1>7. Transition("sign", c) = IF c \in Digits THEN "any2" ELSE "error"
  BY <1>0, Zenon DEF Transition, NoTransition, Complete, MayBeSigned
<1>8. Transition("any2", c) = IF c \in Digits THEN "any2" ELSE "done"
  BY <1>0, Zenon DEF Transition, NoTransition, Complete, MayBeSigned
<1>9. QED
  BY <1>1, <1>2, <1>3, <1>4, <1>5, <1>6, <1>7, <1>8

\* What a state says of the digits stays true when another character follows.
LEMMA PartsExtended ==
  ASSUME NEW s, NEW x, NEW n \in Nat \ {0}, \A k \in 1 .. n : x[k] = s[k]
  PROVE  /\ FirstDigit(x) = FirstDigit(s) /\ FirstDigit(s) \in Nat \ {0}
         /\ \A m \in Nat \ {0} : \A q \in 0 .. n :
              AllDigits(x, m, q) <=> AllDigits(s, m, q)
         /\ \A i \in 1 .. n : IntTo(x, i) <=> IntTo(s, i)
         /\ \A i \in 1 .. n : \A j \in i .. n : FractionTo(x, i, j) <=> FractionTo(s, i, j)
<1>1. x[1] = s[1]
  OBVIOUS
<1>2. FirstDigit(x) = FirstDigit(s) /\ FirstDigit(s) \in Nat \ {0}
  BY <1>1 DEF FirstDigit
<1>3. ASSUME NEW m \in Nat \ {0}, NEW q \in 0 .. n
      PROVE  AllDigits(x, m, q) <=> AllDigits(s, m, q)
  <2>1. \A k \in m .. q : x[k] = s[k]
    OBVIOUS
  <2>2. QED
    BY <2>1 DEF AllDigits
<1>4. ASSUME NEW i \in 1 .. n PROVE IntTo(x, i) <=> IntTo(s, i)
  <2>1. FirstDigit(s) <= i => x[FirstDigit(s)] = s[FirstDigit(s)]
    BY <1>2
  <2>2. AllDigits(x, FirstDigit(s), i) <=> AllDigits(s, FirstDigit(s), i)
    BY <1>2, <1>3
  <2>3. QED
    BY <1>2, <2>1, <2>2 DEF IntTo
<1>5. ASSUME NEW i \in 1 .. n, NEW j \in i .. n
      PROVE  FractionTo(x, i, j) <=> FractionTo(s, i, j)
  <2>1. i + 2 <= j => x[i + 1] = s[i + 1]
    OBVIOUS
  <2>2. AllDigits(x, i + 2, j) <=> AllDigits(s, i + 2, j)
    BY <1>3
  <2>3. QED
    BY <2>1, <2>2 DEF FractionTo
<1>6. QED
  BY <1>2, <1>3, <1>4, <1>5

LEMMA NumberStarts ==
  ASSUME NEW c, c \in Digits \cup {"-"}
  PROVE  NumberState(IF c = "-" THEN "minus" ELSE IF c = "0" THEN "zero" ELSE "any1", <<c>>)
<1> DEFINE s == <<c>>
<1>1. Len(s) = 1 /\ s[1] = c
  OBVIOUS
<1> HIDE DEF s
<1>2. CASE c = "-"
  BY <1>1, <1>2 DEF NumberState, s
<1>3. CASE c # "-"
  <2>1. FirstDigit(s) = 1 /\ c \in Digits
    BY <1>1, <1>3 DEF FirstDigit
  <2>2. IntTo(s, 1) /\ FractionTo(s, 1, 1)
    BY <1>1, <2>1 DEF IntTo, FractionTo, AllDigits
  <2>3. StateAt(IF c = "0" THEN "zero" ELSE "any1", s, 1, 1)
    BY <1>1, <2>1, <2>2 DEF StateAt
  <2>4. QED
    BY <1>1, <1>3, <2>3 DEF NumberState, s
<1>4. QED
  BY <1>2, <1>3

\* What a state says stays true along a transition.
LEMMA NumberStep ==
  ASSUME NEW S, NEW s \in Seq(S), s # <<>>, NEW c \in S,
         NEW st \in NumberStates, NumberState(st, s),
         Transition(st, c) \notin {"done", "error"}
  PROVE  /\ Transition(st, c) \in NumberStates
         /\ NumberState(Transition(st, c), Append(s, c))
<1> DEFINE x == Append(s, c)
           n == Len(s)
<1>1. /\ n \in Nat \ {0} /\ Len(x) = n + 1 /\ x[n + 1] = c
      /\ \A k \in 1 .. n : x[k] = s[k]
  BY AppendProperties, LenProperties, EmptySeq
<1>0. Len(s) = n
  OBVIOUS
<1> HIDE DEF x, n
<1>2. /\ FirstDigit(x) = FirstDigit(s) /\ FirstDigit(s) \in Nat \ {0}
      /\ \A m \in Nat \ {0} : \A q \in 0 .. n :
           AllDigits(x, m, q) <=> AllDigits(s, m, q)
      /\ \A i \in 1 .. n : IntTo(x, i) <=> IntTo(s, i)
      /\ \A i \in 1 .. n : \A j \in i .. n : FractionTo(x, i, j) <=> FractionTo(s, i, j)
  BY <1>1, PartsExtended
<1>3. \A m \in Nat \ {0} : AllDigits(s, m, n) /\ c \in Digits => AllDigits(x, m, n + 1)
  BY <1>1 DEF AllDigits
<1>a. "." \notin Digits /\ "e" \notin Digits
  BY DEF Digits
<1>4. CASE st = "minus" /\ n = 1 /\ s[1] = "-"
  <2>1. FirstDigit(s) = 2 /\ c \in Digits /\ n + 1 = 2
    BY <1>4, Transitions DEF FirstDigit, Digits
  <2>2. IntTo(x, 2) /\ FractionTo(x, 2, 2) /\ x[FirstDigit(x)] = c
    BY <1>1, <1>2, <2>1 DEF IntTo, FractionTo, AllDigits
  <2>3. Transition(st, c) = IF c = "0" THEN "zero" ELSE "any1"
    BY <1>4, <2>1, Transitions
  <2>4. StateAt(Transition(st, c), x, 2, 2)
    BY <1>1, <2>1, <2>2, <2>3 DEF StateAt
  <2>5. QED
    BY <1>1, <2>1, <2>3, <2>4 DEF NumberState, NumberStates, x
<1>5. ASSUME NEW i \in 1 .. n, NEW j \in i .. n, StateAt(st, s, i, j)
      PROVE  /\ Transition(st, c) \in NumberStates
             /\ \E p, q \in 1 .. n + 1 : StateAt(Transition(st, c), x, p, q)
  <2>1. /\ IntTo(x, i) /\ FractionTo(x, i, j) /\ FractionTo(x, i, i)
        /\ i \in 1 .. n + 1 /\ j \in 1 .. n + 1 /\ j \in i .. n + 1
        /\ FirstDigit(s) <= i /\ FirstDigit(s) \in 1 .. n
        /\ AllDigits(s, FirstDigit(s), i)
    BY <1>1, <1>2, <1>5 DEF StateAt, IntTo, FractionTo
  <2>2. CASE st \in {"zero", "any1"} /\ i = n /\ c = "."
    <3>1. Transition(st, c) = "decimal1"
      BY <2>2, <1>a, Transitions
    <3>2. StateAt("decimal1", x, n, n)
      BY <1>1, <2>1, <2>2 DEF StateAt
    <3>3. QED
      BY <1>1, <3>1, <3>2 DEF NumberStates
  <2>3. CASE st \in {"zero", "any1"} /\ i = n /\ c = "e"
    <3>1. Transition(st, c) = "exponent"
      BY <2>3, <1>a, Transitions
    <3>2. StateAt("exponent", x, n, n)
      BY <1>1, <2>1, <2>3 DEF StateAt
    <3>3. QED
      BY <1>1, <3>1, <3>2 DEF NumberStates
  <2>4. CASE st = "any1" /\ i = n /\ c \in Digits
    <3>1. Transition(st, c) = "any1" /\ s[FirstDigit(s)] # "0" /\ x[FirstDigit(s)] = s[FirstDigit(s)]
      BY <1>1, <2>1, <2>4, <1>5, Transitions DEF StateAt
    <3>2. IntTo(x, n + 1)
      BY <1>1, <1>2, <1>3, <2>1, <2>4, <3>1 DEF IntTo
    <3>3. StateAt("any1", x, n + 1, n + 1)
      BY <1>1, <1>2, <3>1, <3>2 DEF StateAt, FractionTo
    <3>4. QED
      BY <1>1, <3>1, <3>3 DEF NumberStates
  <2>5. CASE st \in {"decimal1", "decimal2"} /\ c \in Digits
    <3>1. Transition(st, c) = "decimal2"
      BY <2>5, Transitions
    <3>2. s[i + 1] = "." /\ i + 2 <= n + 1 /\ AllDigits(s, i + 2, n)
      <4>1. CASE st = "decimal1"
        <5>1. n = i + 1 /\ s[i + 1] = "."
          BY <1>0, <1>5, <4>1 DEF StateAt
        <5>2. QED
          BY <1>1, <5>1 DEF AllDigits
      <4>2. CASE st = "decimal2"
        <5>1. j = n /\ i < j /\ FractionTo(s, i, j)
          BY <1>0, <1>5, <4>2 DEF StateAt
        <5>2. QED
          BY <1>1, <5>1 DEF FractionTo
      <4>3. QED
        BY <2>5, <4>1, <4>2
    <3>3. x[i + 1] = "." /\ AllDigits(x, i + 2, n + 1)
      BY <1>1, <1>3, <2>5, <3>2
    <3>4. FractionTo(x, i, n + 1)
      BY <3>2, <3>3 DEF FractionTo
    <3>5. StateAt("decimal2", x, i, n + 1)
      BY <1>1, <2>1, <3>2, <3>4 DEF StateAt
    <3>6. QED
      BY <1>1, <2>1, <3>1, <3>5 DEF NumberStates
  <2>6. CASE st = "decimal2" /\ c = "e"
    <3>0. j = n
      BY <2>6, <1>0, <1>5 DEF StateAt
    <3>1. Transition(st, c) = "exponent"
      BY <2>6, <1>a, Transitions
    <3>2. StateAt("exponent", x, i, j)
      BY <1>1, <2>1, <2>6, <3>0 DEF StateAt
    <3>3. QED
      BY <2>1, <3>1, <3>2 DEF NumberStates
  <2>7. CASE st = "exponent" /\ c \in {"+", "-"}
    <3>0. n = j + 1 /\ s[j + 1] = "e"
      BY <2>7, <1>0, <1>5 DEF StateAt
    <3>1. Transition(st, c) = "sign"
      BY <2>7, Transitions
    <3>2. x[j + 1] = "e" /\ x[j + 2] = c /\ Len(x) = j + 2
      BY <1>1, <3>0
    <3>3. StateAt("sign", x, i, j)
      BY <2>1, <1>1, <2>7, <3>2 DEF StateAt
    <3>4. QED
      BY <2>1, <3>1, <3>3 DEF NumberStates
  <2>8. CASE st \in {"exponent", "sign", "any2"} /\ c \in Digits
    <3>1. Transition(st, c) = "any2"
      BY <2>8, Transitions DEF Digits
    <3>2. CASE st = "exponent"
      <4>1. n = j + 1 /\ x[j + 1] = "e" /\ AllDigits(x, j + 2, n + 1) /\ j + 2 <= n + 1
        <5>1. n = j + 1 /\ s[j + 1] = "e"
          BY <1>0, <1>5, <3>2 DEF StateAt
        <5>2. QED
          BY <1>1, <2>8, <5>1 DEF AllDigits
      <4>2. StateAt("any2", x, i, j)
        BY <1>1, <2>1, <4>1 DEF StateAt, ExponentTo
      <4>3. QED
        BY <2>1, <3>1, <4>2 DEF NumberStates
    <3>3. CASE st = "sign"
      <4>1. /\ n = j + 2 /\ x[j + 1] = "e" /\ x[j + 2] \in {"+", "-"}
            /\ AllDigits(x, j + 3, n + 1) /\ j + 3 <= n + 1
        <5>1. n = j + 2 /\ s[j + 1] = "e" /\ s[j + 2] \in {"+", "-"}
          BY <1>0, <1>5, <3>3 DEF StateAt
        <5>2. QED
          BY <1>1, <2>8, <5>1 DEF AllDigits
      <4>2. StateAt("any2", x, i, j)
        BY <1>1, <2>1, <4>1 DEF StateAt, ExponentTo
      <4>3. QED
        BY <2>1, <3>1, <4>2 DEF NumberStates
    <3>4. CASE st = "any2"
      <4>1. j < n /\ ExponentTo(s, j, n) /\ j + 2 \in Nat \ {0} /\ j + 3 \in Nat \ {0}
        BY <1>1, <1>5, <3>4 DEF StateAt, n
      <4>2. x[j + 1] = s[j + 1]
        BY <1>1, <4>1
      <4>3. j + 3 <= n => x[j + 2] = s[j + 2]
        BY <1>1, <4>1
      <4>4. ExponentTo(x, j, n + 1)
        BY <1>1, <1>3, <2>8, <4>1, <4>2, <4>3 DEF ExponentTo
      <4>5. StateAt("any2", x, i, j)
        BY <1>1, <2>1, <4>1, <4>4 DEF StateAt
      <4>6. QED
        BY <2>1, <3>1, <4>5 DEF NumberStates
    <3>5. QED
      BY <2>8, <3>2, <3>3, <3>4
  <2>9. st = "zero" \/ st = "any1" \/ st = "decimal1" \/ st = "decimal2" \/ st = "exponent"
        \/ st = "sign" \/ st = "any2"
    BY <1>5 DEF StateAt
  <2>10. (st = "zero" \/ st = "any1") => i = n
    BY <1>5 DEF StateAt, n
  <2>11. \/ st \in {"zero", "any1"} /\ c = "."
         \/ st \in {"zero", "any1"} /\ c = "e"
         \/ st = "any1" /\ c \in Digits
         \/ st \in {"decimal1", "decimal2"} /\ c \in Digits
         \/ st = "decimal2" /\ c = "e"
         \/ st = "exponent" /\ c \in {"+", "-"}
         \/ st \in {"exponent", "sign", "any2"} /\ c \in Digits
    BY <2>9, Transitions
  <2>12. QED
    BY <2>2, <2>3, <2>4, <2>5, <2>6, <2>7, <2>8, <2>10, <2>11
<1>6. CASE \E i, j \in 1 .. n : StateAt(st, s, i, j)
  <2>1. PICK i \in 1 .. n, j \in 1 .. n : StateAt(st, s, i, j)
    BY <1>6
  <2>2. j \in i .. n
    BY <2>1 DEF StateAt, n
  <2>3. QED
    BY <1>1, <1>5, <2>1, <2>2 DEF NumberState, x
<1>7. QED
  BY <1>4, <1>6 DEF NumberState, n

\* In a complete state what has been read is a number, an integer exactly if
\* neither a fraction nor an exponent has begun.
LEMMA NumberEnds ==
  ASSUME NEW S, NEW s \in Seq(S), s # <<>>,
         NEW st \in Complete, NumberState(st, s)
  PROVE  /\ IsNumber(s)
         /\ IsInt(Unsigned(s)) <=> st \in {"zero", "any1"}
<1> DEFINE n == Len(s)
           o == FirstDigit(s) - 1
           u == Unsigned(s)
<1>1. n \in Nat \ {0} /\ u \in Seq(S) /\ Len(u) = n - o /\ Len(u) \in Nat
      /\ \A k \in 1 .. n - o : u[k] = s[k + o]
  BY LenProperties, EmptySeq, UnsignedPart DEF From
<1>2. o \in {0, 1} /\ FirstDigit(s) = o + 1
  BY DEF FirstDigit
<1>3. PICK i \in 1 .. n, j \in 1 .. n : StateAt(st, s, i, j)
  BY DEF NumberState, Complete
<1>4. i <= j /\ IntTo(s, i) /\ FractionTo(s, i, j) /\ Len(s) = n
  BY <1>3 DEF StateAt
<1> HIDE DEF u, o, n
<1>5. ExponentTo(s, j, n)
  BY <1>1, <1>3, <1>4 DEF StateAt, ExponentTo, Complete
<1>6. IsNumber(s)
  BY <1>3, <1>4, <1>5, NumberParts DEF Parts
<1>7. IsInt(u) <=> IntTo(s, n)
  <2>1. SubSeq(u, 1, Len(u)) = u
    BY <1>1, SubSeqFull
  <2>2. Len(u) \in 0 .. Len(u)
    BY <1>1
  <2>3. IsInt(u) <=> 1 <= Len(u) /\ AllDigits(u, 1, Len(u)) /\ (u[1] = "0" => Len(u) = 1)
    BY <1>1, <2>1, <2>2, IntPart
  <2>4. AllDigits(u, 1, Len(u)) <=> AllDigits(s, o + 1, n)
    <3>1. ASSUME AllDigits(u, 1, Len(u)), NEW k \in o + 1 .. n PROVE s[k] \in Digits
      <4>1. k - o \in 1 .. n - o /\ k - o + o = k
        BY <1>1, <1>2
      <4>2. QED
        BY <3>1, <4>1, <1>1 DEF AllDigits
    <3>2. ASSUME AllDigits(s, o + 1, n), NEW k \in 1 .. Len(u) PROVE u[k] \in Digits
      <4>1. k + o \in o + 1 .. n
        BY <1>1, <1>2
      <4>2. QED
        BY <3>2, <4>1, <1>1 DEF AllDigits
    <3>3. QED
      BY <3>1, <3>2 DEF AllDigits
  <2>5. 1 <= Len(u) => u[1] = s[o + 1]
    BY <1>1, <1>2
  <2>6. (1 <= Len(u) <=> o + 1 <= n) /\ (Len(u) = 1 <=> n = o + 1)
    BY <1>1, <1>2
  <2>7. QED
    BY <1>2, <2>3, <2>4, <2>5, <2>6 DEF IntTo
<1>8. CASE st \in {"zero", "any1"}
  <2>1. i = n
    BY <1>3, <1>4, <1>8 DEF StateAt
  <2>2. QED
    BY <1>4, <1>6, <1>7, <1>8, <2>1 DEF u
<1>9. CASE st \in {"decimal2", "any2"}
  <2>1. i < n /\ s[i + 1] \in {".", "e"}
    <3>1. CASE st = "decimal2"
      BY <1>1, <1>3, <1>4, <3>1 DEF StateAt, FractionTo
    <3>2. CASE st = "any2"
      <4>1. j < n /\ s[j + 1] = "e"
        BY <1>1, <1>3, <1>4, <3>2 DEF StateAt, ExponentTo
      <4>2. QED
        BY <1>1, <1>4, <4>1 DEF FractionTo
    <3>3. QED
      BY <1>9, <3>1, <3>2
  <2>2. FirstDigit(s) <= i + 1 /\ i + 1 \in FirstDigit(s) .. n
    BY <1>1, <1>2, <1>4, <2>1 DEF IntTo
  <2>3. s[i + 1] \notin Digits
    BY <2>1 DEF Digits
  <2>4. ~IntTo(s, n)
    BY <2>2, <2>3 DEF IntTo, AllDigits
  <2>5. QED
    BY <1>6, <1>7, <1>9, <2>4 DEF u
<1>10. QED
  BY <1>8, <1>9 DEF Complete

\* After a character that is an error nothing makes a number of it any more.
LEMMA NumberFails ==
  ASSUME NEW S, NEW s \in Seq(S), s # <<>>, NEW c,
         NEW st \in NumberStates, NumberState(st, s), Transition(st, c) = "error",
         NEW x \in Seq(S), Len(x) >= Len(s) + 1, x[Len(s) + 1] = c,
         \A k \in 1 .. Len(s) : x[k] = s[k]
  PROVE  ~IsNumber(x)
<1> DEFINE n == Len(s)
           m == Len(x)
<1>1. n \in Nat \ {0} /\ m \in Nat /\ n + 1 <= m /\ x # <<>>
  BY LenProperties, EmptySeq
<1>2. x[n + 1] = c /\ Len(s) = n /\ Len(x) = m
  OBVIOUS
<1>3. /\ FirstDigit(x) = FirstDigit(s) /\ FirstDigit(s) \in Nat \ {0}
      /\ \A k \in 1 .. n : x[k] = s[k]
      /\ \A i \in 1 .. n : IntTo(x, i) <=> IntTo(s, i)
      /\ \A i \in 1 .. n : \A j \in i .. n : FractionTo(x, i, j) <=> FractionTo(s, i, j)
  BY <1>1, PartsExtended
<1> HIDE DEF n, m
<1>4. SUFFICES ASSUME NEW p \in 1 .. m, NEW q \in 1 .. m, p <= q, Parts(x, p, q)
               PROVE  FALSE
  BY <1>1, <1>2, NumberParts
<1>5. IntTo(x, p) /\ FractionTo(x, p, q) /\ ExponentTo(x, q, m)
  BY <1>2, <1>4 DEF Parts
<1>6. "." \notin Digits /\ "e" \notin Digits /\ "-" \notin Digits /\ "+" \notin Digits
  BY DEF Digits
<1>7. CASE st = "minus"
  <2>1. n = 1 /\ s[1] = "-" /\ c \notin Digits
    <3>1. n = 1 /\ s[1] = "-"
      BY <1>2, <1>7 DEF NumberState, StateAt
    <3>2. c \notin Digits
      BY <1>7, Transitions DEF Digits
    <3>3. QED
      BY <3>1, <3>2
  <2>2. FirstDigit(x) = 2
    BY <1>3, <2>1 DEF FirstDigit
  <2>3. 2 \in 2 .. p
    BY <1>5, <2>2 DEF IntTo
  <2>4. x[2] \in Digits
    BY <1>5, <2>2, <2>3 DEF IntTo, AllDigits
  <2>5. QED
    BY <1>2, <2>1, <2>4
<1>8. CASE st \in {"decimal1", "exponent", "sign"}
  <2>1. PICK i \in 1 .. n, j \in 1 .. n : StateAt(st, s, i, j)
    BY <1>2, <1>8 DEF NumberState
  <2>2. /\ j \in i .. n /\ IntTo(x, i) /\ FractionTo(x, i, j)
        /\ j + 1 <= n /\ x[j + 1] \in {".", "e"}
        /\ st = "decimal1" => j = i /\ x[j + 1] = "." /\ n = j + 1
        /\ st = "exponent" => x[j + 1] = "e" /\ n = j + 1
        /\ st = "sign" => x[j + 1] = "e" /\ n = j + 2 /\ x[j + 2] \in {"+", "-"}
    <3>1. j \in i .. n /\ IntTo(x, i) /\ FractionTo(x, i, j)
      BY <1>2, <1>3, <2>1 DEF StateAt
    <3>2. CASE st = "decimal1"
      BY <1>1, <1>2, <1>3, <2>1, <3>1, <3>2 DEF StateAt
    <3>3. CASE st = "exponent"
      BY <1>1, <1>2, <1>3, <2>1, <3>1, <3>3 DEF StateAt
    <3>4. CASE st = "sign"
      <4>1. n = j + 2 /\ s[j + 1] = "e" /\ s[j + 2] \in {"+", "-"}
        BY <1>2, <2>1, <3>4 DEF StateAt
      <4>2. x[j + 1] = s[j + 1] /\ x[j + 2] = s[j + 2]
        BY <1>1, <1>3, <4>1
      <4>3. QED
        BY <1>1, <3>1, <3>4, <4>1, <4>2
    <3>5. QED
      BY <1>8, <3>2, <3>3, <3>4
  <2>3. i + 1 <= n /\ x[i + 1] \in {".", "e"} /\ i + 1 <= m /\ x[i + 1] \notin Digits
    <3>1. i + 1 <= n /\ x[i + 1] \in {".", "e"}
      <4>1. CASE j = i
        BY <2>2, <4>1
      <4>2. CASE j # i
        <5>1. x[i + 1] = "." /\ i + 2 <= j
          BY <2>2, <4>2 DEF FractionTo
        <5>2. QED
          BY <1>1, <2>2, <5>1
      <4>3. QED
        BY <4>1, <4>2
    <3>2. QED
      BY <1>1, <1>6, <3>1
  <2>4. p = i
    <3>1. CASE p > i
      <4>1. i + 1 \in FirstDigit(x) .. p
        BY <1>3, <2>2, <3>1 DEF IntTo
      <4>2. QED
        BY <1>5, <2>3, <4>1 DEF IntTo, AllDigits
    <3>2. CASE p < i
      <4>1. p + 1 \in FirstDigit(x) .. i
        BY <1>3, <1>5, <3>2 DEF IntTo
      <4>2. x[p + 1] \in Digits
        BY <2>2, <4>1 DEF IntTo, AllDigits
      <4>3. q = p
        BY <1>5, <1>6, <4>2 DEF FractionTo
      <4>4. q # m
        BY <1>1, <3>2, <4>3
      <4>5. QED
        BY <1>5, <1>6, <4>2, <4>3, <4>4 DEF ExponentTo
    <3>3. QED
      BY <3>1, <3>2
  <2>5. q = p => x[p + 1] = "e"
    BY <1>1, <1>5, <2>3, <2>4 DEF ExponentTo
  <2>6. q # p => x[p + 1] = "." /\ p + 2 <= q /\ AllDigits(x, p + 2, q)
    BY <1>5 DEF FractionTo
  <2>7. CASE st = "decimal1"
    <3>1. c \notin Digits
      BY <2>7, Transitions
    <3>2. q # p
      BY <2>2, <2>4, <2>5, <2>7
    <3>3. n + 1 = p + 2 /\ p + 2 \in p + 2 .. q
      BY <2>2, <2>4, <2>6, <2>7, <3>2
    <3>4. x[p + 2] \in Digits
      BY <2>6, <3>2, <3>3 DEF AllDigits
    <3>5. QED
      BY <1>2, <3>1, <3>3, <3>4
  <2>8. CASE st \in {"exponent", "sign"}
    <3>1. q = j
      <4>1. CASE q = p
        <5>1. j = i
          BY <2>2, <2>4, <2>5, <4>1 DEF FractionTo
        <5>2. QED
          BY <2>4, <4>1, <5>1
      <4>2. CASE q # p
        <5>1. x[i + 1] = "." /\ i + 2 <= q /\ AllDigits(x, i + 2, q)
          BY <2>4, <2>6, <4>2
        <5>2. i + 2 <= j /\ AllDigits(x, i + 2, j)
          BY <2>2, <2>8, <5>1 DEF FractionTo
        <5>3. CASE q > j
          <6>1. j + 1 \in i + 2 .. q
            BY <5>2, <5>3
          <6>2. QED
            BY <1>6, <2>2, <2>8, <5>1, <6>1 DEF AllDigits
        <5>4. CASE q < j
          <6>1. q + 1 \in i + 2 .. j /\ q # m
            BY <1>1, <5>1, <5>4
          <6>2. x[q + 1] \in Digits
            BY <5>2, <6>1 DEF AllDigits
          <6>3. QED
            BY <1>5, <1>6, <6>1, <6>2 DEF ExponentTo
        <5>5. QED
          BY <5>3, <5>4
      <4>3. QED
        BY <4>1, <4>2
    <3>2. j # m
      BY <1>1, <2>2
    <3>3. \/ j + 2 <= m /\ AllDigits(x, j + 2, m)
          \/ x[j + 2] \in {"+", "-"} /\ j + 3 <= m /\ AllDigits(x, j + 3, m)
      BY <1>5, <3>1, <3>2 DEF ExponentTo
    <3>4. \/ j + 2 <= m /\ x[j + 2] \in Digits
          \/ x[j + 2] \in {"+", "-"} /\ j + 3 <= m /\ x[j + 3] \in Digits
      BY <3>3, <1>1 DEF AllDigits
    <3>5. CASE st = "exponent"
      <4>1. c \notin Digits /\ c \notin {"+", "-"}
        BY <3>5, Transitions
      <4>2. x[j + 2] = c
        <5>1. n + 1 = j + 2
          BY <2>2, <3>5
        <5>2. QED
          BY <1>2, <5>1
      <4>3. QED
        BY <3>4, <4>1, <4>2
    <3>6. CASE st = "sign"
      <4>1. c \notin Digits
        BY <3>6, Transitions
      <4>2. x[j + 3] = c /\ x[j + 2] \notin Digits
        <5>1. n + 1 = j + 3
          BY <2>2, <3>6
        <5>2. QED
          BY <1>2, <1>6, <2>2, <3>6, <5>1
      <4>3. QED
        BY <3>4, <4>1, <4>2
    <3>7. QED
      BY <2>8, <3>5, <3>6
  <2>9. QED
    BY <1>8, <2>7, <2>8
<1>9. CASE st \in {"zero", "any1", "decimal2", "any2"}
  BY <1>9, Transitions
<1>10. QED
  BY <1>7, <1>8, <1>9 DEF NumberStates

-----------------------------------------------------------------------------
(***************************************************************************)
(* What has been scanned: the tokens account for every character.          *)
(***************************************************************************)

\* What get() may return.
Alphabet == Characters \cup {EOF}

\* What TokensAreJson says of a token of this type with the characters s.
JsonToken(type, s) ==
  CASE type \in Structural \cup String -> s = <<type>>
    [] type = "literal" -> Tail(s) = Literals[Head(s)]
    [] OTHER ->
         /\ IsNumber(s)
         /\ type = IF ~IsInt(Unsigned(s)) \/ ~InRange(s) THEN "float"
                   ELSE IF s[1] = "-" THEN "integer" ELSE "unsigned"

\* The position i is in one of the tokens ts.
Within(ts, i) == \E k \in DOMAIN ts : i \in ts[k].from .. ts[k].to

\* The position i of the text x is not lost.
Counted(x, ts, i) ==
  \/ Within(ts, i)
  \/ x[i] \in Blank
  \/ i <= 3 /\ x[i] = <<"EF", "BB", "BF">>[i]

\* The first n characters of the text x have given the tokens ts.
Scanned(x, ts, n) ==
  /\ ts \in Seq(Range(ts))
  /\ \A k \in 1 .. Len(ts) :
       /\ ts[k].from \in 1 .. n /\ ts[k].to \in ts[k].from .. n
       /\ JsonToken(ts[k].type, SubSeq(x, ts[k].from, ts[k].to))
  /\ \A k \in 2 .. Len(ts) : ts[k - 1].to < ts[k].from
  /\ \A i \in 1 .. n : Counted(x, ts, i)

\* Parts of two texts that agree.
LEMMA SamePart ==
  ASSUME NEW S, NEW x \in Seq(S), NEW y \in Seq(S), NEW a \in Nat \ {0}, NEW b \in Nat,
         b <= Len(x), b <= Len(y), \A k \in a .. b : x[k] = y[k]
  PROVE  SubSeq(x, a, b) = SubSeq(y, a, b)
<1> DEFINE p == SubSeq(x, a, b)
           q == SubSeq(y, a, b)
<1>1. (\A k \in a .. b : x[k] \in S) /\ (\A k \in a .. b : y[k] \in S)
  BY LenProperties, ElementOfSeq
<1>2. /\ p \in Seq(S) /\ q \in Seq(S)
      /\ Len(p) = (IF a <= b THEN b - a + 1 ELSE 0) /\ Len(q) = Len(p)
      /\ \A k \in 1 .. b - a + 1 : p[k] = x[a + k - 1] /\ q[k] = y[a + k - 1]
  BY <1>1, SubSeqProperties
<1> HIDE DEF p, q
<1>3. ASSUME NEW k \in 1 .. Len(p) PROVE p[k] = q[k]
  <2>1. k \in 1 .. b - a + 1 /\ a + k - 1 \in a .. b
    BY <1>2
  <2>2. QED
    BY <2>1, <1>2
<1>4. p = q
  BY <1>2, <1>3, SeqEqual
<1>5. QED
  BY <1>4 DEF p, q

\* The last part of a text to which a character has been added.
LEMMA LongerPart ==
  ASSUME NEW S, NEW x \in Seq(S), NEW y \in Seq(S), Len(y) = Len(x) + 1,
         \A k \in 1 .. Len(x) : y[k] = x[k],
         NEW a \in 1 .. Len(x) + 1
  PROVE  /\ SubSeq(y, a, Len(y)) = Append(SubSeq(x, a, Len(x)), y[Len(y)])
         /\ SubSeq(y, a, Len(x)) = SubSeq(x, a, Len(x))
<1>1. Len(x) \in Nat /\ Len(y) \in 1 .. Len(y) /\ Len(y) \in Nat /\ Len(y) - 1 = Len(x)
      /\ a \in 1 .. Len(y) /\ Len(y) \in a .. Len(y)
  BY LenProperties
<1>2. SubSeq(y, a, Len(x)) = SubSeq(x, a, Len(x))
  BY <1>1, SamePart
<1>3. SubSeq(y, a, Len(y)) = SubSeq(y, a, Len(y) - 1) \o <<y[Len(y)]>>
  BY <1>1, SubSeqRecursiveSecond
<1>4. SubSeq(x, a, Len(x)) \in Seq(S) /\ y[Len(y)] \in S
  <2>1. \A k \in a .. Len(x) : x[k] \in S
    BY <1>1, ElementOfSeq
  <2>2. QED
    BY <1>1, <2>1, SubSeqProperties, ElementOfSeq
<1>5. Append(SubSeq(x, a, Len(x)), y[Len(y)]) = SubSeq(x, a, Len(x)) \o <<y[Len(y)]>>
  BY <1>4, AppendIsConcat
<1>6. QED
  BY <1>1, <1>2, <1>3, <1>5

LEMMA ScannedLonger ==
  ASSUME NEW S, NEW x \in Seq(S), NEW y \in Seq(S), NEW ts, NEW n \in Nat,
         n <= Len(x), n <= Len(y), \A k \in 1 .. n : x[k] = y[k], Scanned(x, ts, n)
  PROVE  Scanned(y, ts, n)
<1>1. ASSUME NEW k \in 1 .. Len(ts)
      PROVE  SubSeq(y, ts[k].from, ts[k].to) = SubSeq(x, ts[k].from, ts[k].to)
  <2>1. ts[k].from \in 1 .. n /\ ts[k].to \in ts[k].from .. n
    BY DEF Scanned
  <2>2. /\ ts[k].from \in Nat \ {0} /\ ts[k].to \in Nat
        /\ ts[k].to <= Len(x) /\ ts[k].to <= Len(y)
        /\ \A i \in ts[k].from .. ts[k].to : x[i] = y[i]
    BY <2>1, LenProperties
  <2>3. QED
    BY <2>2, SamePart
<1>2. \A i \in 1 .. n : Counted(y, ts, i)
  BY DEF Scanned, Counted
<1>3. QED
  BY <1>1, <1>2 DEF Scanned

LEMMA NothingScanned ==
  ASSUME NEW x
  PROVE  Scanned(x, <<>>, 0)
<1>1. <<>> \in Seq(Range(<<>>)) /\ Len(<<>>) = 0
  BY EmptySeq
<1>2. QED
  BY <1>1 DEF Scanned

\* A character that is in no token.
LEMMA ScannedBlank ==
  ASSUME NEW x, NEW ts, NEW n \in Nat, Scanned(x, ts, n), Counted(x, ts, n + 1)
  PROVE  Scanned(x, ts, n + 1)
<1>1. \A i \in 1 .. n + 1 : i \in 1 .. n \/ i = n + 1
  OBVIOUS
<1>2. \A i \in 1 .. n + 1 : Counted(x, ts, i)
  BY <1>1 DEF Scanned
<1>3. \A k \in 1 .. Len(ts) :
        ts[k].from \in 1 .. n + 1 /\ ts[k].to \in ts[k].from .. n + 1
  BY DEF Scanned
<1>4. QED
  BY <1>2, <1>3 DEF Scanned

LEMMA ScannedToken ==
  ASSUME NEW x, NEW ts, NEW from \in Nat \ {0}, NEW to \in Nat, from <= to,
         Scanned(x, ts, from - 1),
         NEW type, JsonToken(type, SubSeq(x, from, to)),
         NEW us, us = Append(ts, [type |-> type, from |-> from, to |-> to])
  PROVE  Scanned(x, us, to) /\ Within(us, from)
<1> DEFINE t == [type |-> type, from |-> from, to |-> to]
           S == Range(ts) \cup {t}
           n == Len(ts)
<1>1. ts \in Seq(S) /\ t \in S /\ n \in Nat
  BY SeqMonotonic, LenProperties DEF Scanned
<1>2. t.type = type /\ t.from = from /\ t.to = to
  OBVIOUS
<1>3. us = Append(ts, t) /\ Len(ts) = n
  OBVIOUS
<1> HIDE DEF t, S, n
<1>4. /\ us \in Seq(S) /\ Len(us) = n + 1
      /\ \A k \in 1 .. n : us[k] = ts[k]
      /\ us[n + 1] = t
  BY <1>1, <1>3, AppendProperties
<1>5. us \in Seq(Range(us)) /\ DOMAIN us = 1 .. n + 1 /\ DOMAIN ts = 1 .. n
  BY <1>1, <1>3, <1>4, SeqOfRange, LenProperties
<1>6. \A k \in 1 .. n + 1 : k \in 1 .. n \/ k = n + 1
  BY <1>1
<1>7. ASSUME NEW k \in 1 .. n
      PROVE  /\ us[k].from \in 1 .. from - 1 /\ us[k].to \in us[k].from .. from - 1
             /\ JsonToken(us[k].type, SubSeq(x, us[k].from, us[k].to))
  BY <1>3, <1>4 DEF Scanned
<1>b. \A f \in 1 .. from - 1 : \A g \in f .. from - 1 :
        f \in 1 .. to /\ g \in f .. to /\ g < from
  OBVIOUS
<1>8. ASSUME NEW k \in 1 .. n + 1
      PROVE  /\ us[k].from \in 1 .. to /\ us[k].to \in us[k].from .. to
             /\ JsonToken(us[k].type, SubSeq(x, us[k].from, us[k].to))
  <2>1. CASE k \in 1 .. n
    <3>1. us[k].from \in 1 .. to /\ us[k].to \in us[k].from .. to
      BY <1>7, <1>b, <2>1
    <3>2. QED
      BY <1>7, <2>1, <3>1
  <2>2. CASE k = n + 1
    BY <1>2, <1>4, <2>2
  <2>3. QED
    BY <1>6, <2>1, <2>2
<1>9. ASSUME NEW k \in 2 .. n + 1
      PROVE  us[k - 1].to < us[k].from
  <2>1. CASE k = n + 1
    <3>1. k - 1 \in 1 .. n /\ us[k].from = from
      BY <1>1, <1>2, <1>4, <2>1
    <3>2. us[k - 1].to \in us[k - 1].from .. from - 1 /\ us[k - 1].from \in 1 .. from - 1
      BY <1>7, <3>1
    <3>3. QED
      BY <1>b, <3>1, <3>2
  <2>2. CASE k # n + 1
    <3>1. k \in 2 .. n /\ k \in 1 .. n /\ k - 1 \in 1 .. n
      BY <1>1, <2>2
    <3>2. ts[k - 1].to < ts[k].from
      BY <1>3, <3>1 DEF Scanned
    <3>3. QED
      BY <1>4, <3>1, <3>2
  <2>3. QED
    BY <2>1, <2>2
<1>10. ASSUME NEW i \in 1 .. to PROVE Counted(x, us, i)
  <2>1. CASE i \in from .. to
    BY <1>1, <1>2, <1>4, <1>5, <2>1 DEF Counted, Within
  <2>2. CASE i \notin from .. to
    <3>1. i \in 1 .. from - 1
      BY <2>2
    <3>2. Counted(x, ts, i)
      BY <3>1 DEF Scanned
    <3>3. Within(ts, i) => Within(us, i)
      BY <1>1, <1>4, <1>5 DEF Within
    <3>4. QED
      BY <3>2, <3>3 DEF Counted
  <2>3. QED
    BY <2>1, <2>2
<1>11. Within(us, from)
  BY <1>1, <1>2, <1>4, <1>5 DEF Within
<1>12. QED
  BY <1>4, <1>5, <1>8, <1>9, <1>10, <1>11 DEF Scanned

LEMMA MoreWithin ==
  ASSUME NEW S, NEW ts \in Seq(S), NEW t, NEW i, Within(ts, i)
  PROVE  Within(Append(ts, t), i)
<1>1. PICK k \in DOMAIN ts : i \in ts[k].from .. ts[k].to
  BY DEF Within
<1>2. k \in DOMAIN Append(ts, t) /\ Append(ts, t)[k] = ts[k]
  <2>1. ts \in Seq(S \cup {t})
    BY SeqMonotonic
  <2>2. /\ Append(ts, t) \in Seq(S \cup {t}) /\ Len(Append(ts, t)) = Len(ts) + 1
        /\ \A j \in 1 .. Len(ts) : Append(ts, t)[j] = ts[j]
    BY <2>1, AppendProperties
  <2>3. /\ DOMAIN Append(ts, t) = 1 .. Len(ts) + 1 /\ DOMAIN ts = 1 .. Len(ts)
        /\ Len(ts) \in Nat
    BY <2>1, <2>2, LenProperties
  <2>4. QED
    BY <2>2, <2>3
<1>3. QED
  BY <1>1, <1>2 DEF Within

-----------------------------------------------------------------------------
(***************************************************************************)
(* The invariant of the scanner, and each of its steps.                    *)
(***************************************************************************)

\* How many characters have been read.
Pos == IF next_unget THEN Len(text) - 1 ELSE Len(text)

TextTyped ==
  /\ text \in Seq(Alphabet)
  /\ next_unget \in BOOLEAN
  /\ next_unget => text # <<>> /\ scan_pc = "blank"

NoTokenYet == tokens = <<>> /\ begin = 0

BetweenTokens ==
  /\ Scanned(text, tokens, Pos)
  /\ begin > 0 => Within(tokens, begin)
  /\ begin \in Nat

TokenBegun == begin \in 1 .. Len(text) /\ Scanned(text, tokens, begin - 1)

\* The literal that begins at b has been read to the end of the text x, and e is
\* what is left of it.
LiteralRead(x, b, e) ==
  /\ x[b] \in DOMAIN Literals
  /\ \E k \in 0 .. Len(Literals[x[b]]) - 1 :
       /\ Len(x) = b + k
       /\ \A i \in 1 .. k : x[b + i] = Literals[x[b]][i]
       /\ e = SubSeq(Literals[x[b]], k + 1, Len(Literals[x[b]]))

InNumber ==
  /\ TokenBegun
  /\ NumberState(scan_pc, SubSeq(text, begin, Len(text)))
  /\ number_type = IF scan_pc \notin {"minus", "zero", "any1"} THEN "float"
                   ELSE IF text[begin] = "-" THEN "integer" ELSE "unsigned"

Stopped ==
  /\ \E n \in 0 .. Len(text) : Scanned(text, tokens, n)
  /\ RejectsOnlyGarbage

LexerInvariant ==
  /\ TextTyped
  /\ scan_pc \in NumberStates \cup
       {"bom", "bom2", "bom3", "blank", "string", "literal", "end", "error"}
  /\ scan_pc = "bom" => text = <<>> /\ NoTokenYet
  /\ scan_pc \in {"bom2", "bom3"} =>
       /\ Len(text) = IF scan_pc = "bom2" THEN 1 ELSE 2
       /\ text[1] = "EF" /\ (scan_pc = "bom3" => text[2] = "BB")
       /\ NoTokenYet
  /\ scan_pc = "blank" => BetweenTokens
  /\ scan_pc = "string" => Len(text) = 1 /\ text[1] \in String /\ NoTokenYet
  /\ scan_pc = "literal" => TokenBegun /\ LiteralRead(text, begin, expected)
  /\ scan_pc \in NumberStates => InNumber
  /\ scan_pc = "end" => text # <<>> /\ Scanned(text, tokens, Len(text) - 1)
  /\ scan_pc = "error" => Stopped

\* A character has been read.
LEMMA CharacterRead ==
  ASSUME TextTyped, NEW c \in Alphabet, Get(c)
  PROVE  /\ text' \in Seq(Alphabet) /\ text' # <<>>
         /\ Pos \in Nat /\ Pos <= Len(text) /\ Len(text') = Pos + 1
         /\ text'[Pos + 1] = c
         /\ \A k \in 1 .. Pos : text'[k] = text[k]
         /\ scan_pc # "blank" => Pos = Len(text)
<1>1. text \in Seq(Alphabet) /\ Len(text) \in Nat /\ (text = <<>> <=> Len(text) = 0)
  BY LenProperties, EmptySeq DEF TextTyped
<1>2. CASE next_unget
  <2>1. c = Last(text) /\ text' = text /\ text # <<>> /\ scan_pc = "blank"
    BY <1>2 DEF Get, TextTyped
  <2>2. Pos = Len(text) - 1 /\ Last(text) = text[Len(text)]
    BY <1>2 DEF Pos, Last
  <2>3. QED
    BY <1>1, <2>1, <2>2
<1>3. CASE ~next_unget
  <2>1. text' = Append(text, c) /\ Pos = Len(text)
    BY <1>3 DEF Get, Pos
  <2>2. /\ text' \in Seq(Alphabet) /\ Len(text') = Len(text) + 1
        /\ \A k \in 1 .. Len(text) : text'[k] = text[k]
        /\ text'[Len(text) + 1] = c
    BY <1>1, <2>1, AppendProperties
  <2>3. text' # <<>>
    BY <1>1, <2>2, EmptySeq
  <2>4. QED
    BY <1>1, <2>1, <2>2, <2>3
<1>4. QED
  BY <1>2, <1>3 DEF TextTyped

\* It is consumed: where scanning goes on.
LEMMA Consumes ==
  ASSUME TextTyped, NEW c \in Alphabet, Get(c), Consumed
  PROVE  TextTyped' /\ Pos' = Pos + 1 /\ Here = Pos + 1
BY CharacterRead DEF Consumed, TextTyped, Pos, Here

\* What has been scanned stays so.
LEMMA StaysScanned ==
  ASSUME TextTyped, NEW c \in Alphabet, Get(c), NEW n \in Nat, n <= Pos,
         Scanned(text, tokens, n)
  PROVE  Scanned(text', tokens, n)
<1>1. /\ text \in Seq(Alphabet) /\ text' \in Seq(Alphabet)
      /\ n <= Len(text) /\ n <= Len(text')
      /\ \A k \in 1 .. n : text[k] = text'[k]
  BY CharacterRead, LenProperties DEF TextTyped
<1>2. QED
  BY <1>1, ScannedLonger

LEMMA GoesOnBlank ==
  ASSUME TextTyped', scan_pc' = "blank", BetweenTokens'
  PROVE  LexerInvariant'
BY DEF LexerInvariant, NumberStates

LEMMA GoesOnError ==
  ASSUME TextTyped', scan_pc' = "error", Stopped'
  PROVE  LexerInvariant'
BY DEF LexerInvariant, NumberStates

LEMMA SkipBomKeeps ==
  ASSUME LexerInvariant, NEW c \in Alphabet, SkipBom(c)
  PROVE  LexerInvariant'
<1>1. /\ scan_pc = "bom" /\ Get(c)
      /\ UNCHANGED <<begin, number_type, expected, tokens>>
      /\ IF c = "EF" THEN scan_pc' = "bom2" /\ Consumed
         ELSE scan_pc' = "blank" /\ next_unget' = TRUE
  BY DEF SkipBom, Goto
<1>2. TextTyped /\ text = <<>> /\ tokens' = <<>> /\ begin' = 0
  BY <1>1 DEF LexerInvariant, NoTokenYet
<1>3. /\ text' \in Seq(Alphabet) /\ text' # <<>> /\ Len(text') = 1 /\ text'[1] = c
  <2>1. Pos = Len(text) /\ Len(text) = 0
    <3>1. Len(<<>>) = 0
      OBVIOUS
    <3>2. QED
      BY <1>1, <1>2, <3>1, CharacterRead
  <2>2. QED
    BY <1>1, <1>2, <2>1, CharacterRead
<1>4. CASE c = "EF"
  <2>1. TextTyped'
    BY <1>1, <1>2, <1>4, Consumes
  <2>2. QED
    BY <1>1, <1>2, <1>3, <1>4, <2>1 DEF LexerInvariant, NumberStates, NoTokenYet
<1>5. CASE c # "EF"
  <2>1. TextTyped' /\ Pos' = 0
    BY <1>1, <1>3, <1>5 DEF TextTyped, Pos
  <2>2. BetweenTokens'
    BY <1>2, <2>1, NothingScanned DEF BetweenTokens
  <2>3. QED
    BY <1>1, <1>5, <2>1, <2>2, GoesOnBlank
<1>6. QED
  BY <1>4, <1>5

LEMMA FinishBomKeeps ==
  ASSUME LexerInvariant, NEW c \in Alphabet, FinishBom(c)
  PROVE  LexerInvariant'
<1>1. /\ scan_pc \in {"bom2", "bom3"} /\ Get(c) /\ Consumed
      /\ UNCHANGED <<begin, number_type, expected, tokens>>
  BY DEF FinishBom, Goto
<1>2. scan_pc' = IF scan_pc = "bom2" /\ c = "BB" THEN "bom3"
                 ELSE IF scan_pc = "bom3" /\ c = "BF" THEN "blank" ELSE "error"
  BY <1>1, Zenon DEF FinishBom, Goto
<1>3. TextTyped /\ tokens = <<>> /\ begin = 0 /\ tokens' = <<>> /\ begin' = 0
      /\ Len(text) = (IF scan_pc = "bom2" THEN 1 ELSE 2)
      /\ text[1] = "EF" /\ (scan_pc = "bom3" => text[2] = "BB")
  BY <1>1 DEF LexerInvariant, NoTokenYet
<1>4. Pos = Len(text)
  BY <1>1, <1>3, CharacterRead
<1>5. TextTyped' /\ Pos' = Pos + 1
  BY <1>1, <1>3, Consumes
<1>6. Len(text') = Pos + 1 /\ text'[Pos + 1] = c /\ \A k \in 1 .. Pos : text'[k] = text[k]
  BY <1>1, <1>3, CharacterRead
<1>7. CASE scan_pc' = "bom3"
  <2>1. Len(text') = 2 /\ text'[1] = "EF" /\ text'[2] = "BB"
    BY <1>1, <1>2, <1>3, <1>4, <1>6, <1>7
  <2>2. QED
    BY <1>3, <1>5, <1>7, <2>1 DEF LexerInvariant, NumberStates, NoTokenYet
<1>8. CASE scan_pc' = "blank"
  <2>1. Pos' = 3 /\ text'[1] = "EF" /\ text'[2] = "BB" /\ text'[3] = "BF"
    BY <1>1, <1>2, <1>3, <1>4, <1>5, <1>6, <1>8
  <2>2. \A i \in 1 .. 3 : Counted(text', <<>>, i)
    BY <2>1 DEF Counted
  <2>3. Scanned(text', <<>>, 3)
    <3>1. 1 \in 1 .. 3 /\ 2 \in 1 .. 3 /\ 3 \in 1 .. 3 /\ 0 + 1 = 1 /\ 1 + 1 = 2 /\ 2 + 1 = 3
      OBVIOUS
    <3>2. Scanned(text', <<>>, 0)
      BY NothingScanned
    <3>3. Scanned(text', <<>>, 1)
      BY <2>2, <3>1, <3>2, ScannedBlank
    <3>4. Scanned(text', <<>>, 2)
      BY <2>2, <3>1, <3>3, ScannedBlank
    <3>5. QED
      BY <2>2, <3>1, <3>4, ScannedBlank
  <2>4. BetweenTokens'
    BY <1>3, <2>1, <2>3 DEF BetweenTokens
  <2>5. QED
    BY <1>5, <1>8, <2>4, GoesOnBlank
<1>9. CASE scan_pc' = "error"
  <2>1. Scanned(text', tokens', 0) /\ 0 \in 0 .. Len(text')
    BY <1>3, <1>4, <1>6, NothingScanned
  <2>2. RejectsOnlyGarbage'
    BY <1>3 DEF RejectsOnlyGarbage
  <2>3. Stopped'
    BY <2>1, <2>2 DEF Stopped
  <2>4. QED
    BY <1>5, <1>9, <2>3, GoesOnError
<1>10. QED
  BY <1>2, <1>7, <1>8, <1>9

LEMMA SkipBlankKeeps ==
  ASSUME LexerInvariant, NEW c \in Alphabet, SkipBlank(c)
  PROVE  LexerInvariant'
<1>1. /\ scan_pc = "blank" /\ c \in Blank /\ Get(c) /\ Consumed
      /\ UNCHANGED <<scan_pc, begin, number_type, expected, tokens>>
  BY DEF SkipBlank
<1>2. TextTyped /\ BetweenTokens /\ Pos \in Nat
  BY <1>1, CharacterRead DEF LexerInvariant
<1>3. TextTyped' /\ Pos' = Pos + 1
  BY <1>1, <1>2, Consumes
<1>4. Scanned(text', tokens, Pos)
  BY <1>1, <1>2, StaysScanned DEF BetweenTokens
<1>5. Counted(text', tokens, Pos + 1)
  BY <1>1, <1>2, CharacterRead DEF Counted
<1>6. Scanned(text', tokens, Pos + 1)
  BY <1>2, <1>4, <1>5, ScannedBlank
<1>7. BetweenTokens'
  BY <1>1, <1>2, <1>3, <1>6 DEF BetweenTokens
<1>8. QED
  BY <1>1, <1>3, <1>7, GoesOnBlank

\* A token of one character.
LEMMA OneCharacter ==
  ASSUME NEW S, NEW x \in Seq(S), NEW n \in 1 .. Len(x)
  PROVE  SubSeq(x, n, n) = <<x[n]>>
<1> DEFINE t == SubSeq(x, n, n)
<1>1. n \in Nat /\ x[n] \in S
  BY LenProperties, ElementOfSeq
<1>2. \A i \in n .. n : x[i] \in S
  BY <1>1
<1>3. /\ t \in Seq(S) /\ Len(t) = IF n <= n THEN n - n + 1 ELSE 0
      /\ \A i \in 1 .. n - n + 1 : t[i] = x[n + i - 1]
  BY <1>1, <1>2, SubSeqProperties
<1>4. Len(t) = 1 /\ t[1] = x[n]
  BY <1>1, <1>3
<1> HIDE DEF t
<1>5. t = <<x[n]>>
  BY <1>3, <1>4
<1>6. QED
  BY <1>5 DEF t

\* When a token of each kind is one of JSON.
LEMMA CharacterToken ==
  ASSUME NEW c \in Structural \cup String
  PROVE  JsonToken(c, <<c>>)
<1>1. c # "literal"
  BY Zenon DEF Structural, String
<1>2. QED
  BY <1>1, Zenon DEF JsonToken

LEMMA LiteralToken ==
  ASSUME NEW s, Tail(s) = Literals[Head(s)]
  PROVE  JsonToken("literal", s)
<1>1. "literal" \notin Structural \cup String
  BY Zenon DEF Structural, String
<1>2. QED
  BY <1>1, Zenon DEF JsonToken

LEMMA NumberToken ==
  ASSUME NEW s, IsNumber(s), NEW type,
         type = IF ~IsInt(Unsigned(s)) \/ ~InRange(s) THEN "float"
                ELSE IF s[1] = "-" THEN "integer" ELSE "unsigned"
  PROVE  JsonToken(type, s)
<1>1. type \in {"float", "integer", "unsigned"}
  OBVIOUS
<1>2. type \notin Structural \cup String
  BY <1>1, Zenon DEF Structural, String
<1>3. type # "literal"
  BY <1>1
<1>4. QED
  BY <1>2, <1>3, Zenon DEF JsonToken

LEMMA ScanCharacterKeeps ==
  ASSUME LexerInvariant, NEW c \in Alphabet, ScanCharacter(c)
  PROVE  LexerInvariant'
<1>1. /\ scan_pc = "blank" /\ c \in Structural \cup String /\ Get(c) /\ Consumed
      /\ IF c \in String /\ Here = 1 THEN Goto("string") ELSE Emit(c, Here, Here)
  BY DEF ScanCharacter
<1>2. TextTyped /\ BetweenTokens /\ Pos \in Nat
  BY <1>1, CharacterRead DEF LexerInvariant
<1>3. TextTyped' /\ Pos' = Pos + 1 /\ Here = Pos + 1
  BY <1>1, <1>2, Consumes
<1>4. Scanned(text', tokens, Pos)
  BY <1>1, <1>2, StaysScanned DEF BetweenTokens
<1>5. Len(text') = Pos + 1 /\ text'[Pos + 1] = c /\ text' \in Seq(Alphabet)
  BY <1>1, <1>2, CharacterRead
<1>6. CASE c \in String /\ Here = 1
  <2>1. UNCHANGED <<begin, tokens>> /\ scan_pc' = "string"
    BY <1>1, <1>6 DEF Goto
  <2>2. Pos = 0
    BY <1>2, <1>3, <1>6
  <2>3. tokens = <<>>
    <3>1. tokens \in Seq(Range(tokens)) /\ \A k \in 1 .. Len(tokens) : tokens[k].from \in 1 .. 0
      BY <2>2, <1>4 DEF Scanned
    <3>2. ~(1 \in 1 .. Len(tokens))
      BY <3>1
    <3>3. Len(tokens) = 0
      BY <3>1, <3>2, LenProperties
    <3>4. QED
      BY <3>1, <3>3, EmptySeq
  <2>4. begin = 0
    <3>1. DOMAIN tokens = {}
      BY <2>3
    <3>2. QED
      BY <3>1, <1>2 DEF BetweenTokens, Within
  <2>5. Len(text') = 1 /\ text'[1] \in String
    BY <1>5, <1>6, <2>2
  <2>6. QED
    BY <1>3, <2>1, <2>3, <2>4, <2>5 DEF LexerInvariant, NumberStates, NoTokenYet
<1>7. CASE ~(c \in String /\ Here = 1)
  <2>1. /\ tokens' = Append(tokens, [type |-> c, from |-> Pos + 1, to |-> Pos + 1])
        /\ scan_pc' = "blank" /\ UNCHANGED begin
    BY <1>1, <1>3, <1>7 DEF Emit
  <2>2. Pos + 1 \in Nat \ {0} /\ Pos + 1 \in Nat /\ Pos + 1 - 1 = Pos /\ Pos + 1 \in 1 .. Len(text')
    BY <1>2, <1>5
  <2>3. JsonToken(c, SubSeq(text', Pos + 1, Pos + 1))
    <3>1. SubSeq(text', Pos + 1, Pos + 1) = <<c>>
      BY <1>5, <2>2, OneCharacter
    <3>2. QED
      BY <3>1, <1>1, CharacterToken
  <2>4. Scanned(text', tokens', Pos + 1)
    <3>1. PICK n \in Nat \ {0} : n = Pos + 1
      BY <2>2
    <3>2. /\ n \in Nat /\ n <= n /\ Scanned(text', tokens, n - 1)
          /\ JsonToken(c, SubSeq(text', n, n))
          /\ tokens' = Append(tokens, [type |-> c, from |-> n, to |-> n])
      <4>1. n \in Nat /\ n <= n /\ n - 1 = Pos
        BY <1>2, <3>1
      <4>2. JsonToken(c, SubSeq(text', n, n))
        BY <2>3, <3>1
      <4>3. QED
        BY <1>4, <2>1, <3>1, <4>1, <4>2
    <3>3. Scanned(text', tokens', n)
      BY <3>2, ScannedToken
    <3>4. QED
      BY <3>1, <3>3
  <2>5. begin > 0 => Within(tokens', begin)
    BY <1>2, <2>1, MoreWithin DEF BetweenTokens, Scanned
  <2>6. BetweenTokens'
    BY <1>2, <1>3, <2>1, <2>4, <2>5 DEF BetweenTokens
  <2>7. QED
    BY <1>3, <2>1, <2>6, GoesOnBlank
<1>8. QED
  BY <1>6, <1>7

LEMMA ScanEndKeeps ==
  ASSUME LexerInvariant, NEW c \in Alphabet, ScanEnd(c)
  PROVE  LexerInvariant'
<1>1. /\ scan_pc = "blank" /\ Get(c) /\ Consumed /\ scan_pc' = "end" /\ tokens' = tokens
  BY DEF ScanEnd, Goto
<1>2. TextTyped /\ BetweenTokens /\ Pos \in Nat
  BY <1>1, CharacterRead DEF LexerInvariant
<1>3. TextTyped'
  BY <1>1, <1>2, Consumes
<1>4. Scanned(text', tokens, Pos)
  BY <1>1, <1>2, StaysScanned DEF BetweenTokens
<1>5. text' # <<>> /\ Len(text') - 1 = Pos
  BY <1>1, <1>2, CharacterRead
<1>6. QED
  BY <1>1, <1>3, <1>4, <1>5 DEF LexerInvariant, NumberStates

LEMMA ScanGarbageKeeps ==
  ASSUME LexerInvariant, NEW c \in Alphabet, ScanGarbage(c)
  PROVE  LexerInvariant'
<1>1. /\ scan_pc = "blank" /\ Get(c) /\ Consumed /\ scan_pc' = "error"
      /\ UNCHANGED <<tokens, begin>>
  BY DEF ScanGarbage, Goto
<1>2. TextTyped /\ BetweenTokens /\ Pos \in Nat
  BY <1>1, CharacterRead DEF LexerInvariant
<1>3. TextTyped'
  BY <1>1, <1>2, Consumes
<1>4. Scanned(text', tokens, Pos) /\ Pos \in 0 .. Len(text')
  <2>1. Scanned(text', tokens, Pos)
    BY <1>1, <1>2, StaysScanned DEF BetweenTokens
  <2>2. Len(text') = Pos + 1
    BY <1>1, <1>2, CharacterRead
  <2>3. QED
    BY <1>2, <2>1, <2>2
<1>5. RejectsOnlyGarbage'
  <2>1. begin > 0 => InToken(begin)'
    BY <1>1, <1>2 DEF BetweenTokens, Within, InToken
  <2>2. QED
    BY <1>1, <2>1 DEF RejectsOnlyGarbage
<1>6. Stopped'
  BY <1>1, <1>4, <1>5 DEF Stopped
<1>7. QED
  BY <1>1, <1>3, <1>6, GoesOnError

\* The last part of a text.
LEMMA LastPart ==
  ASSUME NEW S, NEW x \in Seq(S), NEW b \in 1 .. Len(x)
  PROVE  /\ SubSeq(x, b, Len(x)) \in Seq(S) /\ SubSeq(x, b, Len(x)) # <<>>
         /\ Len(SubSeq(x, b, Len(x))) = Len(x) - b + 1
         /\ SubSeq(x, b, Len(x))[1] = x[b]
<1> DEFINE t == SubSeq(x, b, Len(x))
<1>1. Len(x) \in Nat /\ b \in Nat \ {0} /\ b <= Len(x) /\ \A k \in b .. Len(x) : x[k] \in S
  BY LenProperties, ElementOfSeq
<1>2. /\ t \in Seq(S)
      /\ Len(t) = IF b <= Len(x) THEN Len(x) - b + 1 ELSE 0
      /\ \A k \in 1 .. Len(x) - b + 1 : t[k] = x[b + k - 1]
  BY <1>1, SubSeqProperties
<1>3. 1 \in 1 .. Len(x) - b + 1 /\ b + 1 - 1 = b
  BY <1>1
<1>4. Len(t) = Len(x) - b + 1 /\ t[1] = x[b]
  BY <1>1, <1>2, <1>3
<1> HIDE DEF t
<1>5. t # <<>>
  BY <1>1, <1>2, <1>4, EmptySeq
<1>6. QED
  BY <1>2, <1>4, <1>5 DEF t

LEMMA PartEqual ==
  ASSUME NEW S, NEW x \in Seq(S), NEW T, NEW l \in Seq(T), NEW b \in Nat,
         Len(x) = b + Len(l), \A i \in 1 .. Len(l) : x[b + i] = l[i]
  PROVE  SubSeq(x, b + 1, Len(x)) = l
<1> DEFINE t == SubSeq(x, b + 1, Len(x))
           n == Len(l)
<1>1. /\ n \in Nat /\ Len(x) = b + n /\ Len(x) \in Nat /\ b + 1 \in Nat
      /\ \A i \in b + 1 .. Len(x) : x[i] \in S
  BY LenProperties, ElementOfSeq
<1>2. /\ t \in Seq(S)
      /\ Len(t) = IF b + 1 <= Len(x) THEN Len(x) - (b + 1) + 1 ELSE 0
      /\ \A i \in 1 .. Len(x) - (b + 1) + 1 : t[i] = x[b + 1 + i - 1]
  BY <1>1, SubSeqProperties
<1>3. Len(l) = n
  OBVIOUS
<1> HIDE DEF t, n
<1>4. Len(x) - (b + 1) + 1 = n /\ \A i \in 1 .. n : b + 1 + i - 1 = b + i
  BY <1>1
<1>5. Len(t) = n
  BY <1>1, <1>2, <1>4
<1>6. \A i \in 1 .. n : t[i] = l[i]
  BY <1>2, <1>3, <1>4
<1>7. t = l
  BY <1>2, <1>3, <1>5, <1>6, SeqEqual
<1>8. QED
  BY <1>7 DEF t

LEMMA OneMore ==
  ASSUME NEW s \in Seq(Alphabet)
  PROVE  /\ Append(s, "1") \in Seq(Alphabet) /\ Len(Append(s, "1")) = Len(s) + 1
         /\ \A k \in 1 .. Len(s) : Append(s, "1")[k] = s[k]
<1>1. "1" \in Alphabet
  BY Zenon DEF Alphabet, Characters, Digits
<1>2. QED
  BY <1>1, AppendProperties

\* What a number does not begin with.
LEMMA NoNumberBegins ==
  ASSUME NEW s \in Seq(Alphabet), s # <<>>, s[1] \notin Digits \cup {"-"}
  PROVE  ~BeginsNumber(s)
<1>1. ASSUME NEW x \in Seq(Alphabet), x # <<>>, x[1] = s[1]
      PROVE  ~IsNumber(x)
  <2>1. SUFFICES ASSUME NEW i \in 1 .. Len(x), IntTo(x, i) PROVE FALSE
    BY <1>1, NumberParts DEF Parts
  <2>2. FirstDigit(x) = 1
    BY <1>1 DEF FirstDigit
  <2>3. x[1] \in Digits
    BY <2>1, <2>2 DEF IntTo, AllDigits
  <2>4. QED
    BY <1>1, <2>3
<1>2. Len(s) \in Nat \ {0} /\ 1 \in 1 .. Len(s)
  BY LenProperties, EmptySeq
<1>3. Append(s, "1") \in Seq(Alphabet) /\ Append(s, "1") # <<>> /\ Append(s, "1")[1] = s[1]
  BY <1>2, OneMore, EmptySeq
<1>4. QED
  BY <1>1, <1>3 DEF BeginsNumber

\* Scanning stops in a token that began at begin and is no number.
LEMMA StopsInToken ==
  ASSUME TextTyped', scan_pc' = "error", begin' \in 1 .. Len(text'),
         Scanned(text', tokens', begin' - 1),
         ~BeginsNumber(SubSeq(text', begin', Len(text')))
  PROVE  LexerInvariant'
<1>1. Len(text') \in Nat
  BY LenProperties DEF TextTyped
<1>2. begin' - 1 \in 0 .. Len(text')
  <2>1. PICK b \in 1 .. Len(text') : b = begin'
    OBVIOUS
  <2>2. b - 1 \in 0 .. Len(text')
    BY <1>1
  <2>3. QED
    BY <2>1, <2>2
<1>3. RejectsOnlyGarbage'
  BY DEF RejectsOnlyGarbage
<1>4. Stopped'
  BY <1>2, <1>3 DEF Stopped
<1>5. QED
  BY <1>4, GoesOnError

LEMMA ThreeCharacters ==
  ASSUME NEW S, NEW a \in S, NEW b \in S, NEW c \in S
  PROVE  <<a, b, c>> \in Seq(S) /\ Len(<<a, b, c>>) = 3
OBVIOUS

LEMMA LiteralSequence ==
  ASSUME NEW c \in DOMAIN Literals
  PROVE  Literals[c] \in Seq({"r", "u", "e", "l"}) /\ Len(Literals[c]) = 3
<1>1. c = "t" \/ c = "n"
  BY DEF Literals
<1>2. Literals["t"] = <<"r", "u", "e">> /\ Literals["n"] = <<"u", "l", "l">>
  BY DEF Literals
<1>3. /\ "r" \in {"r", "u", "e", "l"} /\ "u" \in {"r", "u", "e", "l"}
      /\ "e" \in {"r", "u", "e", "l"} /\ "l" \in {"r", "u", "e", "l"}
  OBVIOUS
<1> DEFINE S == {"r", "u", "e", "l"}
<1> HIDE DEF S
<1>4. <<"r", "u", "e">> \in Seq(S) /\ Len(<<"r", "u", "e">>) = 3
  BY <1>3, ThreeCharacters DEF S
<1>5. <<"u", "l", "l">> \in Seq(S) /\ Len(<<"u", "l", "l">>) = 3
  BY <1>3, ThreeCharacters DEF S
<1>6. Literals[c] \in Seq(S) /\ Len(Literals[c]) = 3
  <2>1. Literals[c] = <<"r", "u", "e">> \/ Literals[c] = <<"u", "l", "l">>
    BY <1>1, <1>2
  <2>2. QED
    BY <2>1, <1>4, <1>5, Zenon
<1>7. QED
  BY <1>6 DEF S

LEMMA BeginLiteralKeeps ==
  ASSUME LexerInvariant, NEW c \in Alphabet, BeginLiteral(c)
  PROVE  LexerInvariant'
<1>1. /\ scan_pc = "blank" /\ c \in DOMAIN Literals /\ Get(c) /\ Consumed
      /\ scan_pc' = "literal" /\ begin' = Here /\ expected' = Literals[c]
      /\ tokens' = tokens
  BY DEF BeginLiteral
<1>2. TextTyped /\ BetweenTokens /\ Pos \in Nat
  BY <1>1, CharacterRead DEF LexerInvariant
<1>3. TextTyped' /\ Here = Pos + 1
  BY <1>1, <1>2, Consumes
<1>4. Scanned(text', tokens, Pos)
  BY <1>1, <1>2, StaysScanned DEF BetweenTokens
<1>5. Len(text') = Pos + 1 /\ text'[Pos + 1] = c
  BY <1>1, <1>2, CharacterRead
<1>6. TokenBegun'
  <2>1. begin' \in 1 .. Len(text') /\ begin' - 1 = Pos
    BY <1>1, <1>2, <1>3, <1>5
  <2>2. QED
    BY <1>1, <1>4, <2>1 DEF TokenBegun
<1>7. LiteralRead(text', begin', expected')
  <2>1. Literals[c] \in Seq({"r", "u", "e", "l"}) /\ Len(Literals[c]) = 3
    BY <1>1, LiteralSequence
  <2>2. Literals[c] = SubSeq(Literals[c], 1, Len(Literals[c]))
    BY <2>1, SubSeqFull
  <2>3. text'[begin'] = c /\ Len(text') = begin' + 0
    BY <1>1, <1>2, <1>3, <1>5
  <2>4. /\ 0 \in 0 .. Len(Literals[c]) - 1 /\ 0 + 1 = 1
        /\ \A i \in 1 .. 0 : text'[begin' + i] = Literals[c][i]
    BY <2>1
  <2>5. QED
    BY <1>1, <2>2, <2>3, <2>4 DEF LiteralRead
<1>8. QED
  BY <1>1, <1>3, <1>6, <1>7 DEF LexerInvariant, NumberStates

LEMMA ScanLiteralKeeps ==
  ASSUME LexerInvariant, NEW c \in Alphabet, ScanLiteral(c)
  PROVE  LexerInvariant'
<1> DEFINE L == Literals[text[begin]]
<1>1. /\ scan_pc = "literal" /\ Get(c) /\ Consumed
      /\ \/ c # Head(expected) /\ Goto("error")
         \/ c = Head(expected) /\ Len(expected) = 1 /\ Emit("literal", begin, Here)
         \/ /\ c = Head(expected) /\ Len(expected) # 1 /\ expected' = Tail(expected)
            /\ UNCHANGED <<scan_pc, begin, number_type, tokens>>
  BY DEF ScanLiteral
<1>2. TextTyped /\ TokenBegun /\ LiteralRead(text, begin, expected)
  BY <1>1 DEF LexerInvariant
<1>3. TextTyped' /\ Pos' = Pos + 1 /\ Here = Pos + 1
  BY <1>1, <1>2, Consumes
<1>4. /\ Pos = Len(text) /\ Pos \in Nat /\ Len(text') = Pos + 1 /\ text'[Pos + 1] = c
      /\ text' \in Seq(Alphabet) /\ \A i \in 1 .. Pos : text'[i] = text[i]
  BY <1>1, <1>2, CharacterRead
<1>5. PICK k \in 0 .. Len(L) - 1 :
        /\ Len(text) = begin + k
        /\ \A i \in 1 .. k : text[begin + i] = L[i]
        /\ expected = SubSeq(L, k + 1, Len(L))
  BY <1>2 DEF LiteralRead
<1>6. L \in Seq({"r", "u", "e", "l"}) /\ Len(L) = 3 /\ text[begin] \in DOMAIN Literals
  BY <1>2, LiteralSequence DEF LiteralRead
<1>7. Head(expected) = L[k + 1] /\ Tail(expected) = SubSeq(L, k + 2, Len(L))
  <2>1. k + 1 \in 1 .. Len(L) /\ Len(L) \in k + 1 .. Len(L) /\ k + 1 + 1 = k + 2
    BY <1>6
  <2>2. QED
    BY <1>5, <1>6, <2>1, HeadTailOfSubSeq
<1>8. Len(expected) = 3 - k /\ k \in 0 .. 2
  <2>1. k + 1 \in 1 .. Len(L)
    BY <1>6
  <2>2. Len(expected) = Len(L) - (k + 1) + 1
    BY <1>5, <1>6, <2>1, LastPart
  <2>3. QED
    BY <1>6, <2>2
<1>9. begin \in 1 .. Pos /\ begin \in Nat \ {0} /\ begin - 1 \in Nat /\ begin - 1 <= Pos
      /\ Pos = begin + k
  BY <1>2, <1>4, <1>5 DEF TokenBegun
<1>10. Scanned(text', tokens, begin - 1)
  BY <1>1, <1>2, <1>9, StaysScanned DEF TokenBegun
<1>11. text'[begin] = text[begin]
  BY <1>4, <1>9
<1> HIDE DEF L
<1>12. ASSUME c = L[k + 1]
       PROVE  \A i \in 1 .. k + 1 : text'[begin + i] = L[i]
  <2>1. \A i \in 1 .. k : begin + i \in 1 .. Pos
    BY <1>4, <1>9
  <2>2. \A i \in 1 .. k : text'[begin + i] = L[i]
    BY <1>4, <1>5, <2>1
  <2>3. text'[begin + (k + 1)] = L[k + 1]
    BY <1>4, <1>9, <1>12
  <2>4. \A i \in 1 .. k + 1 : i \in 1 .. k \/ i = k + 1
    OBVIOUS
  <2>5. QED
    BY <2>2, <2>3, <2>4
<1>13. CASE c # Head(expected) /\ Goto("error")
  <2>1. scan_pc' = "error" /\ begin' = begin /\ tokens' = tokens
    BY <1>13 DEF Goto
  <2>2. begin \in 1 .. Len(text')
    BY <1>4, <1>9
  <2>3. text[begin] \notin Digits \cup {"-"}
    BY <1>6 DEF Literals, Digits
  <2>4. ~BeginsNumber(SubSeq(text', begin, Len(text')))
    BY <1>4, <1>11, <2>2, <2>3, LastPart, NoNumberBegins
  <2>5. QED
    BY <1>3, <1>10, <2>1, <2>2, <2>4, StopsInToken
<1>14. CASE c = Head(expected) /\ Len(expected) = 1 /\ Emit("literal", begin, Here)
  <2>1. /\ tokens' = Append(tokens, [type |-> "literal", from |-> begin, to |-> Here])
        /\ scan_pc' = "blank" /\ begin' = begin
    BY <1>14 DEF Emit
  <2>2. k = 2 /\ Here = begin + 3 /\ Len(text') = begin + 3
    <3>1. 3 - k = 1
      BY <1>8, <1>14
    <3>2. k = 2
      BY <1>8, <3>1
    <3>3. QED
      BY <1>3, <1>4, <1>9, <3>2
  <2>3. SubSeq(text', begin + 1, Len(text')) = L
    <3>1. begin \in Nat /\ Len(text') = begin + Len(L)
      BY <1>6, <1>9, <2>2
    <3>2. k + 1 = Len(L)
      BY <1>6, <2>2
    <3>3. \A i \in 1 .. Len(L) : text'[begin + i] = L[i]
      BY <1>7, <1>12, <1>14, <3>2
    <3>4. QED
      BY <1>4, <1>6, <3>1, <3>3, PartEqual
  <2>4. JsonToken("literal", SubSeq(text', begin, Here))
    <3> DEFINE s == SubSeq(text', begin, Len(text'))
    <3>1. begin \in 1 .. Len(text') /\ Len(text') \in begin .. Len(text')
      BY <1>9, <2>2
    <3>2. Head(s) = text'[begin] /\ Tail(s) = SubSeq(text', begin + 1, Len(text'))
      BY <1>4, <3>1, HeadTailOfSubSeq
    <3> HIDE DEF s
    <3>3. Tail(s) = Literals[Head(s)]
      BY <1>11, <2>3, <3>2 DEF L
    <3>4. QED
      BY <2>2, <3>3, LiteralToken DEF s
  <2>5. Scanned(text', tokens', Here) /\ Within(tokens', begin)
    <3>1. Here \in Nat /\ begin <= Here
      BY <1>9, <2>2
    <3>2. QED
      BY <1>9, <1>10, <2>1, <2>4, <3>1, ScannedToken
  <2>6. BetweenTokens'
    BY <1>3, <1>9, <2>1, <2>5 DEF BetweenTokens
  <2>7. QED
    BY <1>3, <2>1, <2>6, GoesOnBlank
<1>15. CASE /\ c = Head(expected) /\ Len(expected) # 1 /\ expected' = Tail(expected)
            /\ UNCHANGED <<scan_pc, begin, number_type, tokens>>
  <2>1. /\ k + 1 \in 0 .. Len(L) - 1 /\ Len(text') = begin + (k + 1)
        /\ k + 1 + 1 = k + 2
    BY <1>4, <1>6, <1>8, <1>9, <1>15
  <2>2. LiteralRead(text', begin, expected')
    BY <1>6, <1>7, <1>11, <1>12, <1>15, <2>1 DEF LiteralRead, L
  <2>3. TokenBegun'
    BY <1>4, <1>9, <1>10, <1>15 DEF TokenBegun
  <2>4. QED
    BY <1>1, <1>3, <1>15, <2>2, <2>3 DEF LexerInvariant, NumberStates
<1>16. QED
  BY <1>1, <1>13, <1>14, <1>15

LEMMA BeginNumberKeeps ==
  ASSUME LexerInvariant, NEW c \in Alphabet, BeginNumber(c)
  PROVE  LexerInvariant'
<1>1. /\ scan_pc = "blank" /\ c \in Digits \cup {"-"} /\ Get(c) /\ Consumed
      /\ begin' = Here /\ tokens' = tokens
      /\ number_type' = IF c = "-" THEN "integer" ELSE "unsigned"
  BY DEF BeginNumber
<1>2. scan_pc' = IF c = "-" THEN "minus" ELSE IF c = "0" THEN "zero" ELSE "any1"
  BY Zenon DEF BeginNumber
<1>3. TextTyped /\ BetweenTokens /\ Pos \in Nat
  BY <1>1, CharacterRead DEF LexerInvariant
<1>4. TextTyped' /\ Here = Pos + 1
  BY <1>1, <1>3, Consumes
<1>5. Scanned(text', tokens, Pos)
  BY <1>1, <1>3, StaysScanned DEF BetweenTokens
<1>6. Len(text') = Pos + 1 /\ text'[Pos + 1] = c /\ text' \in Seq(Alphabet)
  BY <1>1, <1>3, CharacterRead
<1>7. TokenBegun'
  <2>1. begin' \in 1 .. Len(text') /\ begin' - 1 = Pos
    BY <1>1, <1>3, <1>4, <1>6
  <2>2. QED
    BY <1>1, <1>5, <2>1 DEF TokenBegun
<1>8. NumberState(scan_pc', SubSeq(text', begin', Len(text')))
  <2>1. Pos + 1 \in 1 .. Len(text')
    BY <1>3, <1>6
  <2>2. SubSeq(text', Pos + 1, Pos + 1) = <<c>>
    BY <1>6, <2>1, OneCharacter
  <2>3. NumberState(scan_pc', <<c>>)
    BY <1>1, <1>2, NumberStarts
  <2>4. QED
    BY <1>1, <1>4, <1>6, <2>2, <2>3
<1>9. /\ scan_pc' \in {"minus", "zero", "any1"}
      /\ number_type' = IF text'[begin'] = "-" THEN "integer" ELSE "unsigned"
  BY <1>1, <1>2, <1>4, <1>6
<1>10. InNumber'
  BY <1>7, <1>8, <1>9 DEF InNumber
<1>11. QED
  BY <1>4, <1>9, <1>10 DEF LexerInvariant, NumberStates

\* The kinds of number that a transition leads to.
LEMMA KindsOfNumber ==
  ASSUME NEW st \in NumberStates, NEW c, Transition(st, c) \notin {"done", "error"}
  PROVE  /\ Transition(st, c) \in NumberStates
         /\ \/ Transition(st, c) \in {"decimal1", "exponent"}
            \/ st \in {"minus", "zero", "any1"}
                 <=> Transition(st, c) \in {"minus", "zero", "any1"}
<1>1. CASE st \in {"minus", "zero", "any1"}
  BY <1>1, Transitions DEF NumberStates
<1>2. CASE st \notin {"minus", "zero", "any1"}
  BY <1>2, Transitions DEF NumberStates
<1>3. QED
  BY <1>1, <1>2

\* A number that goes on or ends at the next character.
LEMMA NumberGoesOn ==
  ASSUME LexerInvariant, NEW c \in Alphabet, Get(c), scan_pc \in NumberStates
  PROVE  /\ InNumber /\ TextTyped /\ text' \in Seq(Alphabet)
         /\ Len(text') = Len(text) + 1 /\ Pos = Len(text) /\ text'[Len(text')] = c
         /\ text'[begin] = text[begin]
         /\ begin \in 1 .. Len(text) /\ begin \in 1 .. Len(text')
         /\ SubSeq(text, begin, Len(text)) \in Seq(Alphabet)
         /\ SubSeq(text, begin, Len(text)) # <<>>
         /\ SubSeq(text, begin, Len(text))[1] = text[begin]
         /\ SubSeq(text', begin, Len(text)) = SubSeq(text, begin, Len(text))
         /\ SubSeq(text', begin, Len(text')) = Append(SubSeq(text, begin, Len(text)), c)
         /\ Scanned(text', tokens, begin - 1)
<1>1. TextTyped /\ InNumber /\ scan_pc # "blank"
  BY DEF LexerInvariant, NumberStates
<1>2. /\ Pos = Len(text) /\ Pos \in Nat /\ Len(text') = Pos + 1 /\ text'[Pos + 1] = c
      /\ text' \in Seq(Alphabet) /\ \A i \in 1 .. Pos : text'[i] = text[i]
  BY <1>1, CharacterRead
<1>3. text \in Seq(Alphabet) /\ begin \in 1 .. Len(text)
  BY <1>1 DEF TextTyped, InNumber, TokenBegun
<1>4. /\ begin \in 1 .. Len(text') /\ begin \in 1 .. Len(text) + 1 /\ begin - 1 \in Nat
      /\ begin - 1 <= Pos /\ Len(text') = Len(text) + 1 /\ text'[begin] = text[begin]
      /\ \A i \in 1 .. Len(text) : text'[i] = text[i]
  BY <1>2, <1>3
<1>5. Scanned(text', tokens, begin - 1)
  BY <1>1, <1>4, StaysScanned DEF InNumber, TokenBegun
<1>6. /\ SubSeq(text, begin, Len(text)) \in Seq(Alphabet)
      /\ SubSeq(text, begin, Len(text)) # <<>>
      /\ SubSeq(text, begin, Len(text))[1] = text[begin]
  BY <1>3, LastPart
<1>7. /\ SubSeq(text', begin, Len(text')) = Append(SubSeq(text, begin, Len(text)), text'[Len(text')])
      /\ SubSeq(text', begin, Len(text)) = SubSeq(text, begin, Len(text))
  BY <1>2, <1>3, <1>4, LongerPart
<1>8. text'[Len(text')] = c
  BY <1>2
<1>9. QED
  BY <1>1, <1>2, <1>3, <1>4, <1>5, <1>6, <1>7, <1>8

LEMMA ContinueNumberKeeps ==
  ASSUME LexerInvariant, scan_pc \in NumberStates, NEW c \in Alphabet, ContinueNumber(c)
  PROVE  LexerInvariant'
<1>1. /\ Transition(scan_pc, c) \notin {"done", "error"} /\ Get(c) /\ Consumed
      /\ scan_pc' = Transition(scan_pc, c)
      /\ number_type' = IF scan_pc' \in {"decimal1", "exponent"} THEN "float"
                        ELSE number_type
      /\ begin' = begin /\ tokens' = tokens
  BY DEF ContinueNumber
<1>2. InNumber /\ TextTyped /\ text'[begin] = text[begin]
  BY <1>1, NumberGoesOn
<1>3. TextTyped'
  BY <1>1, <1>2, Consumes
<1>4. TokenBegun'
  BY <1>1, NumberGoesOn DEF TokenBegun
<1>5. NumberState(scan_pc', SubSeq(text', begin', Len(text')))
  <2> DEFINE s == SubSeq(text, begin, Len(text))
  <2>1. /\ s \in Seq(Alphabet) /\ s # <<>> /\ NumberState(scan_pc, s)
        /\ SubSeq(text', begin, Len(text')) = Append(s, c)
    BY <1>1, <1>2, NumberGoesOn DEF InNumber
  <2> HIDE DEF s
  <2>2. NumberState(Transition(scan_pc, c), Append(s, c))
    BY <1>1, <2>1, NumberStep
  <2>3. QED
    BY <1>1, <2>1, <2>2
<1>6. /\ scan_pc' \in NumberStates
      /\ \/ scan_pc' \in {"decimal1", "exponent"}
         \/ scan_pc \in {"minus", "zero", "any1"} <=> scan_pc' \in {"minus", "zero", "any1"}
  BY <1>1, KindsOfNumber
<1>7. number_type' = IF scan_pc' \notin {"minus", "zero", "any1"} THEN "float"
                     ELSE IF text'[begin'] = "-" THEN "integer" ELSE "unsigned"
  BY <1>1, <1>2, <1>6 DEF InNumber
<1>8. InNumber'
  BY <1>4, <1>5, <1>7 DEF InNumber
<1>9. QED
  BY <1>3, <1>6, <1>8 DEF LexerInvariant, NumberStates

LEMMA NumberErrorKeeps ==
  ASSUME LexerInvariant, scan_pc \in NumberStates, NEW c \in Alphabet, NumberError(c)
  PROVE  LexerInvariant'
<1>1. /\ Transition(scan_pc, c) = "error" /\ Get(c) /\ Consumed /\ scan_pc' = "error"
      /\ begin' = begin /\ tokens' = tokens
  BY DEF NumberError, Goto
<1>2. InNumber /\ TextTyped
  BY <1>1, NumberGoesOn
<1>3. TextTyped'
  BY <1>1, <1>2, Consumes
<1> DEFINE s == SubSeq(text, begin, Len(text))
           x == SubSeq(text', begin, Len(text'))
<1>4. /\ s \in Seq(Alphabet) /\ s # <<>> /\ NumberState(scan_pc, s) /\ x = Append(s, c)
      /\ begin \in 1 .. Len(text') /\ Scanned(text', tokens, begin - 1)
  BY <1>1, <1>2, NumberGoesOn DEF InNumber
<1> HIDE DEF s, x
<1>5. /\ x \in Seq(Alphabet) /\ Len(x) = Len(s) + 1 /\ x[Len(s) + 1] = c
      /\ Len(s) \in Nat /\ \A k \in 1 .. Len(s) : x[k] = s[k]
  BY <1>4, AppendProperties, LenProperties
<1>6. ~IsNumber(x)
  <2>1. Len(x) >= Len(s) + 1
    BY <1>5
  <2>2. QED
    BY <1>1, <1>4, <1>5, <2>1, NumberFails
<1>7. ~IsNumber(Append(x, "1"))
  <2> DEFINE y == Append(x, "1")
  <2>1. y \in Seq(Alphabet) /\ Len(y) = Len(x) + 1 /\ \A k \in 1 .. Len(x) : y[k] = x[k]
    BY <1>5, OneMore
  <2> HIDE DEF y
  <2>2. Len(y) >= Len(s) + 1 /\ y[Len(s) + 1] = c /\ \A k \in 1 .. Len(s) : y[k] = s[k]
    BY <1>5, <2>1
  <2>3. ~IsNumber(y)
    BY <1>1, <1>4, <2>1, <2>2, NumberFails
  <2>4. QED
    BY <2>3 DEF y
<1>8. ~BeginsNumber(SubSeq(text', begin', Len(text')))
  BY <1>1, <1>6, <1>7 DEF BeginsNumber, x
<1>9. QED
  BY <1>1, <1>3, <1>4, <1>8, StopsInToken

LEMMA EndNumberKeeps ==
  ASSUME LexerInvariant, scan_pc \in NumberStates, NEW c \in Alphabet, EndNumber(c)
  PROVE  LexerInvariant'
<1> DEFINE s == SubSeq(text, begin, Len(text))
<1>1. /\ Transition(scan_pc, c) = "done" /\ Get(c) /\ next_unget' = TRUE
      /\ tokens' = Append(tokens, [type |-> Converted(SubSeq(text', begin, Here - 1)),
                                   from |-> begin, to |-> Here - 1])
      /\ scan_pc' = "blank" /\ begin' = begin
  BY DEF EndNumber, Emit, PutBack
<1>2. InNumber /\ TextTyped
  BY <1>1, NumberGoesOn
<1>3. /\ s \in Seq(Alphabet) /\ s # <<>> /\ NumberState(scan_pc, s) /\ s[1] = text[begin]
      /\ SubSeq(text', begin, Len(text)) = s /\ text' \in Seq(Alphabet)
      /\ begin \in 1 .. Len(text) /\ Len(text') = Len(text) + 1
      /\ Scanned(text', tokens, begin - 1)
  BY <1>1, <1>2, NumberGoesOn DEF InNumber
<1>4. /\ Len(text) \in Nat /\ Here - 1 = Len(text) /\ text' # <<>>
      /\ begin \in Nat \ {0} /\ begin <= Len(text) /\ Len(text') - 1 = Len(text)
  <2>1. Len(text) \in Nat
    BY <1>2, LenProperties DEF TextTyped
  <2>2. Len(text') # 0
    BY <1>3, <2>1
  <2>3. QED
    BY <1>3, <2>1, <2>2, EmptySeq DEF Here
<1> HIDE DEF s
<1>5. scan_pc \in Complete
  BY <1>1, Transitions DEF NumberStates, Complete
<1>6. IsNumber(s) /\ (IsInt(Unsigned(s)) <=> scan_pc \in {"zero", "any1"})
  BY <1>3, <1>5, NumberEnds
<1>7. number_type = IF ~IsInt(Unsigned(s)) THEN "float"
                    ELSE IF s[1] = "-" THEN "integer" ELSE "unsigned"
  BY <1>2, <1>3, <1>5, <1>6 DEF InNumber, Complete
<1>8. JsonToken(Converted(s), s)
  <2>1. Converted(s) = IF ~IsInt(Unsigned(s)) \/ ~InRange(s) THEN "float"
                       ELSE IF s[1] = "-" THEN "integer" ELSE "unsigned"
    BY <1>7 DEF Converted
  <2>2. QED
    BY <1>6, <2>1, NumberToken
<1>9. /\ tokens' = Append(tokens, [type |-> Converted(s), from |-> begin, to |-> Len(text)])
      /\ JsonToken(Converted(s), SubSeq(text', begin, Len(text)))
  BY <1>1, <1>3, <1>4, <1>8
<1>10. Scanned(text', tokens', Len(text)) /\ Within(tokens', begin)
  BY <1>3, <1>4, <1>9, ScannedToken
<1>11. TextTyped' /\ Pos' = Len(text)
  BY <1>1, <1>3, <1>4 DEF TextTyped, Pos
<1>12. BetweenTokens'
  BY <1>1, <1>4, <1>10, <1>11 DEF BetweenTokens
<1>13. QED
  BY <1>1, <1>11, <1>12, GoesOnBlank

\* A step inside a string reads no character of the text.
LEMMA NothingRead ==
  ASSUME LexerInvariant, UNCHANGED scanVars
  PROVE  LexerInvariant'
BY DEF scanVars, LexerInvariant, TextTyped, NoTokenYet, BetweenTokens, TokenBegun,
       InNumber, Stopped, RejectsOnlyGarbage, InToken, TokenText, Pos

LEMMA EndStringKeeps ==
  ASSUME LexerInvariant, EndString
  PROVE  LexerInvariant'
<1>1. /\ scan_pc = "string" /\ text' = text /\ next_unget' = next_unget
      /\ Emit(Last(text), 1, 1) \/ Goto("error")
  BY DEF EndString
<1>2. /\ TextTyped /\ ~next_unget /\ Len(text) = 1 /\ text[1] \in String
      /\ tokens = <<>> /\ begin = 0
  BY <1>1 DEF LexerInvariant, TextTyped, NoTokenYet
<1>3. TextTyped' /\ Pos' = 1
  BY <1>1, <1>2 DEF TextTyped, Pos
<1>4. CASE Emit(Last(text), 1, 1)
  <2>1. /\ tokens' = Append(<<>>, [type |-> text[1], from |-> 1, to |-> 1])
        /\ scan_pc' = "blank" /\ begin' = 0
    BY <1>2, <1>4 DEF Emit, Last
  <2>2. SubSeq(text', 1, 1) = <<text[1]>>
    BY <1>1, <1>2, OneCharacter DEF TextTyped
  <2>3. JsonToken(text[1], SubSeq(text', 1, 1))
    BY <1>2, <2>2, CharacterToken
  <2>4. Scanned(text', tokens', 1)
    <3>1. Scanned(text', <<>>, 1 - 1) /\ 1 \in Nat \ {0} /\ 1 \in Nat /\ 1 <= 1
      BY NothingScanned
    <3>2. QED
      BY <2>1, <2>3, <3>1, ScannedToken
  <2>5. BetweenTokens'
    BY <1>3, <2>1, <2>4 DEF BetweenTokens
  <2>6. QED
    BY <1>3, <2>1, <2>5, GoesOnBlank
<1>5. CASE Goto("error")
  <2>1. scan_pc' = "error" /\ begin' = 0 /\ tokens' = <<>>
    BY <1>2, <1>5 DEF Goto
  <2>2. Scanned(text', tokens', 0) /\ 0 \in 0 .. Len(text')
    BY <1>1, <1>2, <2>1, NothingScanned
  <2>3. RejectsOnlyGarbage'
    BY <2>1 DEF RejectsOnlyGarbage
  <2>4. Stopped'
    BY <2>2, <2>3 DEF Stopped
  <2>5. QED
    BY <1>3, <2>1, <2>4, GoesOnError
<1>6. QED
  BY <1>1, <1>4, <1>5

LEMMA LexerInitially ==
  ASSUME LexerInit
  PROVE  LexerInvariant
<1>1. text = <<>> /\ next_unget = FALSE /\ scan_pc = "bom" /\ begin = 0 /\ tokens = <<>>
  BY DEF LexerInit
<1>2. TextTyped
  BY <1>1, EmptySeq DEF TextTyped
<1>3. QED
  BY <1>1, <1>2 DEF LexerInvariant, NumberStates, NoTokenYet

LEMMA LexerStep ==
  ASSUME LexerInvariant, [LexerNext]_lexerVars
  PROVE  LexerInvariant'
<1>1. ASSUME NEW c \in Alphabet,
             \/ SkipBom(c) \/ FinishBom(c) \/ SkipBlank(c) \/ ScanCharacter(c)
             \/ ScanEnd(c) \/ ScanGarbage(c) \/ BeginLiteral(c) \/ ScanLiteral(c)
             \/ BeginNumber(c)
      PROVE  LexerInvariant'
  BY <1>1, SkipBomKeeps, FinishBomKeeps, SkipBlankKeeps, ScanCharacterKeeps,
     ScanEndKeeps, ScanGarbageKeeps, BeginLiteralKeeps, ScanLiteralKeeps,
     BeginNumberKeeps
<1>2. ASSUME NEW c \in Alphabet, ScanNumber(c) PROVE LexerInvariant'
  <2>1. /\ scan_pc \in NumberStates
        /\ ContinueNumber(c) \/ NumberError(c) \/ EndNumber(c)
    BY <1>2 DEF ScanNumber, NumberStates
  <2>2. QED
    BY <2>1, ContinueNumberKeeps, NumberErrorKeeps, EndNumberKeeps
<1>3. CASE ScanString
  BY <1>3, NothingRead DEF ScanString
<1>4. CASE EndString
  BY <1>4, EndStringKeeps
<1>5. CASE EndOfText \/ UNCHANGED lexerVars
  BY <1>5, NothingRead DEF EndOfText, lexerVars
<1>6. QED
  BY <1>1, <1>2, <1>3, <1>4, <1>5 DEF LexerNext, Alphabet

\* LexerInvariant holds throughout a scan: the tokens so far stand in order and
\* account for every character before the current token, and scan_pc says what
\* has been read of that token (the automaton of scan_number and the loop of
\* scan_literal, json.hpp).
THEOREM LexerInvariantHolds == LexerSpec => []LexerInvariant
BY LexerInitially, LexerStep, PTL DEF LexerSpec

LEMMA TextScanned ==
  ASSUME LexerInvariant
  PROVE  \E n \in Int : Scanned(text, tokens, n)
<1>0. Len(text) \in Nat /\ Pos \in Int
  BY LenProperties DEF LexerInvariant, TextTyped, Pos
<1>1. CASE scan_pc \in {"bom", "bom2", "bom3", "string"}
  BY <1>1, NothingScanned DEF LexerInvariant, NoTokenYet
<1>2. CASE scan_pc = "blank"
  BY <1>0, <1>2 DEF LexerInvariant, BetweenTokens
<1>3. CASE scan_pc \in NumberStates \cup {"literal"}
  <2>1. TokenBegun
    BY <1>3 DEF LexerInvariant, InNumber
  <2>2. QED
    BY <1>0, <2>1 DEF TokenBegun
<1>4. CASE scan_pc = "end"
  BY <1>0, <1>4 DEF LexerInvariant
<1>5. CASE scan_pc = "error"
  BY <1>0, <1>5 DEF LexerInvariant, Stopped
<1>6. QED
  BY <1>1, <1>2, <1>3, <1>4, <1>5 DEF LexerInvariant

\* At the end of a text every character has been looked at once: it is in exactly
\* one token, or blank, or of the byte order mark; the character that ends a
\* number is put back and not lost (get, unget and scan of the lexer).
THEOREM EveryCharacterCountsHolds == LexerSpec => []EveryCharacterCounts
<1>1. LexerInvariant => EveryCharacterCounts
  <2>1. SUFFICES ASSUME LexerInvariant, scan_pc = "end"
                 PROVE  EveryCharacterCounts
    BY DEF EveryCharacterCounts
  <2>2. Scanned(text, tokens, Len(text) - 1)
    BY <2>1 DEF LexerInvariant
  <2>3. \A k \in 2 .. Len(tokens) : tokens[k - 1].to < tokens[k].from
    BY <2>2 DEF Scanned
  <2>4. ASSUME NEW i \in 1 .. Len(text) - 1
        PROVE  \/ InToken(i)
               \/ text[i] \in Blank
               \/ i <= 3 /\ text[i] = <<"EF", "BB", "BF">>[i]
    BY <2>2 DEF Scanned, Counted, Within, InToken
  <2>5. QED
    BY <2>3, <2>4 DEF EveryCharacterCounts
<1>2. QED
  BY <1>1, LexerInvariantHolds, PTL

\* Each token that scan returns is one of the grammar of RFC 8259 with the type
\* that its characters and their range call for, and a text is rejected inside a
\* token only where no number can go on (scan_number and scan_literal).
THEOREM ScansExactlyJsonHolds == LexerSpec => []ScansExactlyJson
<1>1. LexerInvariant => ScansExactlyJson
  <2>1. SUFFICES ASSUME LexerInvariant PROVE ScansExactlyJson
    OBVIOUS
  <2>2. PICK n \in Int : Scanned(text, tokens, n)
    BY <2>1, TextScanned
  <2>3. ASSUME NEW k \in DOMAIN tokens
        PROVE  JsonToken(tokens[k].type, TokenText(tokens[k]))
    <3>1. k \in 1 .. Len(tokens)
      BY <2>2, LenProperties DEF Scanned
    <3>2. QED
      BY <2>2, <3>1 DEF Scanned, TokenText
  <2>4. TokensAreJson
    BY <2>3, Zenon DEF TokensAreJson, JsonToken
  <2>5. RejectsOnlyGarbage
    <3>1. CASE scan_pc = "error"
      BY <2>1, <3>1 DEF LexerInvariant, Stopped
    <3>2. CASE scan_pc # "error"
      BY <3>2 DEF RejectsOnlyGarbage
    <3>3. QED
      BY <3>1, <3>2
  <2>6. QED
    BY <2>4, <2>5 DEF ScansExactlyJson
<1>2. QED
  BY <1>1, LexerInvariantHolds, PTL

-----------------------------------------------------------------------------
(***************************************************************************)
(* The bytes of a string.  UTF-8 by its bits, by its ranges, and as it is  *)
(* written.                                                                *)
(***************************************************************************)

\* The values of a byte: all of them, those of ASCII, those that begin a longer
\* sequence, and those that go on with one.
Byte == 0 .. 255
Ascii == 0 .. 127
Leading == 194 .. 244
Further == 128 .. 191

\* The elements of a sequence of bytes.
LEMMA BytesTyped ==
  ASSUME NEW b \in Seq(Byte)
  PROVE  /\ DOMAIN b = 1 .. Len(b) /\ Len(b) \in Nat
         /\ \A i \in 1 .. Len(b) : b[i] \in Byte
         /\ \A i \in DOMAIN b : b[i] # EOF
<1>1. DOMAIN b = 1 .. Len(b) /\ Len(b) \in Nat /\ \A i \in 1 .. Len(b) : b[i] \in Byte
  BY ElementOfSeq, LenProperties
<1>2. EOF \notin Byte
  BY JsonStringAssumption DEF Byte
<1>3. QED
  BY <1>1, <1>2

\* The first bits of a byte, and what remains of it.
LEMMA Bits ==
  ASSUME NEW q \in Byte
  PROVE  /\ q \div 128 = 0 <=> q \in Ascii
         /\ q \div 64 = 2 <=> q \in Further
         /\ q \div 32 = 6 <=> q \in 192 .. 223
         /\ q \div 16 = 14 <=> q \in 224 .. 239
         /\ q \div 8 = 30 <=> q \in 240 .. 247
         /\ q \in Ascii => q % 128 = q
         /\ q \in Further => q % 64 = q - 128
         /\ q \in 192 .. 223 => q % 32 = q - 192
         /\ q \in 224 .. 239 => q % 16 = q - 224
         /\ q \in 240 .. 247 => q % 8 = q - 240
BY SMT DEF Byte, Ascii, Further

\* The sequences of each length.
Shape1(p) == p \in Ascii

Shape2(p, q) == p \in 194 .. 223 /\ q \in Further

Shape3(p, q, r) ==
  /\ p \in 224 .. 239 /\ q \in Further /\ r \in Further
  /\ p = 224 => q >= 160
  /\ p = 237 => q <= 159

Shape4(p, q, r, t) ==
  /\ p \in 240 .. 244 /\ q \in Further /\ r \in Further /\ t \in Further
  /\ p = 240 => q >= 144
  /\ p = 244 => q <= 143

\* The right first bits, and the shortest sequence for the scalar value v.
Marked1(p, v) ==
  /\ p \div 128 = 0
  /\ IsScalarValue(v) /\ v >= 0

Marked2(p, q, v) ==
  /\ p \div 32 = 6 /\ q \div 64 = 2
  /\ IsScalarValue(v) /\ v >= 128

Marked3(p, q, r, v) ==
  /\ p \div 16 = 14 /\ q \div 64 = 2 /\ r \div 64 = 2
  /\ IsScalarValue(v) /\ v >= 2048

Marked4(p, q, r, t, v) ==
  /\ p \div 8 = 30 /\ q \div 64 = 2 /\ r \div 64 = 2 /\ t \div 64 = 2
  /\ IsScalarValue(v) /\ v >= 65536

\* The bits that remain.
Rest1(p) == p % 128
Rest2(p, q) == 64 * (p % 32) + (q % 64)
Rest3(p, q, r) == 4096 * (p % 16) + 64 * (q % 64) + (r % 64)
Rest4(p, q, r, t) == 4096 * (64 * (p % 8) + (q % 64)) + 64 * (r % 64) + (t % 64)

\* The same, of a sequence of the right shape.
Value1(p) == p
Value2(p, q) == 64 * (p - 192) + (q - 128)
Value3(p, q, r) == 4096 * (p - 224) + 64 * (q - 128) + (r - 128)
Value4(p, q, r, t) == 4096 * (64 * (p - 240) + (q - 128)) + 64 * (r - 128) + (t - 128)

\* The sequences of the shapes are those with the right bits.
LEMMA Shape1Exact ==
  ASSUME NEW p \in Byte
  PROVE  /\ Marked1(p, Rest1(p)) <=> Shape1(p)
         /\ Shape1(p) => Rest1(p) = Value1(p)
<1>1. p \div 128 = 0 <=> p \in Ascii
  BY Bits
<1>3. ASSUME p \in Ascii,
             NEW v, v = Rest1(p)
      PROVE  /\ v = Value1(p)
             /\ IsScalarValue(v) /\ v >= 0 <=> TRUE
  <2>1. p % 128 = p
    BY <1>3, Bits
  <2>2. v = Value1(p)
    BY SMT, <1>3, <2>1 DEF Rest1, Value1
  <2>3. QED
    BY SMT, <1>3, <2>2 DEF Value1, IsScalarValue, IsHigh, IsLow, Byte
<1>4. PICK v : v = Rest1(p)
  OBVIOUS
<1>5. Marked1(p, v) <=> Shape1(p)
  BY SMT, <1>1, <1>3, <1>4 DEF Marked1, Shape1
<1>6. Shape1(p) => v = Value1(p)
  BY SMT, <1>3, <1>4 DEF Shape1
<1>7. QED
  BY <1>4, <1>5, <1>6

LEMMA Shape2Exact ==
  ASSUME NEW p \in Byte, NEW q \in Byte
  PROVE  /\ Marked2(p, q, Rest2(p, q)) <=> Shape2(p, q)
         /\ Shape2(p, q) => Rest2(p, q) = Value2(p, q)
<1>1. p \div 32 = 6 <=> p \in 192 .. 223
  BY Bits
<1>2. /\ q \div 64 = 2 <=> q \in Further
  BY Bits
<1>3. ASSUME p \in 192 .. 223, q \in Further,
             NEW v, v = Rest2(p, q)
      PROVE  /\ v = Value2(p, q)
             /\ IsScalarValue(v) /\ v >= 128 <=> p >= 194
  <2>1. p % 32 = p - 192 /\ q % 64 = q - 128
    BY <1>3, Bits
  <2>2. v = Value2(p, q)
    BY SMT, <1>3, <2>1 DEF Rest2, Value2
  <2>3. QED
    BY SMT, <1>3, <2>2 DEF Value2, IsScalarValue, IsHigh, IsLow, Byte, Further
<1>4. PICK v : v = Rest2(p, q)
  OBVIOUS
<1>5. Marked2(p, q, v) <=> Shape2(p, q)
  BY SMT, <1>1, <1>2, <1>3, <1>4 DEF Marked2, Shape2
<1>6. Shape2(p, q) => v = Value2(p, q)
  BY SMT, <1>3, <1>4 DEF Shape2
<1>7. QED
  BY <1>4, <1>5, <1>6

LEMMA Shape3Exact ==
  ASSUME NEW p \in Byte, NEW q \in Byte, NEW r \in Byte
  PROVE  /\ Marked3(p, q, r, Rest3(p, q, r)) <=> Shape3(p, q, r)
         /\ Shape3(p, q, r) => Rest3(p, q, r) = Value3(p, q, r)
<1>1. p \div 16 = 14 <=> p \in 224 .. 239
  BY Bits
<1>2. /\ q \div 64 = 2 <=> q \in Further
      /\ r \div 64 = 2 <=> r \in Further
  BY Bits
<1>3. ASSUME p \in 224 .. 239, q \in Further, r \in Further,
             NEW v, v = Rest3(p, q, r)
      PROVE  /\ v = Value3(p, q, r)
             /\ IsScalarValue(v) /\ v >= 2048 <=>
                  (p = 224 => q >= 160) /\ (p = 237 => q <= 159)
  <2>1. p % 16 = p - 224 /\ q % 64 = q - 128 /\ r % 64 = r - 128
    BY <1>3, Bits
  <2>2. v = Value3(p, q, r)
    BY SMT, <1>3, <2>1 DEF Rest3, Value3
  <2>3. QED
    BY SMT, <1>3, <2>2 DEF Value3, IsScalarValue, IsHigh, IsLow, Byte, Further
<1>4. PICK v : v = Rest3(p, q, r)
  OBVIOUS
<1>5. Marked3(p, q, r, v) <=> Shape3(p, q, r)
  BY SMT, <1>1, <1>2, <1>3, <1>4 DEF Marked3, Shape3
<1>6. Shape3(p, q, r) => v = Value3(p, q, r)
  BY SMT, <1>3, <1>4 DEF Shape3
<1>7. QED
  BY <1>4, <1>5, <1>6

LEMMA Shape4Exact ==
  ASSUME NEW p \in Byte, NEW q \in Byte, NEW r \in Byte, NEW t \in Byte
  PROVE  /\ Marked4(p, q, r, t, Rest4(p, q, r, t)) <=> Shape4(p, q, r, t)
         /\ Shape4(p, q, r, t) => Rest4(p, q, r, t) = Value4(p, q, r, t)
<1>1. p \div 8 = 30 <=> p \in 240 .. 247
  BY Bits DEF Byte
<1>2. /\ q \div 64 = 2 <=> q \in Further
      /\ r \div 64 = 2 <=> r \in Further
      /\ t \div 64 = 2 <=> t \in Further
  BY Bits DEF Byte
<1>3. ASSUME p \in 240 .. 247, q \in Further, r \in Further, t \in Further,
             NEW v, v = Rest4(p, q, r, t)
      PROVE  /\ v = Value4(p, q, r, t)
             /\ IsScalarValue(v) /\ v >= 65536 <=>
                  p <= 244 /\ (p = 240 => q >= 144) /\ (p = 244 => q <= 143)
  <2>1. p % 8 = p - 240 /\ q % 64 = q - 128 /\ r % 64 = r - 128 /\ t % 64 = t - 128
    BY <1>3, Bits DEF Byte
  <2>2. v = Value4(p, q, r, t)
    BY SMT, <1>3, <2>1 DEF Rest4, Value4
  <2>3. QED
    BY SMT, <1>3, <2>2 DEF Value4, IsScalarValue, IsHigh, IsLow, Byte, Further
<1>4. PICK v : v = Rest4(p, q, r, t)
  OBVIOUS
<1>5. Marked4(p, q, r, t, v) <=> Shape4(p, q, r, t)
  BY SMT, <1>1, <1>2, <1>3, <1>4 DEF Marked4, Shape4
<1>6. Shape4(p, q, r, t) => v = Value4(p, q, r, t)
  BY SMT, <1>3, <1>4 DEF Shape4
<1>7. QED
  BY <1>4, <1>5, <1>6

\* Of the sequences of each length, these are well-formed.
LEMMA OneByte ==
  ASSUME NEW b \in Seq(Byte), Len(b) = 1
  PROVE  /\ WellFormedUtf8(b) <=> Shape1(b[1])
         /\ Shape1(b[1]) => Decoded(b) = Value1(b[1])
<1>1. 1 \in 1 .. Len(b)
  BY SMT
<1>2. b[1] \in Byte
  BY <1>1, BytesTyped
<1>3. \A i \in DOMAIN b : b[i] # EOF
  BY BytesTyped
<1>4. Decoded(b) = Rest1(b[1])
  BY SMT DEF Decoded, Rest1
<1>5. WellFormedUtf8(b) <=> Marked1(b[1], Decoded(b))
  BY SMT, <1>3 DEF WellFormedUtf8, IsContinuation, Marked1
<1>6. QED
  BY <1>2, <1>4, <1>5, Shape1Exact

LEMMA TwoBytes ==
  ASSUME NEW b \in Seq(Byte), Len(b) = 2
  PROVE  /\ WellFormedUtf8(b) <=> Shape2(b[1], b[2])
         /\ Shape2(b[1], b[2]) => Decoded(b) = Value2(b[1], b[2])
<1>1. 1 \in 1 .. Len(b) /\ 2 \in 1 .. Len(b)
  BY SMT
<1>2. b[1] \in Byte /\ b[2] \in Byte
  BY <1>1, BytesTyped
<1>3. \A i \in DOMAIN b : b[i] # EOF
  BY BytesTyped
<1>4. Decoded(b) = Rest2(b[1], b[2])
  BY SMT DEF Decoded, Rest2
<1>5. WellFormedUtf8(b) <=> Marked2(b[1], b[2], Decoded(b))
  BY SMT, <1>3 DEF WellFormedUtf8, IsContinuation, Marked2
<1>6. QED
  BY <1>2, <1>4, <1>5, Shape2Exact

LEMMA ThreeBytes ==
  ASSUME NEW b \in Seq(Byte), Len(b) = 3
  PROVE  /\ WellFormedUtf8(b) <=> Shape3(b[1], b[2], b[3])
         /\ Shape3(b[1], b[2], b[3]) => Decoded(b) = Value3(b[1], b[2], b[3])
<1>1. 1 \in 1 .. Len(b) /\ 2 \in 1 .. Len(b) /\ 3 \in 1 .. Len(b)
  BY SMT
<1>2. b[1] \in Byte /\ b[2] \in Byte /\ b[3] \in Byte
  BY <1>1, BytesTyped
<1>3. \A i \in DOMAIN b : b[i] # EOF
  BY BytesTyped
<1>4. Decoded(b) = Rest3(b[1], b[2], b[3])
  BY SMT DEF Decoded, Rest3
<1>5. WellFormedUtf8(b) <=> Marked3(b[1], b[2], b[3], Decoded(b))
  BY SMT, <1>3 DEF WellFormedUtf8, IsContinuation, Marked3
<1>6. QED
  BY <1>2, <1>4, <1>5, Shape3Exact

LEMMA FourBytes ==
  ASSUME NEW b \in Seq(Byte), Len(b) = 4
  PROVE  /\ WellFormedUtf8(b) <=> Shape4(b[1], b[2], b[3], b[4])
         /\ Shape4(b[1], b[2], b[3], b[4]) => Decoded(b) = Value4(b[1], b[2], b[3], b[4])
<1>1. 1 \in 1 .. Len(b) /\ 2 \in 1 .. Len(b) /\ 3 \in 1 .. Len(b) /\ 4 \in 1 .. Len(b)
  BY SMT
<1>2. b[1] \in Byte /\ b[2] \in Byte /\ b[3] \in Byte /\ b[4] \in Byte
  BY <1>1, BytesTyped
<1>3. \A i \in DOMAIN b : b[i] # EOF
  BY BytesTyped
<1>4. Decoded(b) = Rest4(b[1], b[2], b[3], b[4])
  BY SMT DEF Decoded, Rest4
<1>5. WellFormedUtf8(b) <=> Marked4(b[1], b[2], b[3], b[4], Decoded(b))
  BY SMT, <1>3 DEF WellFormedUtf8, IsContinuation, Marked4
<1>6. b[1] \in Byte /\ b[2] \in Byte /\ b[3] \in Byte /\ b[4] \in Byte
  BY <1>2 DEF Byte
<1>7. QED
  BY <1>4, <1>5, <1>6, Shape4Exact

\* What add writes for a scalar value is its sequence.
LEMMA Utf8Exact ==
  ASSUME NEW n \in Nat, IsScalarValue(n)
  PROVE  WellFormedUtf8(Utf8(n)) /\ Decoded(Utf8(n)) = n
<1>0. n < 17 * 65536 /\ ~(55296 <= n /\ n <= 57343)
  BY SMT DEF IsScalarValue, IsHigh, IsLow
<1> DEFINE s == Utf8(n)
<1>1. CASE n < 128
  <2>1. s = <<n>>
    BY SMT, <1>1 DEF Utf8
  <2>2. s \in Seq(Byte) /\ Len(s) = 1 /\ s[1] = n
    BY SMT, <1>1, <2>1 DEF Byte
  <2> HIDE DEF s
  <2>3. Shape1(s[1])
    BY SMT, <1>1, <2>2 DEF Shape1, Byte, Ascii
  <2>4. WellFormedUtf8(s) /\ Decoded(s) = n
    BY <2>2, <2>3, OneByte DEF Value1
  <2>5. QED
    BY <2>4 DEF s
<1>2. CASE 128 <= n /\ n <= 2047
  <2>1. s = <<192 + n \div 64, 128 + (n % 64)>>
    BY SMT, <1>2 DEF Utf8
  <2>2. s \in Seq(Byte) /\ Len(s) = 2 /\ s[1] = 192 + n \div 64 /\ s[2] = 128 + (n % 64)
    BY SMT, <1>2, <2>1 DEF Byte
  <2> HIDE DEF s
  <2>3. Shape2(s[1], s[2]) /\ Value2(s[1], s[2]) = n
    BY SMT, <1>2, <2>2 DEF Shape2, Value2, Byte, Further, Leading
  <2>4. WellFormedUtf8(s) /\ Decoded(s) = n
    BY <2>2, <2>3, TwoBytes
  <2>5. QED
    BY <2>4 DEF s
<1>3. CASE 2048 <= n /\ n <= 65535
  <2>1. s = <<224 + n \div 4096, 128 + ((n \div 64) % 64), 128 + (n % 64)>>
    BY SMT, <1>3 DEF Utf8
  <2>2. /\ s \in Seq(Byte) /\ Len(s) = 3 /\ s[1] = 224 + n \div 4096
        /\ s[2] = 128 + ((n \div 64) % 64) /\ s[3] = 128 + (n % 64)
    BY SMT, <1>3, <2>1 DEF Byte
  <2> HIDE DEF s
  <2>3. /\ s[1] \in 224 .. 239 /\ s[2] \in Further /\ s[3] \in Further
        /\ Value3(s[1], s[2], s[3]) = n
    BY SMT, <1>3, <2>2 DEF Value3, Further
  <2>4. Shape3(s[1], s[2], s[3])
    <3>1. PICK p, q, r : p = s[1] /\ q = s[2] /\ r = s[3]
      OBVIOUS
    <3>2. /\ p \in 224 .. 239 /\ q \in Further /\ r \in Further
          /\ n = Value3(p, q, r)
      BY <2>3, <3>1
    <3>3. (p = 224 => q >= 160) /\ (p = 237 => q <= 159)
      BY SMT, <1>0, <1>3, <3>2 DEF Value3, Further
    <3>4. QED
      BY <3>1, <3>2, <3>3 DEF Shape3
  <2>5. WellFormedUtf8(s) /\ Decoded(s) = n
    BY <2>2, <2>3, <2>4, ThreeBytes
  <2>6. QED
    BY <2>5 DEF s
<1>4. CASE n > 65535
  <2>1. s = <<240 + (n \div 4096) \div 64, 128 + ((n \div 4096) % 64),
              128 + ((n \div 64) % 64), 128 + (n % 64)>>
    BY SMT, <1>4 DEF Utf8
  <2>2. /\ s \in Seq(Byte) /\ Len(s) = 4 /\ s[1] = 240 + (n \div 4096) \div 64
        /\ s[2] = 128 + ((n \div 4096) % 64)
        /\ s[3] = 128 + ((n \div 64) % 64) /\ s[4] = 128 + (n % 64)
    BY SMT, <1>0, <1>4, <2>1 DEF Byte
  <2> HIDE DEF s
  <2>3. /\ s[1] \in 240 .. 244 /\ s[2] \in Further
        /\ s[3] \in Further /\ s[4] \in Further
        /\ Value4(s[1], s[2], s[3], s[4]) = n
    BY SMT, <1>0, <1>4, <2>2 DEF Value4, Byte, Further
  <2>4. Shape4(s[1], s[2], s[3], s[4])
    <3>1. PICK p, q, r, t : p = s[1] /\ q = s[2] /\ r = s[3] /\ t = s[4]
      OBVIOUS
    <3>2. /\ p \in 240 .. 244 /\ q \in Further /\ r \in Further /\ t \in Further
          /\ n = Value4(p, q, r, t)
      BY <2>3, <3>1
    <3>3. (p = 240 => q >= 144) /\ (p = 244 => q <= 143)
      BY SMT, <1>0, <1>4, <3>2 DEF Value4, Further
    <3>4. QED
      BY <3>1, <3>2, <3>3 DEF Shape4
  <2>5. WellFormedUtf8(s) /\ Decoded(s) = n
    BY <2>2, <2>3, <2>4, FourBytes
  <2>6. QED
    BY <2>5 DEF s
<1>5. QED
  BY SMT, <1>1, <1>2, <1>3, <1>4

\* The first of these n ranges is lo .. hi, the others are those of any further byte.
RangesAre(rs, n, lo, hi) ==
  /\ rs \in Seq(Byte \X Byte) /\ Len(rs) = n
  /\ rs[1][1] = lo /\ rs[1][2] = hi
  /\ \A i \in 2 .. n : rs[i][1] = 128 /\ rs[i][2] = 191

\* So for one, two or three ranges that are written down.
LEMMA RangesOfEach ==
  ASSUME NEW lo \in Byte, NEW hi \in Byte
  PROVE  /\ RangesAre(<<<<lo, hi>>>>, 1, lo, hi)
         /\ RangesAre(<<<<lo, hi>>, Continuation>>, 2, lo, hi)
         /\ RangesAre(<<<<lo, hi>>, Continuation, Continuation>>, 3, lo, hi)
<1>1. PICK x, y : x = <<lo, hi>> /\ y = Continuation
  OBVIOUS
<1>2. /\ x \in Byte \X Byte /\ x[1] = lo /\ x[2] = hi
      /\ y \in Byte \X Byte /\ y[1] = 128 /\ y[2] = 191
  BY SMT, <1>1 DEF Continuation, Byte
<1> DEFINE S == Byte \X Byte
<1> HIDE DEF S
<1>3. x \in S /\ y \in S
  BY <1>2 DEF S
<1>4. RangesAre(<<x>>, 1, lo, hi)
  <2>1. <<x>> \in Seq(S) /\ Len(<<x>>) = 1 /\ <<x>>[1] = x
    BY SMT, <1>3
  <2>2. \A i \in 2 .. 1 : FALSE
    BY SMT
  <2>3. QED
    BY <1>2, <2>1, <2>2 DEF RangesAre, S
<1>5. RangesAre(<<x, y>>, 2, lo, hi)
  <2>1. <<x, y>> \in Seq(S) /\ Len(<<x, y>>) = 2 /\ <<x, y>>[1] = x /\ <<x, y>>[2] = y
    BY SMT, <1>3
  <2>2. \A i \in 2 .. 2 : i = 2
    BY SMT
  <2>3. QED
    BY <1>2, <2>1, <2>2 DEF RangesAre, S
<1>6. RangesAre(<<x, y, y>>, 3, lo, hi)
  <2>1. /\ <<x, y, y>> \in Seq(S) /\ Len(<<x, y, y>>) = 3
        /\ <<x, y, y>>[1] = x /\ <<x, y, y>>[2] = y /\ <<x, y, y>>[3] = y
    BY SMT, <1>3
  <2>2. \A i \in 2 .. 3 : i = 2 \/ i = 3
    BY SMT
  <2>3. QED
    BY <1>2, <2>1, <2>2 DEF RangesAre, S
<1>7. QED
  BY <1>1, <1>4, <1>5, <1>6

\* How many bytes follow the first byte c, and between which the first of them is.
More(c) == IF c <= 223 THEN 1 ELSE IF c <= 239 THEN 2 ELSE 3
Least(c) == IF c = 224 THEN 160 ELSE IF c = 240 THEN 144 ELSE 128
Most(c) == IF c = 237 THEN 159 ELSE IF c = 244 THEN 143 ELSE 191

\* The table of RFC 3629.
LEMMA RangesTable ==
  ASSUME NEW c \in Leading
  PROVE  RangesAre(RangesAfter(c), More(c), Least(c), Most(c)) /\ More(c) \in 1 .. 3
<1>1. Least(c) \in Byte /\ Most(c) \in Byte
  BY SMT DEF Least, Most, Byte
<1>2. CASE c <= 223
  <2>1. More(c) = 1 /\ RangesAfter(c) = <<<<Least(c), Most(c)>>>>
    BY SMT, <1>2 DEF RangesAfter, Continuation, More, Least, Most, Leading
  <2>2. RangesAre(<<<<Least(c), Most(c)>>>>, 1, Least(c), Most(c))
    BY <1>1, RangesOfEach
  <2>3. 1 \in 1 .. 3
    BY SMT
  <2>4. QED
    BY <2>1, <2>2, <2>3
<1>3. CASE c > 223 /\ c <= 239
  <2>1. More(c) = 2 /\ RangesAfter(c) = <<<<Least(c), Most(c)>>, Continuation>>
    BY SMT, <1>3 DEF RangesAfter, AfterED, Continuation, More, Least, Most, Leading
  <2>2. RangesAre(<<<<Least(c), Most(c)>>, Continuation>>, 2, Least(c), Most(c))
    BY <1>1, RangesOfEach
  <2>3. 2 \in 1 .. 3
    BY SMT
  <2>4. QED
    BY <2>1, <2>2, <2>3
<1>4. CASE c > 239
  <2>1. More(c) = 3 /\ RangesAfter(c) = <<<<Least(c), Most(c)>>, Continuation, Continuation>>
    BY SMT, <1>4 DEF RangesAfter, Continuation, More, Least, Most, Leading
  <2>2. RangesAre(<<<<Least(c), Most(c)>>, Continuation, Continuation>>, 3, Least(c), Most(c))
    BY <1>1, RangesOfEach
  <2>3. 3 \in 1 .. 3
    BY SMT
  <2>4. QED
    BY <2>1, <2>2, <2>3
<1>5. QED
  BY SMT, <1>2, <1>3, <1>4 DEF Leading

\* The bytes after the first one are in the ranges rs.
InRanges(rs, b) ==
  /\ Len(b) = Len(rs) + 1
  /\ \A i \in 1 .. Len(rs) : rs[i][1] <= b[i + 1] /\ b[i + 1] <= rs[i][2]

\* To be in such ranges, byte by byte.
LEMMA InRangesOf ==
  ASSUME NEW b \in Seq(Byte), NEW rs, NEW n \in 1 .. 3,
         NEW lo \in Byte, NEW hi \in Byte,
         RangesAre(rs, n, lo, hi)
  PROVE  InRanges(rs, b) <=>
           /\ Len(b) = n + 1
           /\ b[2] \in lo .. hi
           /\ n >= 2 => b[3] \in Further
           /\ n = 3 => b[4] \in Further
<1>1. Len(b) \in Nat /\ \A i \in 1 .. Len(b) : b[i] \in Byte
  BY BytesTyped
<1>2. /\ Len(rs) = n /\ rs[1][1] = lo /\ rs[1][2] = hi
      /\ \A i \in 2 .. n : rs[i][1] = 128 /\ rs[i][2] = 191
  BY DEF RangesAre
<1> DEFINE L(i) == rs[i][1]
           H(i) == rs[i][2]
<1>3. /\ L(1) = lo /\ H(1) = hi
      /\ \A i \in 2 .. n : L(i) = 128 /\ H(i) = 191
  BY <1>2
<1>4. InRanges(rs, b) <=>
        Len(b) = n + 1 /\ \A i \in 1 .. n : L(i) <= b[i + 1] /\ b[i + 1] <= H(i)
  BY <1>2 DEF InRanges
<1> HIDE DEF L, H
<1>5. CASE n = 1
  <2>1. (\A i \in 1 .. n : L(i) <= b[i + 1] /\ b[i + 1] <= H(i)) <=>
          (/\ L(1) <= b[2] /\ b[2] <= H(1))
    BY SMT, <1>5
  <2>2. Len(b) = n + 1 => b[2] \in Byte
    BY SMT, <1>1, <1>5
  <2>3. /\ L(1) = lo /\ H(1) = hi
    BY SMT, <1>3, <1>5
  <2>4. ASSUME Len(b) = n + 1
        PROVE  (/\ L(1) <= b[2] /\ b[2] <= H(1))
               <=> (/\ b[2] \in lo .. hi
                    /\ n >= 2 => b[3] \in Further
                    /\ n = 3 => b[4] \in Further)
    <3>1. PICK x \in Byte : x = b[2]
      BY <2>2, <2>4
    <3>2. (lo <= x /\ x <= hi) <=> (x \in lo .. hi)
      BY SMT DEF Byte
    <3>3. (n >= 2 <=> FALSE) /\ (n = 3 <=> FALSE)
      BY SMT, <1>5
    <3>4. QED
      BY <2>3, <3>1, <3>2, <3>3
  <2>5. QED
    BY <1>4, <2>1, <2>4
<1>6. CASE n = 2
  <2>1. (\A i \in 1 .. n : L(i) <= b[i + 1] /\ b[i + 1] <= H(i)) <=>
          (/\ L(1) <= b[2] /\ b[2] <= H(1)
           /\ L(2) <= b[3] /\ b[3] <= H(2))
    BY SMT, <1>6
  <2>2. Len(b) = n + 1 => b[2] \in Byte /\ b[3] \in Byte
    BY SMT, <1>1, <1>6
  <2>3. /\ L(1) = lo /\ H(1) = hi
        /\ L(2) = 128 /\ H(2) = 191
    BY SMT, <1>3, <1>6
  <2>4. ASSUME Len(b) = n + 1
        PROVE  (/\ L(1) <= b[2] /\ b[2] <= H(1)
                /\ L(2) <= b[3] /\ b[3] <= H(2))
               <=> (/\ b[2] \in lo .. hi
                    /\ n >= 2 => b[3] \in Further
                    /\ n = 3 => b[4] \in Further)
    <3>1. PICK x \in Byte, y \in Byte : x = b[2] /\ y = b[3]
      BY <2>2, <2>4
    <3>2. (lo <= x /\ x <= hi /\ 128 <= y /\ y <= 191) <=>
            (x \in lo .. hi /\ y \in Further)
      BY SMT DEF Byte, Further
    <3>3. (n >= 2 <=> TRUE) /\ (n = 3 <=> FALSE)
      BY SMT, <1>6
    <3>4. QED
      BY <2>3, <3>1, <3>2, <3>3
  <2>5. QED
    BY <1>4, <2>1, <2>4
<1>7. CASE n = 3
  <2>1. (\A i \in 1 .. n : L(i) <= b[i + 1] /\ b[i + 1] <= H(i)) <=>
          (/\ L(1) <= b[2] /\ b[2] <= H(1)
           /\ L(2) <= b[3] /\ b[3] <= H(2)
           /\ L(3) <= b[4] /\ b[4] <= H(3))
    BY SMT, <1>7
  <2>2. Len(b) = n + 1 => b[2] \in Byte /\ b[3] \in Byte /\ b[4] \in Byte
    BY SMT, <1>1, <1>7
  <2>3. /\ L(1) = lo /\ H(1) = hi
        /\ L(2) = 128 /\ H(2) = 191
        /\ L(3) = 128 /\ H(3) = 191
    BY SMT, <1>3, <1>7
  <2>4. ASSUME Len(b) = n + 1
        PROVE  (/\ L(1) <= b[2] /\ b[2] <= H(1)
                /\ L(2) <= b[3] /\ b[3] <= H(2)
                /\ L(3) <= b[4] /\ b[4] <= H(3))
               <=> (/\ b[2] \in lo .. hi
                    /\ n >= 2 => b[3] \in Further
                    /\ n = 3 => b[4] \in Further)
    <3>1. PICK x \in Byte, y \in Byte, z \in Byte :
            x = b[2] /\ y = b[3] /\ z = b[4]
      BY <2>2, <2>4
    <3>2. (lo <= x /\ x <= hi /\ 128 <= y /\ y <= 191 /\ 128 <= z /\ z <= 191) <=>
            (x \in lo .. hi /\ y \in Further /\ z \in Further)
      BY SMT DEF Byte, Further
    <3>3. (n >= 2 <=> TRUE) /\ (n = 3 <=> TRUE)
      BY SMT, <1>7
    <3>4. QED
      BY <2>3, <3>1, <3>2, <3>3
  <2>5. QED
    BY <1>4, <2>1, <2>4
<1>8. QED
  BY SMT, <1>5, <1>6, <1>7

\* The ranges of next_byte_in_range are those of UTF-8: a sequence is well-formed
\* exactly when it is one byte of ASCII, or its first byte has ranges and the
\* others are in them (the cases of scan_string that call next_byte_in_range).
THEOREM RangesAreExact ==
  ASSUME NEW b \in Seq(Byte)
  PROVE  WellFormedUtf8(b) <=>
           \/ Len(b) = 1 /\ b[1] \in Ascii
           \/ Len(b) > 1 /\ b[1] \in Leading /\ InRanges(RangesAfter(b[1]), b)
<1> DEFINE c == b[1]
           rs == RangesAfter(c)
           Fits == /\ Len(b) = More(c) + 1
                   /\ b[2] \in Least(c) .. Most(c)
                   /\ More(c) >= 2 => b[3] \in Further
                   /\ More(c) = 3 => b[4] \in Further
<1>1. Len(b) \in Nat /\ \A i \in 1 .. Len(b) : b[i] \in Byte
  BY BytesTyped
<1>2. ASSUME c \in Leading
      PROVE  InRanges(rs, b) <=> Fits
  <2>1. More(c) \in 1 .. 3 /\ Least(c) \in Byte /\ Most(c) \in Byte
    BY SMT, <1>2 DEF More, Least, Most, Byte
  <2>2. RangesAre(rs, More(c), Least(c), Most(c))
    BY <1>2, RangesTable
  <2> HIDE DEF c, rs
  <2>3. QED
    BY <2>1, <2>2, InRangesOf
<1> HIDE DEF rs
<1>3. CASE Len(b) = 1
  <2>1. WellFormedUtf8(b) <=> c \in Ascii
    BY <1>3, OneByte DEF Shape1
  <2>2. QED
    BY SMT, <1>3, <2>1
<1>4. CASE Len(b) = 2
  <2>1. WellFormedUtf8(b) <=> Shape2(b[1], b[2])
    BY <1>4, TwoBytes
  <2>2. b[1] \in Byte /\ b[2] \in Byte
    BY SMT, <1>1, <1>4
  <2>3. Shape2(b[1], b[2]) <=> c \in Leading /\ Fits
    <3>1. PICK p \in Byte, q \in Byte : p = b[1] /\ q = b[2]
      BY <2>2
    <3>2. Fits <=> /\ More(p) = 1
                   /\ Least(p) <= q /\ q <= Most(p)
      <4>1. /\ More(p) \in 1 .. 3 /\ Least(p) \in Byte /\ Most(p) \in Byte
        BY SMT DEF More, Least, Most, Byte
      <4>2. QED
        BY SMT, <1>4, <3>1, <4>1 DEF Byte
    <3>3. Shape2(p, q) <=> p \in Leading /\ Fits
      BY SMT, <3>2 DEF Shape2, More, Least, Most, Byte, Further, Leading
    <3>4. QED
      BY <3>1, <3>3
  <2>4. QED
    BY SMT, <1>2, <1>4, <2>1, <2>3 DEF rs
<1>5. CASE Len(b) = 3
  <2>1. WellFormedUtf8(b) <=> Shape3(b[1], b[2], b[3])
    BY <1>5, ThreeBytes
  <2>2. b[1] \in Byte /\ b[2] \in Byte /\ b[3] \in Byte
    BY SMT, <1>1, <1>5
  <2>3. Shape3(b[1], b[2], b[3]) <=> c \in Leading /\ Fits
    <3>1. PICK p \in Byte, q \in Byte, r \in Byte :
            p = b[1] /\ q = b[2] /\ r = b[3]
      BY <2>2
    <3>2. Fits <=> /\ More(p) = 2
                   /\ Least(p) <= q /\ q <= Most(p)
                   /\ r \in Further
      <4>1. /\ More(p) \in 1 .. 3 /\ Least(p) \in Byte /\ Most(p) \in Byte
        BY SMT DEF More, Least, Most, Byte
      <4>2. QED
        BY SMT, <1>5, <3>1, <4>1 DEF Byte
    <3>3. Shape3(p, q, r) <=> p \in Leading /\ Fits
      BY SMT, <3>2 DEF Shape3, More, Least, Most, Byte, Further, Leading
    <3>4. QED
      BY <3>1, <3>3
  <2>4. QED
    BY SMT, <1>2, <1>5, <2>1, <2>3 DEF rs
<1>6. CASE Len(b) = 4
  <2>1. WellFormedUtf8(b) <=> Shape4(b[1], b[2], b[3], b[4])
    BY <1>6, FourBytes
  <2>2. b[1] \in Byte /\ b[2] \in Byte /\ b[3] \in Byte /\ b[4] \in Byte
    BY SMT, <1>1, <1>6
  <2>3. Shape4(b[1], b[2], b[3], b[4]) <=> c \in Leading /\ Fits
    <3>1. PICK p \in Byte, q \in Byte, r \in Byte, t \in Byte :
            p = b[1] /\ q = b[2] /\ r = b[3] /\ t = b[4]
      BY <2>2
    <3>2. Fits <=> /\ More(p) = 3
                   /\ Least(p) <= q /\ q <= Most(p)
                   /\ r \in Further
                   /\ t \in Further
      <4>1. /\ More(p) \in 1 .. 3 /\ Least(p) \in Byte /\ Most(p) \in Byte
        BY SMT DEF More, Least, Most, Byte
      <4>2. QED
        BY SMT, <1>6, <3>1, <4>1 DEF Byte
    <3>3. Shape4(p, q, r, t) <=> p \in Leading /\ Fits
      <4>1. More(p) = 3 /\ p \in Leading <=> p \in 240 .. 244
        BY SMT DEF More, Leading, Byte
      <4>2. ASSUME p \in 240 .. 244
            PROVE  Least(p) <= q /\ q <= Most(p) <=>
                     q \in Further /\ (p = 240 => q >= 144) /\ (p = 244 => q <= 143)
        BY SMT, <4>2 DEF Least, Most, Further, Byte
      <4>3. QED
        BY SMT, <3>2, <4>1, <4>2 DEF Shape4
    <3>4. QED
      BY <3>1, <3>3
  <2>4. QED
    BY SMT, <1>2, <1>6, <2>1, <2>3 DEF rs
<1>7. CASE Len(b) \notin 1 .. 4
  <2>1. ~WellFormedUtf8(b)
    BY <1>7 DEF WellFormedUtf8
  <2>2. c \in Leading => ~Fits
    BY SMT, <1>1, <1>7 DEF More
  <2>3. QED
    BY SMT, <1>2, <1>7, <2>1, <2>2 DEF rs
<1>8. QED
  BY SMT, <1>1, <1>3, <1>4, <1>5, <1>6, <1>7

-----------------------------------------------------------------------------
(***************************************************************************)
(* Where a sequence begins, goes on and ends.                              *)
(***************************************************************************)

\* One more element.
LEMMA Extended ==
  ASSUME NEW s \in Seq(Byte), NEW c
  PROVE  /\ Len(Append(s, c)) = Len(s) + 1
         /\ Append(s, c)[Len(s) + 1] = c
         /\ \A i \in 1 .. Len(s) : Append(s, c)[i] = s[i]
         /\ Last(Append(s, c)) = c
         /\ c \in Byte => Append(s, c) \in Seq(Byte)
         /\ c \in Range(Append(s, c))
<1> DEFINE S == Byte \cup {c}
           t == Append(s, c)
<1>1. s \in Seq(S) /\ c \in S
  BY SeqMonotonic
<1>2. Len(s) \in Nat
  BY LenProperties
<1>3. /\ t \in Seq(S) /\ Len(t) = Len(s) + 1 /\ t[Len(s) + 1] = c
      /\ \A i \in 1 .. Len(s) : t[i] = s[i]
  BY <1>1, AppendProperties
<1>4. Last(t) = c
  BY <1>3 DEF Last
<1>5. c \in Byte => t \in Seq(Byte)
  BY AppendProperties
<1>6. c \in Range(t)
  <2>1. DOMAIN t = 1 .. Len(t)
    BY <1>3, LenProperties
  <2>2. Len(s) + 1 \in DOMAIN t
    <3> HIDE DEF t
    <3>1. QED
      BY SMT, <1>2, <1>3, <2>1
  <2>3. QED
    BY <1>3, <2>2 DEF Range
<1>7. QED
  BY <1>3, <1>4, <1>5, <1>6

\* A single byte.
LEMMA Single ==
  ASSUME NEW c \in Byte
  PROVE  <<c>> \in Seq(Byte) /\ Len(<<c>>) = 1 /\ <<c>>[1] = c /\ <<c>> # <<>>
BY SMT

\* The end of the text is read, and nothing else.
LEMMA EofOnly == EOF \in Range(<<EOF>>)
<1>1. 1 \in DOMAIN <<EOF>> /\ <<EOF>>[1] = EOF
  BY SMT
<1>2. QED
  BY <1>1 DEF Range

\* What a sequence begins with that can be completed to a well-formed one.
LEMMA BeginningInRanges ==
  ASSUME NEW b \in Seq(Byte), Len(b) >= 1, BeginsUtf8(b),
         NEW rs, rs = RangesAfter(b[1])
  PROVE  /\ Len(b) = 1 => b[1] \in Ascii \cup Leading
         /\ Len(b) > 1 =>
              /\ b[1] \in Leading
              /\ Len(b) <= Len(rs) + 1
              /\ \A i \in 1 .. Len(b) - 1 : rs[i][1] <= b[i + 1] /\ b[i + 1] <= rs[i][2]
<1>0. PICK n \in 0 .. 3 : \E more \in [1 .. n -> {128, 191}] : WellFormedUtf8(b \o more)
  BY DEF BeginsUtf8
<1>1. PICK more \in [1 .. n -> {128, 191}] : WellFormedUtf8(b \o more)
  BY <1>0
<1>2. {128, 191} \subseteq Byte
  BY SMT DEF Byte
<1>3. more \in Seq(Byte) /\ Len(more) = n
  <2>1. n \in Nat /\ more \in [1 .. n -> Byte]
    BY SMT, <1>1, <1>2
  <2>2. more \in Seq(Byte)
    BY <2>1, SeqDef
  <2>3. DOMAIN more = 1 .. n
    BY <2>1
  <2>4. QED
    BY <2>1, <2>2, <2>3, LenProperties
<1> DEFINE x == b \o more
<1>4. /\ x \in Seq(Byte) /\ Len(x) = Len(b) + n
      /\ \A i \in 1 .. Len(b) : x[i] = b[i]
  BY <1>3, ConcatProperties
<1>5. WellFormedUtf8(x)
  BY <1>1
<1> HIDE DEF x
<1>6. \/ Len(x) = 1 /\ x[1] \in Ascii
      \/ Len(x) > 1 /\ x[1] \in Leading /\ InRanges(RangesAfter(x[1]), x)
  BY <1>4, <1>5, RangesAreExact
<1>7. Len(b) \in Nat /\ x[1] = b[1]
  <2>1. Len(b) \in Nat
    BY LenProperties
  <2>2. 1 \in 1 .. Len(b)
    BY SMT, <2>1
  <2>3. QED
    BY <1>4, <2>1, <2>2
<1>8. \/ Len(x) = 1 /\ b[1] \in Ascii
      \/ Len(x) > 1 /\ b[1] \in Leading /\ InRanges(rs, x)
  BY <1>6, <1>7
<1>9. Len(b) = 1 => b[1] \in Ascii \cup Leading
  BY <1>8
<1>10. ASSUME Len(b) > 1
       PROVE  /\ b[1] \in Leading
              /\ Len(b) <= Len(rs) + 1
              /\ \A i \in 1 .. Len(b) - 1 : rs[i][1] <= b[i + 1] /\ b[i + 1] <= rs[i][2]
  <2>0. Len(x) # 1
    BY SMT, <1>4, <1>7, <1>10
  <2>1. b[1] \in Leading /\ InRanges(rs, x)
    BY <1>8, <2>0
  <2>2. Len(x) = Len(rs) + 1
    BY <2>1 DEF InRanges
  <2>3. Len(b) <= Len(rs) + 1
    BY SMT, <1>1, <1>4, <1>7, <2>2
  <2>4. Len(rs) \in Nat
    <3>1. RangesAre(rs, More(b[1]), Least(b[1]), Most(b[1]))
      BY <2>1, RangesTable
    <3>2. rs \in Seq(Byte \X Byte)
      BY <3>1 DEF RangesAre
    <3>3. QED
      BY <3>2, LenProperties
  <2>5. ASSUME NEW i \in 1 .. Len(b) - 1
        PROVE  rs[i][1] <= b[i + 1] /\ b[i + 1] <= rs[i][2]
    <3>1. i \in 1 .. Len(rs) /\ i + 1 \in 1 .. Len(b)
      BY SMT, <1>7, <2>3, <2>4
    <3>2. rs[i][1] <= x[i + 1] /\ x[i + 1] <= rs[i][2]
      BY <2>1, <3>1 DEF InRanges
    <3>3. QED
      BY <1>4, <3>1, <3>2
  <2>6. QED
    BY <2>1, <2>3, <2>5
<1>11. QED
  BY <1>9, <1>10

\* The continuation bytes so far are in their ranges, and rs are the ranges of those
\* to come.
Continues(s, rs) ==
  LET all == RangesAfter(s[1])
  IN /\ s \in Seq(Byte) /\ Len(s) >= 1 /\ s[1] \in Leading
     /\ rs \in Seq(Byte \X Byte) /\ Len(rs) >= 1
     /\ Len(s) + Len(rs) = Len(all) + 1
     /\ \A i \in 1 .. Len(s) - 1 : all[i][1] <= s[i + 1] /\ s[i + 1] <= all[i][2]
     /\ \A i \in 1 .. Len(rs) : rs[i] = all[Len(s) - 1 + i]

\* The first byte has all its ranges before it.
LEMMA FirstContinues ==
  ASSUME NEW c \in Leading
  PROVE  Continues(<<c>>, RangesAfter(c))
<1> DEFINE rs == RangesAfter(c)
           s == <<c>>
<1>1. RangesAre(rs, More(c), Least(c), Most(c)) /\ More(c) \in 1 .. 3
  <2>1. More(c) \in 1 .. 3
    BY SMT DEF More
  <2>2. QED
    BY <2>1, RangesTable
<1>2. rs \in Seq(Byte \X Byte) /\ Len(rs) \in 1 .. 3
  BY <1>1 DEF RangesAre
<1>3. s \in Seq(Byte) /\ Len(s) = 1 /\ s[1] = c
  BY SMT DEF Byte, Leading
<1> HIDE DEF rs, s
<1>4. rs = RangesAfter(s[1]) /\ s[1] \in Leading
  BY <1>3 DEF rs
<1>5. /\ Len(s) >= 1 /\ Len(rs) >= 1 /\ Len(s) + Len(rs) = Len(rs) + 1
      /\ 1 .. Len(s) - 1 = {}
      /\ \A i \in 1 .. Len(rs) : Len(s) - 1 + i = i
  <2>1. Len(rs) \in 1 .. 3 /\ Len(s) = 1
    BY <1>2, <1>3
  <2>2. QED
    BY SMT, <2>1
<1>6. Continues(s, rs)
  BY <1>2, <1>3, <1>4, <1>5 DEF Continues
<1>7. QED
  BY <1>6 DEF s, rs

\* The next byte in its range: either a well-formed sequence is complete, or there are
\* more to come.
LEMMA NextContinues ==
  ASSUME NEW s, NEW rs, Continues(s, rs),
         NEW c \in Byte, c \in Head(rs)[1] .. Head(rs)[2]
  PROVE  /\ Append(s, c) \in Seq(Byte) /\ Append(s, c)[1] = s[1] /\ s[1] \in Leading
         /\ Len(rs) = 1 => WellFormedUtf8(Append(s, c))
         /\ Len(rs) # 1 => Continues(Append(s, c), Tail(rs))
<1> DEFINE all == RangesAfter(s[1])
           t == Append(s, c)
           R == Tail(rs)
           S == Byte \X Byte
<1>1. /\ s \in Seq(Byte) /\ Len(s) >= 1 /\ s[1] \in Leading
      /\ rs \in Seq(S) /\ Len(rs) >= 1
      /\ Len(s) + Len(rs) = Len(all) + 1
      /\ \A i \in 1 .. Len(s) - 1 : all[i][1] <= s[i + 1] /\ s[i + 1] <= all[i][2]
      /\ \A i \in 1 .. Len(rs) : rs[i] = all[Len(s) - 1 + i]
  BY DEF Continues
<1>2. Len(s) \in Nat /\ Len(rs) \in Nat
  BY <1>1, LenProperties
<1>3. /\ t \in Seq(Byte) /\ Len(t) = Len(s) + 1 /\ t[Len(s) + 1] = c
      /\ \A i \in 1 .. Len(s) : t[i] = s[i]
  BY <1>1, Extended
<1>4. Len(all) \in Nat
  <2>1. RangesAre(all, More(s[1]), Least(s[1]), Most(s[1]))
    BY <1>1, RangesTable
  <2>2. all \in Seq(S)
    BY <2>1 DEF RangesAre
  <2>3. QED
    BY <2>2, LenProperties
<1>5. rs # <<>>
  <2>1. Len(<<>>) = 0
    OBVIOUS
  <2>2. QED
    BY SMT, <1>1, <2>1
<1>6. /\ R \in Seq(S) /\ Len(R) = Len(rs) - 1
      /\ \A i \in 1 .. Len(R) : R[i] = rs[i + 1]
      /\ Head(rs) = rs[1]
  BY <1>1, <1>5, HeadTailProperties
<1> HIDE DEF all, t, R, S
<1>7. t[1] = s[1]
  <2>1. 1 \in 1 .. Len(s)
    BY SMT, <1>1, <1>2
  <2>2. QED
    BY <1>3, <2>1
<1>8. all[Len(s)][1] <= c /\ c <= all[Len(s)][2]
  <2>1. 1 \in 1 .. Len(rs) /\ Len(s) - 1 + 1 = Len(s)
    BY SMT, <1>1, <1>2
  <2>2. rs[1] = all[Len(s)]
    BY <1>1, <2>1
  <2>3. rs[1] \in S
    BY <1>1, <2>1, ElementOfSeq
  <2>4. PICK lo \in Byte, hi \in Byte : lo = rs[1][1] /\ hi = rs[1][2]
    BY <2>3 DEF S
  <2>5. c \in lo .. hi
    BY <1>6, <2>4
  <2>6. lo <= c /\ c <= hi
    BY SMT, <2>5
  <2>7. QED
    BY <2>2, <2>4, <2>6
<1>9. ASSUME NEW i \in 1 .. Len(t) - 1
      PROVE  all[i][1] <= t[i + 1] /\ t[i + 1] <= all[i][2]
  <2>1. CASE i = Len(s)
    BY <1>3, <1>8, <2>1
  <2>2. CASE i # Len(s)
    <3>1. i \in 1 .. Len(s) - 1 /\ i + 1 \in 1 .. Len(s)
      BY SMT, <1>2, <1>3, <2>2
    <3>2. QED
      BY <1>1, <1>3, <3>1
  <2>3. QED
    BY <2>1, <2>2
<1>10. all = RangesAfter(t[1])
  BY <1>7 DEF all
<1>11. ASSUME Len(rs) = 1
       PROVE  WellFormedUtf8(t)
  <2>1. Len(t) = Len(all) + 1 /\ Len(t) > 1 /\ 1 .. Len(t) - 1 = 1 .. Len(all)
    BY SMT, <1>1, <1>2, <1>3, <1>4, <1>11
  <2>2. InRanges(all, t)
    BY <1>9, <2>1 DEF InRanges
  <2>3. QED
    BY <1>1, <1>3, <1>7, <1>10, <2>1, <2>2, RangesAreExact
<1>12. ASSUME Len(rs) # 1
       PROVE  Continues(t, R)
  <2>1. /\ Len(t) >= 1 /\ Len(R) >= 1
        /\ Len(t) + Len(R) = Len(all) + 1
    <3>1. /\ Len(s) >= 1 /\ Len(rs) >= 1 /\ Len(s) + Len(rs) = Len(all) + 1
          /\ Len(t) = Len(s) + 1 /\ Len(R) = Len(rs) - 1
      BY <1>1, <1>3, <1>6
    <3>2. QED
      BY SMT, <1>2, <1>4, <1>12, <3>1
  <2>2. ASSUME NEW i \in 1 .. Len(R)
        PROVE  R[i] = all[Len(t) - 1 + i]
    <3>1. i + 1 \in 1 .. Len(rs) /\ Len(s) - 1 + (i + 1) = Len(t) - 1 + i
      BY SMT, <1>2, <1>3, <1>6
    <3>2. QED
      BY <1>1, <1>6, <3>1
  <2>3. t[1] \in Leading
    BY <1>1, <1>7
  <2>4. QED
    BY <1>3, <1>6, <1>9, <1>10, <2>1, <2>2, <2>3 DEF Continues, S
<1>13. QED
  BY <1>1, <1>3, <1>7, <1>11, <1>12 DEF t, R

\* A byte that is not in its range: no well-formed sequence begins so.
LEMMA OutOfRange ==
  ASSUME NEW s, NEW rs, Continues(s, rs),
         NEW c \in Byte, c \notin Head(rs)[1] .. Head(rs)[2]
  PROVE  ~BeginsUtf8(Append(s, c))
<1> DEFINE all == RangesAfter(s[1])
           t == Append(s, c)
           S == Byte \X Byte
<1>1. /\ s \in Seq(Byte) /\ Len(s) >= 1 /\ s[1] \in Leading
      /\ rs \in Seq(S) /\ Len(rs) >= 1
      /\ \A i \in 1 .. Len(rs) : rs[i] = all[Len(s) - 1 + i]
  BY DEF Continues
<1>2. Len(s) \in Nat /\ Len(rs) \in Nat
  BY <1>1, LenProperties
<1>3. /\ t \in Seq(Byte) /\ Len(t) = Len(s) + 1 /\ t[Len(s) + 1] = c
      /\ \A i \in 1 .. Len(s) : t[i] = s[i]
  BY <1>1, Extended
<1>4. Head(rs) = rs[1]
  <2>1. Len(<<>>) = 0
    OBVIOUS
  <2>2. rs # <<>>
    BY SMT, <1>1, <2>1
  <2>3. QED
    BY <1>1, <2>2, HeadTailProperties
<1>5. c \notin rs[1][1] .. rs[1][2]
  BY <1>4
<1> HIDE DEF all, t, S
<1>6. t[1] = s[1]
  <2>1. 1 \in 1 .. Len(s)
    BY SMT, <1>1, <1>2
  <2>2. QED
    BY <1>3, <2>1
<1>7. rs[1] = all[Len(s)]
  <2>1. 1 \in 1 .. Len(rs) /\ Len(s) - 1 + 1 = Len(s)
    BY SMT, <1>1, <1>2
  <2>2. QED
    BY <1>1, <2>1
<1>8. ~(all[Len(s)][1] <= c /\ c <= all[Len(s)][2])
  <2>1. 1 \in 1 .. Len(rs)
    BY SMT, <1>1, <1>2
  <2>2. rs[1] \in S
    BY <1>1, <2>1, ElementOfSeq
  <2>3. PICK lo \in Byte, hi \in Byte : lo = rs[1][1] /\ hi = rs[1][2]
    BY <2>2 DEF S
  <2>4. c \notin lo .. hi
    BY <1>5, <2>3
  <2>5. ~(lo <= c /\ c <= hi)
    BY SMT, <2>4 DEF Byte
  <2>6. QED
    BY <1>7, <2>3, <2>5
<1>9. Len(t) > 1 /\ Len(t) >= 1 /\ Len(s) \in 1 .. Len(t) - 1
  BY SMT, <1>1, <1>2, <1>3
<1>10. all = RangesAfter(t[1])
  BY <1>6 DEF all
<1>11. SUFFICES ASSUME BeginsUtf8(t)
                PROVE  FALSE
  BY DEF t
<1>12. \A i \in 1 .. Len(t) - 1 : all[i][1] <= t[i + 1] /\ t[i + 1] <= all[i][2]
  BY <1>3, <1>9, <1>10, <1>11, BeginningInRanges
<1>13. QED
  BY <1>3, <1>8, <1>9, <1>12

-----------------------------------------------------------------------------
(***************************************************************************)
(* The values of the escapes.                                              *)
(***************************************************************************)

\* A hexadecimal digit is a byte, and has a value of four bits.
LEMMA HexDigitTyped ==
  ASSUME NEW c \in Byte \cup {EOF}, HexDigit(c) # -1
  PROVE  c \in Byte /\ HexDigit(c) \in 0 .. 15
<1>1. \/ c \in 48 .. 57 /\ HexDigit(c) = c - 48
      \/ c \in 65 .. 70 /\ HexDigit(c) = c - 55
      \/ c \in 97 .. 102 /\ HexDigit(c) = c - 87
  BY SMT DEF HexDigit
<1>2. QED
  BY SMT, <1>1 DEF Byte

\* An escape that is one character stands for ASCII.
LEMMA SimpleTyped ==
  ASSUME NEW c, Simple(c) # -1
  PROVE  c \in Byte /\ Simple(c) \in Ascii
<1>1. c \in {34, 92, 47, 98, 102, 110, 114, 116}
  BY Zenon DEF Simple
<1>2. Simple(c) \in {34, 92, 47, 8, 12, 10, 13, 9}
  BY Zenon DEF Simple
<1>3. QED
  BY SMT, <1>1, <1>2 DEF Byte, Ascii

\* The four digits of the escape that begins before position i.
LEMMA HexValueIs ==
  ASSUME NEW b, NEW i \in {3, 9}
  PROVE  HexValue(b, i) = 4096 * HexDigit(b[i]) + 256 * HexDigit(b[i + 1])
                            + 16 * HexDigit(b[i + 2]) + HexDigit(b[i + 3])
<1> DEFINE ds == [k \in 1 .. 4 |-> HexDigit(b[i + k - 1])]
<1>1. 1 \in 1 .. 4 /\ 2 \in 1 .. 4 /\ 3 \in 1 .. 4 /\ 4 \in 1 .. 4
  BY SMT
<1>2. /\ i + 1 - 1 = i /\ i + 2 - 1 = i + 1
      /\ i + 3 - 1 = i + 2 /\ i + 4 - 1 = i + 3
  BY SMT
<1>3. /\ ds[1] = HexDigit(b[i]) /\ ds[2] = HexDigit(b[i + 1])
      /\ ds[3] = HexDigit(b[i + 2]) /\ ds[4] = HexDigit(b[i + 3])
  BY <1>1, <1>2
<1>4. HexValue(b, i) = CodePoint(ds)
  BY DEF HexValue
<1> HIDE DEF ds
<1>5. QED
  BY <1>3, <1>4 DEF CodePoint

\* Reading on changes no digit that has been read.
LEMMA HexValueKept ==
  ASSUME NEW s \in Seq(Byte), Len(s) >= 6, NEW c
  PROVE  HexValue(Append(s, c), 3) = HexValue(s, 3)
<1> DEFINE t == Append(s, c)
<1>1. \A i \in 1 .. Len(s) : t[i] = s[i]
  BY Extended
<1>2. Len(s) \in Nat
  BY LenProperties
<1> HIDE DEF t
<1>3. /\ 3 \in 1 .. Len(s) /\ 3 + 1 \in 1 .. Len(s)
      /\ 3 + 2 \in 1 .. Len(s) /\ 3 + 3 \in 1 .. Len(s)
  BY SMT, <1>2
<1>4. t[3] = s[3] /\ t[3 + 1] = s[3 + 1] /\ t[3 + 2] = s[3 + 2] /\ t[3 + 3] = s[3 + 3]
  BY <1>1, <1>3
<1>5. 3 \in {3, 9}
  OBVIOUS
<1>6. HexValue(t, 3) = HexValue(s, 3)
  BY <1>4, <1>5, HexValueIs
<1>7. QED
  BY <1>6 DEF t

\* The digits ds are those of the source from position i on.
DigitsOf(s, ds, i) ==
  /\ ds \in Seq(0 .. 15)
  /\ Len(s) = i - 1 + Len(ds)
  /\ \A k \in 1 .. Len(ds) : ds[k] = HexDigit(s[i - 1 + k])

\* One more digit that is not the fourth.
LEMMA NextDigit ==
  ASSUME NEW s \in Seq(Byte), NEW ds, NEW i \in {3, 9}, DigitsOf(s, ds, i),
         NEW c \in Byte, HexDigit(c) \in 0 .. 15
  PROVE  DigitsOf(Append(s, c), Append(ds, HexDigit(c)), i)
<1> DEFINE t == Append(s, c)
           es == Append(ds, HexDigit(c))
<1>1. Len(t) = Len(s) + 1 /\ t[Len(s) + 1] = c /\ \A k \in 1 .. Len(s) : t[k] = s[k]
  BY Extended
<1>2. /\ ds \in Seq(0 .. 15) /\ Len(s) = i - 1 + Len(ds)
      /\ \A k \in 1 .. Len(ds) : ds[k] = HexDigit(s[i - 1 + k])
  BY DEF DigitsOf
<1>3. /\ es \in Seq(0 .. 15) /\ Len(es) = Len(ds) + 1
      /\ es[Len(ds) + 1] = HexDigit(c) /\ \A k \in 1 .. Len(ds) : es[k] = ds[k]
  BY <1>2, AppendProperties
<1>4. Len(ds) \in Nat
  BY <1>2, LenProperties
<1> HIDE DEF t, es
<1>5. Len(t) = i - 1 + Len(es)
  BY SMT, <1>1, <1>2, <1>3, <1>4
<1>6. ASSUME NEW k \in 1 .. Len(es)
      PROVE  es[k] = HexDigit(t[i - 1 + k])
  <2>1. CASE k = Len(ds) + 1
    <3>1. i - 1 + k = Len(s) + 1
      BY SMT, <1>2, <1>4, <2>1
    <3>2. QED
      BY <1>1, <1>3, <2>1, <3>1
  <2>2. CASE k # Len(ds) + 1
    <3>1. k \in 1 .. Len(ds) /\ i - 1 + k \in 1 .. Len(s)
      BY SMT, <1>2, <1>3, <1>4, <2>2
    <3>2. QED
      BY <1>1, <1>2, <1>3, <3>1
  <2>3. QED
    BY <2>1, <2>2
<1>7. DigitsOf(t, es, i)
  BY <1>3, <1>5, <1>6 DEF DigitsOf
<1>8. QED
  BY <1>7 DEF t, es

\* The fourth digit makes the value.
LEMMA FourthDigit ==
  ASSUME NEW s \in Seq(Byte), NEW ds, NEW i \in {3, 9}, DigitsOf(s, ds, i), Len(ds) = 3,
         NEW c \in Byte, HexDigit(c) \in 0 .. 15
  PROVE  /\ HexValue(Append(s, c), i) = CodePoint(Append(ds, HexDigit(c)))
         /\ HexValue(Append(s, c), i) \in Nat /\ HexValue(Append(s, c), i) < 65536
<1> DEFINE t == Append(s, c)
           es == Append(ds, HexDigit(c))
<1>1. DigitsOf(t, es, i)
  BY NextDigit
<1>2. Len(t) = i + 3
  <2>1. Len(t) = Len(s) + 1 /\ Len(s) = i - 1 + 3
    BY Extended DEF DigitsOf
  <2> HIDE DEF t
  <2>2. QED
    BY SMT, <2>1
<1> HIDE DEF t, es
<1>3. /\ es \in Seq(0 .. 15) /\ Len(t) = i - 1 + Len(es)
      /\ \A k \in 1 .. Len(es) : es[k] = HexDigit(t[i - 1 + k])
  BY <1>1 DEF DigitsOf
<1>4. Len(es) = 4
  <2>1. Len(es) \in Nat
    BY <1>3, LenProperties
  <2>2. i + 3 = i - 1 + Len(es)
    BY <1>2, <1>3
  <2>3. PICK n \in Nat : n = Len(es)
    BY <2>1
  <2>4. i \in Nat /\ i + 3 = i - 1 + n
    BY <2>2, <2>3
  <2>5. n = 4
    BY SMT, <2>4
  <2>6. QED
    BY <2>3, <2>5
<1>5. /\ 1 \in 1 .. Len(es) /\ 2 \in 1 .. Len(es)
      /\ 3 \in 1 .. Len(es) /\ 4 \in 1 .. Len(es)
      /\ i - 1 + 1 = i /\ i - 1 + 2 = i + 1 /\ i - 1 + 3 = i + 2 /\ i - 1 + 4 = i + 3
  BY SMT, <1>4
<1>6. /\ es[1] = HexDigit(t[i]) /\ es[2] = HexDigit(t[i + 1])
      /\ es[3] = HexDigit(t[i + 2]) /\ es[4] = HexDigit(t[i + 3])
  BY <1>3, <1>5
<1>7. HexValue(t, i) = 4096 * es[1] + 256 * es[2] + 16 * es[3] + es[4]
  BY <1>6, HexValueIs
<1>8. PICK p \in 0 .. 15, q \in 0 .. 15, r \in 0 .. 15, u \in 0 .. 15 :
        p = es[1] /\ q = es[2] /\ r = es[3] /\ u = es[4]
  BY <1>3, <1>5, ElementOfSeq
<1>9. 4096 * p + 256 * q + 16 * r + u \in Nat /\ 4096 * p + 256 * q + 16 * r + u < 65536
  BY SMT
<1>10. HexValue(t, i) = CodePoint(es)
  BY <1>7 DEF CodePoint
<1>11. HexValue(t, i) \in Nat /\ HexValue(t, i) < 65536
  BY <1>7, <1>8, <1>9
<1>12. QED
  BY <1>10, <1>11 DEF t, es

\* A surrogate pair stands for the scalar value with ten bits from either half.
LEMMA JoinedExact ==
  ASSUME NEW high \in Nat, NEW low \in Nat, IsHigh(high), IsLow(low)
  PROVE  /\ Joined(high, low) = 65536 + 1024 * (high % 1024) + (low % 1024)
         /\ Joined(high, low) \in Nat /\ IsScalarValue(Joined(high, low))
<1>1. 55296 <= high /\ high <= 56319 /\ 56320 <= low /\ low <= 57343
  BY SMT DEF IsHigh, IsLow
<1>2. high % 1024 = high - 55296 /\ low % 1024 = low - 56320
  BY SMT, <1>1
<1>3. PICK v : v = Joined(high, low)
  OBVIOUS
<1>4. v = 65536 + 1024 * (high - 55296) + (low - 56320)
  BY SMT, <1>3 DEF Joined
<1>5. v \in Nat /\ v < 17 * 65536 /\ v >= 65536
  BY SMT, <1>1, <1>4
<1>6. IsScalarValue(v)
  BY SMT, <1>5 DEF IsScalarValue, IsHigh, IsLow
<1>7. v = 65536 + 1024 * (high % 1024) + (low % 1024)
  BY SMT, <1>2, <1>4
<1>8. QED
  BY <1>3, <1>5, <1>6, <1>7

-----------------------------------------------------------------------------
(***************************************************************************)
(* The invariant of scan_string, and each of its steps.                    *)
(***************************************************************************)

\* A raw character or an escape is complete, and what it adds is right.
Exact(s, a) ==
  /\ WellFormedUtf8(a)
  /\ Decoded(a) = Denoted(s)
  /\ s[1] # Backslash => a = s

\* The first half of a surrogate pair has been read.
HighRead(s, n) ==
  /\ Len(s) >= 6
  /\ IsHigh(n) /\ n \in Nat
  /\ HexValue(s, 3) = n

EscapeBegun(s) == s \in Seq(Byte) /\ s[1] = Backslash

\* What has been read of a character, wherever scan_string is.
StringInvariant ==
  /\ string_pc \in {"character", "continuation", "escape", "first", "pair", "pairU",
                    "second", "string", "error"}
  /\ string_pc \notin {"first", "second", "error"} => digits = <<>>
  /\ string_pc = "character" /\ source # <<>> => Exact(source, added)
  /\ string_pc = "continuation" => Continues(source, ranges) /\ added = source
  /\ string_pc = "escape" => source = <<Backslash>>
  /\ string_pc = "first" =>
       EscapeBegun(source) /\ DigitsOf(source, digits, 3) /\ Len(digits) <= 3
  /\ string_pc = "pair" =>
       EscapeBegun(source) /\ HighRead(source, codepoint1) /\ Len(source) = 6
  /\ string_pc = "pairU" =>
       EscapeBegun(source) /\ HighRead(source, codepoint1) /\ Len(source) = 7
  /\ string_pc = "second" =>
       /\ EscapeBegun(source) /\ HighRead(source, codepoint1)
       /\ DigitsOf(source, digits, 9) /\ Len(digits) <= 3
  /\ RejectsNoCharacter

\* A string begins with nothing read, and so does the next one.
LEMMA StringInitially == StringInit => StringInvariant
BY DEF StringInit, StringInvariant, RejectsNoCharacter

\* The same after a string.
LEMMA StringResets == StringReset => StringInvariant'
BY DEF StringReset, StringInvariant, RejectsNoCharacter

\* The first byte of a longer sequence begins no escape.
LEMMA LeadingIsNoBackslash == \A p \in Leading : p # Backslash
BY SMT DEF Backslash, Byte, Leading

\* The first byte of a character.
LEMMA FirstByteKeeps ==
  ASSUME StringInvariant, NEW c \in Byte \cup {EOF}, BeginCharacter(c)
  PROVE  StringInvariant'
<1>1. string_pc = "character" /\ digits = <<>> /\ digits' = digits /\ source' = <<c>>
  BY DEF BeginCharacter, StringInvariant, After, CloseQuote, AsciiByte, LeadingByte,
         BeginEscape, BadByte
<1>2. CASE CloseQuote(c)
  <2>1. string_pc' = "string"
    BY <1>2 DEF CloseQuote, After
  <2>2. QED
    BY <1>1, <2>1 DEF StringInvariant, RejectsNoCharacter
<1>3. CASE AsciiByte(c)
  <2>1. string_pc' = "character" /\ added' = <<c>> /\ c \in 32 .. 127 /\ c # Backslash
    BY <1>3 DEF AsciiByte, After
  <2>2. c \in Byte /\ c \in Ascii
    BY SMT, <2>1 DEF Byte, Ascii
  <2>3. PICK s : s = <<c>>
    OBVIOUS
  <2>4. s \in Seq(Byte) /\ Len(s) = 1 /\ s[1] = c
    BY <2>2, <2>3, Single
  <2>5. WellFormedUtf8(s)
    BY <2>2, <2>4, RangesAreExact
  <2>6. Decoded(s) = Denoted(s)
    BY <2>1, <2>4 DEF Denoted
  <2>7. Exact(s, s)
    BY <2>5, <2>6 DEF Exact
  <2>8. Exact(source', added')
    BY <1>1, <2>1, <2>3, <2>7
  <2>9. QED
    BY <1>1, <2>1, <2>8 DEF StringInvariant, RejectsNoCharacter
<1>4. CASE LeadingByte(c)
  <2>1. /\ string_pc' = "continuation" /\ added' = <<c>> /\ ranges' = RangesAfter(c)
        /\ c \in Leading
    BY <1>4 DEF LeadingByte, After, Leading
  <2>2. Continues(source', ranges')
    <3>1. Continues(<<c>>, RangesAfter(c))
      BY <2>1, FirstContinues
    <3>2. QED
      BY <1>1, <2>1, <3>1
  <2>3. added' = source'
    BY <1>1, <2>1
  <2>4. QED
    BY <1>1, <2>1, <2>2, <2>3 DEF StringInvariant, RejectsNoCharacter
<1>5. CASE BeginEscape(c)
  <2>1. string_pc' = "escape" /\ source' = <<Backslash>>
    BY <1>1, <1>5 DEF BeginEscape, After
  <2>2. QED
    BY <1>1, <2>1 DEF StringInvariant, RejectsNoCharacter
<1>6. CASE BadByte(c)
  <2>1. string_pc' = "error" /\ (c = EOF \/ c \in 0 .. 31 \cup 128 .. 193 \cup 245 .. 255)
    BY <1>6 DEF BadByte, After
  <2>2. PICK s : s = <<c>>
    OBVIOUS
  <2>3. CASE c = EOF
    <3>1. EOF \in Range(source')
      BY <1>1, <2>3, EofOnly
    <3>2. RejectsNoCharacter'
      BY <3>1 DEF RejectsNoCharacter
    <3>3. QED
      BY <1>1, <2>1, <3>2 DEF StringInvariant
  <2>4. CASE c # EOF
    <3>1. c \in Byte /\ c # Backslash /\ (c < 32 \/ c \notin Ascii \cup Leading)
      BY SMT, <2>1, <2>4 DEF Byte, Backslash, Ascii, Leading
    <3>2. s \in Seq(Byte) /\ Len(s) = 1 /\ s[1] = c
      BY <2>2, <3>1, Single
    <3>3. Len(s) >= 1
      BY SMT, <3>2
    <3>4. BeginsUtf8(s) => c \in Ascii \cup Leading
      <4>1. PICK rs : rs = RangesAfter(s[1])
        OBVIOUS
      <4>2. BeginsUtf8(s) => s[1] \in Ascii \cup Leading
        BY <3>2, <3>3, <4>1, BeginningInRanges
      <4>3. QED
        BY <3>2, <4>2
    <3>5. s[1] # Backslash /\ (~BeginsUtf8(s) \/ s[1] < 32)
      BY <3>1, <3>2, <3>4
    <3>6. RejectsNoCharacter'
      <4>1. source' = s
        BY <1>1, <2>2
      <4>2. QED
        BY <3>5, <4>1 DEF RejectsNoCharacter
    <3>7. QED
      BY <1>1, <2>1, <3>6 DEF StringInvariant
  <2>5. QED
    BY <2>3, <2>4
<1>7. QED
  BY <1>2, <1>3, <1>4, <1>5, <1>6 DEF BeginCharacter

\* A further byte.
LEMMA NextByteKeeps ==
  ASSUME StringInvariant, NEW c \in Byte \cup {EOF}, next_byte_in_range(c)
  PROVE  StringInvariant'
<1>1. /\ string_pc = "continuation" /\ digits = <<>> /\ digits' = digits
      /\ Continues(source, ranges) /\ added = source
      /\ source' = Append(source, c)
  BY DEF next_byte_in_range, StringInvariant, After
<1>2. source \in Seq(Byte)
  BY <1>1 DEF Continues
<1>3. PICK s, rs, t : s = source /\ rs = ranges /\ t = Append(source, c)
  OBVIOUS
<1>4. Continues(s, rs) /\ t = Append(s, c)
  BY <1>1, <1>3
<1>5. CASE c # EOF /\ c \in Head(ranges)[1] .. Head(ranges)[2]
  <2>1. /\ added' = t /\ ranges' = Tail(rs)
        /\ string_pc' = IF Len(rs) = 1 THEN "character" ELSE "continuation"
    BY <1>1, <1>3, <1>5 DEF next_byte_in_range, After
  <2>0. c \in Byte /\ c \in Head(rs)[1] .. Head(rs)[2]
    BY <1>3, <1>5
  <2>2. /\ t \in Seq(Byte) /\ t[1] = s[1] /\ s[1] \in Leading
        /\ Len(rs) = 1 => WellFormedUtf8(t)
        /\ Len(rs) # 1 => Continues(t, Tail(rs))
    BY <1>4, <2>0, NextContinues
  <2>3. t[1] # Backslash
    BY <2>2, LeadingIsNoBackslash
  <2>4. CASE Len(rs) = 1
    <3>1. Exact(t, t)
      BY <2>2, <2>3, <2>4 DEF Exact, Denoted
    <3>2. Exact(source', added')
      BY <1>1, <1>3, <2>1, <3>1
    <3>3. string_pc' = "character"
      BY <2>1, <2>4
    <3>4. QED
      BY <1>1, <3>2, <3>3 DEF StringInvariant, RejectsNoCharacter
  <2>5. CASE Len(rs) # 1
    <3>1. Continues(source', ranges') /\ added' = source'
      BY <1>1, <1>3, <2>1, <2>2, <2>5
    <3>2. string_pc' = "continuation"
      BY <2>1, <2>5
    <3>3. QED
      BY <1>1, <3>1, <3>2 DEF StringInvariant, RejectsNoCharacter
  <2>6. QED
    BY <2>4, <2>5
<1>6. CASE ~(c # EOF /\ c \in Head(ranges)[1] .. Head(ranges)[2])
  <2>1. string_pc' = "error"
    BY <1>6 DEF next_byte_in_range, After
  <2>2. CASE c = EOF
    <3>1. EOF \in Range(t)
      BY <1>2, <1>3, <2>2, Extended
    <3>2. RejectsNoCharacter'
      BY <1>1, <1>3, <3>1 DEF RejectsNoCharacter
    <3>3. QED
      BY <1>1, <2>1, <3>2 DEF StringInvariant
  <2>3. CASE c # EOF
    <3>1. c \in Byte /\ c \notin Head(rs)[1] .. Head(rs)[2]
      BY <1>3, <1>6, <2>3
    <3>2. ~BeginsUtf8(t)
      BY <1>4, <3>1, OutOfRange
    <3>3. t[1] # Backslash
      <4>1. s \in Seq(Byte) /\ Len(s) >= 1 /\ s[1] \in Leading
        BY <1>4 DEF Continues
      <4>2. Len(s) \in Nat
        BY <4>1, LenProperties
      <4>3. 1 \in 1 .. Len(s)
        BY SMT, <4>1, <4>2
      <4>4. t[1] = s[1]
        BY <1>4, <4>1, <4>3, Extended
      <4>5. QED
        BY <4>1, <4>4, LeadingIsNoBackslash
    <3>4. RejectsNoCharacter'
      <4>1. source' = t
        BY <1>1, <1>3
      <4>2. QED
        BY <3>2, <3>3, <4>1 DEF RejectsNoCharacter
    <3>5. QED
      BY <1>1, <2>1, <3>4 DEF StringInvariant
  <2>4. QED
    BY <2>2, <2>3
<1>7. QED
  BY <1>5, <1>6

\* One more character of an escape.
LEMMA EscapeExtended ==
  ASSUME NEW s, EscapeBegun(s), Len(s) >= 1, NEW c
  PROVE  /\ Append(s, c)[1] = Backslash
         /\ Len(Append(s, c)) = Len(s) + 1 /\ Len(s) \in Nat
         /\ Append(s, c)[Len(s) + 1] = c
         /\ Last(Append(s, c)) = c
         /\ c \in Byte => EscapeBegun(Append(s, c))
         /\ c = EOF => EOF \in Range(Append(s, c))
<1>1. s \in Seq(Byte) /\ s[1] = Backslash
  BY DEF EscapeBegun
<1>2. Len(s) \in Nat
  BY <1>1, LenProperties
<1>3. 1 \in 1 .. Len(s)
  BY SMT, <1>2
<1>4. Append(s, c)[1] = Backslash
  BY <1>1, <1>3, Extended
<1>5. QED
  BY <1>1, <1>2, <1>4, Extended DEF EscapeBegun

\* The backslash alone.
LEMMA EscapeBegins ==
  EscapeBegun(<<Backslash>>) /\ Len(<<Backslash>>) = 1 /\ Len(<<Backslash>>) >= 1
<1>1. Backslash \in Byte
  BY SMT DEF Byte, Backslash
<1>2. <<Backslash>> \in Seq(Byte) /\ Len(<<Backslash>>) = 1 /\ <<Backslash>>[1] = Backslash
  BY <1>1, Single
<1>3. 1 >= 1
  BY SMT
<1>4. QED
  BY <1>2, <1>3 DEF EscapeBegun

\* The character after the backslash.
LEMMA SimpleKeeps ==
  ASSUME StringInvariant, NEW c \in Byte \cup {EOF}, SimpleEscape(c)
  PROVE  StringInvariant'
<1>1. /\ string_pc = "escape" /\ digits = <<>> /\ digits' = digits
      /\ source = <<Backslash>> /\ source' = Append(source, c)
      /\ string_pc' = IF Simple(c) = -1 THEN "error" ELSE "character"
  BY DEF SimpleEscape, StringInvariant, After
<1>2. PICK t : t = Append(<<Backslash>>, c)
  OBVIOUS
<1>3. /\ t[1] = Backslash /\ Len(t) = 1 + 1 /\ t[1 + 1] = c
      /\ c = EOF => EOF \in Range(t)
  BY <1>2, EscapeBegins, EscapeExtended
<1>4. Len(t) = 2 /\ t[2] = c
  <2>1. 1 + 1 = 2
    BY SMT
  <2>2. QED
    BY <1>3, <2>1
<1>5. source' = t
  BY <1>1, <1>2
<1>6. CASE Simple(c) = -1
  <2>1. string_pc' = "error"
    BY <1>1, <1>6
  <2>2. RejectsNoCharacter'
    BY <1>3, <1>4, <1>5, <1>6 DEF RejectsNoCharacter
  <2>3. QED
    BY <1>1, <2>1, <2>2 DEF StringInvariant
<1>7. CASE Simple(c) # -1
  <2>1. string_pc' = "character" /\ added' = <<Simple(c)>>
    BY <1>1, <1>7 DEF SimpleEscape
  <2>2. Simple(c) \in Ascii
    BY <1>7, SimpleTyped
  <2>3. Simple(c) \in Byte
    BY SMT, <2>2 DEF Byte, Ascii
  <2>4. PICK a : a = <<Simple(c)>>
    OBVIOUS
  <2>5. a \in Seq(Byte) /\ Len(a) = 1 /\ a[1] = Simple(c)
    BY <2>3, <2>4, Single
  <2>6. WellFormedUtf8(a) /\ Decoded(a) = Simple(c)
    BY <2>2, <2>5, OneByte DEF Shape1, Value1
  <2>7. Denoted(t) = Simple(c)
    BY <1>3, <1>4 DEF Denoted
  <2>8. Exact(source', added')
    BY <1>3, <1>5, <2>1, <2>4, <2>6, <2>7 DEF Exact
  <2>9. QED
    BY <1>1, <2>1, <2>8 DEF StringInvariant, RejectsNoCharacter
<1>8. QED
  BY <1>6, <1>7

\* The u after the backslash.
LEMMA UnicodeKeeps ==
  ASSUME StringInvariant, NEW c \in Byte \cup {EOF}, BeginUnicode(c)
  PROVE  StringInvariant'
<1>1. /\ string_pc = "escape" /\ digits = <<>> /\ digits' = digits
      /\ source = <<Backslash>> /\ source' = Append(source, c)
      /\ string_pc' = "first" /\ c = 117
  BY DEF BeginUnicode, StringInvariant, After
<1>2. c \in Byte
  BY SMT, <1>1 DEF Byte
<1>3. EscapeBegun(source') /\ Len(source') = 1 + 1
  BY <1>1, <1>2, EscapeBegins, EscapeExtended
<1>4. DigitsOf(source', digits', 3) /\ Len(digits') <= 3
  <2>1. Len(<<>>) = 0 /\ <<>> \in Seq(0 .. 15)
    OBVIOUS
  <2>2. 1 + 1 = 3 - 1 + 0 /\ 0 <= 3 /\ 1 .. 0 = {}
    BY SMT
  <2>3. digits' = <<>>
    BY <1>1
  <2>4. DigitsOf(source', <<>>, 3)
    BY <1>3, <2>1, <2>2 DEF DigitsOf
  <2>5. QED
    BY <2>1, <2>2, <2>3, <2>4
<1>5. QED
  BY <1>1, <1>3, <1>4 DEF StringInvariant, RejectsNoCharacter

\* Between the halves of a surrogate pair.
LEMMA PairKeeps ==
  ASSUME StringInvariant, NEW c \in Byte \cup {EOF}, ReadPair(c)
  PROVE  StringInvariant'
<1> DEFINE s == source
           t == Append(source, c)
           n == codepoint1
<1>1. /\ source' = t /\ digits = <<>> /\ digits' = digits /\ codepoint1' = n
      /\ string_pc \in {"pair", "pairU"}
      /\ EscapeBegun(s) /\ HighRead(s, n)
      /\ string_pc = "pair" => Len(s) = 6
      /\ string_pc = "pairU" => Len(s) = 7
  BY DEF ReadPair, StringInvariant, After
<1>2. /\ string_pc = "pair" /\ c = Backslash => string_pc' = "pairU"
      /\ string_pc = "pairU" /\ c = 117 => string_pc' = "second"
      /\ string_pc = "pair" /\ c # Backslash => string_pc' = "error"
      /\ string_pc = "pairU" /\ c # 117 => string_pc' = "error"
  BY Zenon DEF ReadPair, After
<1>3. Len(s) >= 6 /\ IsHigh(n) /\ n \in Nat /\ HexValue(s, 3) = n
  BY <1>1 DEF HighRead
<1>4. Len(s) \in {6, 7} /\ Len(s) >= 1
  BY SMT, <1>1, <1>3
<1>5. /\ t[1] = Backslash /\ Len(t) = Len(s) + 1 /\ Len(s) \in Nat
      /\ c \in Byte => EscapeBegun(t)
      /\ c = EOF => EOF \in Range(t)
  BY <1>1, <1>4, EscapeExtended
<1>6. HexValue(t, 3) = n
  BY <1>1, <1>3, HexValueKept DEF EscapeBegun
<1> HIDE DEF s, t, n
<1>7. Len(t) > 6 /\ Len(t) >= 6 /\ Len(t) # 2 /\ Len(t) # 12
  <2>1. Len(t) = 6 + 1 \/ Len(t) = 7 + 1
    BY <1>4, <1>5
  <2>2. PICK m : m = Len(t)
    OBVIOUS
  <2>3. m = 6 + 1 \/ m = 7 + 1
    BY <2>1, <2>2
  <2>4. m > 6 /\ m >= 6 /\ m # 2 /\ m # 12
    BY SMT, <2>3
  <2>5. QED
    BY <2>2, <2>4
<1>8. HighRead(t, n)
  BY <1>3, <1>6, <1>7 DEF HighRead
<1>9. CASE string_pc = "pair" /\ c = Backslash
  <2>1. string_pc' = "pairU"
    BY <1>2, <1>9
  <2>2. c \in Byte
    BY SMT, <1>9 DEF Byte, Backslash
  <2>3. Len(t) = 7
    <3>1. Len(t) = 6 + 1
      BY <1>1, <1>5, <1>9
    <3>2. 6 + 1 = 7
      BY SMT
    <3>3. QED
      BY <3>1, <3>2
  <2>4. QED
    BY <1>1, <1>5, <1>8, <2>1, <2>2, <2>3 DEF StringInvariant, RejectsNoCharacter
<1>10. CASE string_pc = "pairU" /\ c = 117
  <2>1. string_pc' = "second"
    BY <1>2, <1>10
  <2>2. c \in Byte
    BY SMT, <1>10 DEF Byte
  <2>3. Len(t) = 8
    <3>1. Len(s) = 7
      BY <1>1, <1>10
    <3>2. QED
      BY SMT, <1>5, <3>1
  <2>4. DigitsOf(source', digits', 9) /\ Len(digits') <= 3
    <3>1. Len(<<>>) = 0 /\ <<>> \in Seq(0 .. 15)
      OBVIOUS
    <3>2. 8 = 9 - 1 + 0 /\ 0 <= 3 /\ 1 .. 0 = {}
      BY SMT
    <3>3. digits' = <<>> /\ source' = t
      BY <1>1
    <3>4. DigitsOf(t, <<>>, 9)
      BY <2>3, <3>1, <3>2 DEF DigitsOf
    <3>5. QED
      BY <3>1, <3>2, <3>3, <3>4
  <2>5. QED
    BY <1>1, <1>5, <1>8, <2>1, <2>2, <2>4 DEF StringInvariant, RejectsNoCharacter
<1>11. CASE string_pc' = "error"
  <2>1. RejectsNoCharacter'
    BY <1>1, <1>3, <1>5, <1>6, <1>7 DEF RejectsNoCharacter
  <2>2. QED
    BY <1>11, <2>1 DEF StringInvariant
<1>12. QED
  BY <1>1, <1>2, <1>9, <1>10, <1>11

\* What an escape stands for, by its length.
LEMMA DenotedByEscape ==
  ASSUME NEW b, b[1] = Backslash
  PROVE  /\ Len(b) = 6 => Denoted(b) = HexValue(b, 3)
         /\ Len(b) = 12 =>
              Denoted(b) = 65536 + 1024 * (HexValue(b, 3) % 1024) + (HexValue(b, 9) % 1024)
<1>0. PICK v : v = 65536 + 1024 * (HexValue(b, 3) % 1024) + (HexValue(b, 9) % 1024)
  OBVIOUS
<1>1. PICK m, x, u : m = Len(b) /\ x = Simple(b[2]) /\ u = HexValue(b, 3)
  OBVIOUS
<1>2. Denoted(b) = CASE m = 2 -> x [] m = 6 -> u [] m = 12 -> v
  BY <1>0, <1>1 DEF Denoted
<1>3. m = 6 => (CASE m = 2 -> x [] m = 6 -> u [] m = 12 -> v) = u
  BY SMT
<1>4. m = 12 => (CASE m = 2 -> x [] m = 6 -> u [] m = 12 -> v) = v
  BY SMT
<1>5. Len(b) = 6 => Denoted(b) = HexValue(b, 3)
  BY <1>1, <1>2, <1>3
<1>6. Len(b) = 12 => Denoted(b) = v
  BY <1>1, <1>2, <1>4
<1>7. QED
  BY <1>0, <1>5, <1>6

\* A digit of an escape.
LEMMA DigitKeeps ==
  ASSUME StringInvariant, NEW c \in Byte \cup {EOF}, ReadUnicode(c)
  PROVE  StringInvariant'
<1> DEFINE s == source
           t == Append(source, c)
           n == codepoint1
           i == IF string_pc = "first" THEN 3 ELSE 9
<1>1. /\ source' = t
      /\ string_pc \in {"first", "second"}
      /\ EscapeBegun(s) /\ DigitsOf(s, digits, i) /\ Len(digits) <= 3
      /\ string_pc = "second" => HighRead(s, n)
      /\ i \in {3, 9} /\ (string_pc = "first" <=> i = 3)
  <2>1. source' = t
    BY DEF ReadUnicode, ReadDigit, FinishEscape, AddCodePoint, HighSurrogate,
           BadEscape, After
  <2>2. 3 # 9
    BY SMT
  <2>3. CASE string_pc = "first"
    BY <2>1, <2>2, <2>3 DEF StringInvariant
  <2>4. CASE string_pc = "second"
    BY <2>1, <2>2, <2>4 DEF StringInvariant
  <2>5. QED
    BY <2>3, <2>4 DEF ReadUnicode
<1>2. s \in Seq(Byte) /\ s[1] = Backslash /\ digits \in Seq(0 .. 15)
  BY <1>1 DEF EscapeBegun, DigitsOf
<1>3. Len(digits) \in Nat /\ Len(s) \in Nat
  BY <1>2, LenProperties
<1>4. Len(s) = i - 1 + Len(digits)
  BY <1>1 DEF DigitsOf
<1> HIDE DEF i
<1>5. Len(s) >= 1 /\ Len(s) >= 2 /\ (i = 9 => Len(s) >= 8) /\ Len(s) # 1
  BY SMT, <1>1, <1>3, <1>4
<1>6. /\ t[1] = Backslash /\ Len(t) = Len(s) + 1 /\ Last(t) = c
      /\ c \in Byte => EscapeBegun(t)
      /\ c = EOF => EOF \in Range(t)
  BY <1>1, <1>5, EscapeExtended
<1>7. string_pc = "second" => HexValue(t, 3) = n /\ HighRead(t, n)
  <2>1. ASSUME string_pc = "second"
        PROVE  HexValue(t, 3) = n /\ HighRead(t, n)
    <3>1. Len(s) >= 6 /\ IsHigh(n) /\ n \in Nat /\ HexValue(s, 3) = n
      BY <1>1, <2>1 DEF HighRead
    <3>2. HexValue(t, 3) = n
      BY <1>2, <3>1, HexValueKept
    <3>3. Len(t) >= 6
      <4>1. Len(t) = Len(s) + 1
        BY <1>6
      <4> HIDE DEF t, s
      <4>2. QED
        BY SMT, <1>3, <3>1, <4>1
    <3>4. QED
      BY <3>1, <3>2, <3>3 DEF HighRead
  <2>2. QED
    BY <2>1
<1>8. ASSUME HexDigit(c) # -1
      PROVE  /\ c \in Byte /\ HexDigit(c) \in 0 .. 15
             /\ EscapeBegun(t)
  BY <1>6, <1>8, HexDigitTyped
<1>9. ASSUME Fourth(c)
      PROVE  /\ Len(t) = i + 3 /\ HexValue(t, i) = Value(c)
             /\ Value(c) \in Nat /\ Value(c) < 65536
  <2>1. Len(digits) = 3 /\ HexDigit(c) # -1
    BY <1>9 DEF Fourth
  <2>2. c \in Byte /\ HexDigit(c) \in 0 .. 15
    BY <1>8, <2>1
  <2>3. /\ HexValue(t, i) = CodePoint(Append(digits, HexDigit(c)))
        /\ HexValue(t, i) \in Nat /\ HexValue(t, i) < 65536
    BY <1>1, <1>2, <2>1, <2>2, FourthDigit
  <2>4. Len(t) = i + 3
    <3>1. Len(t) = (i - 1 + 3) + 1
      BY <1>4, <1>6, <2>1
    <3>2. (i - 1 + 3) + 1 = i + 3
      BY SMT, <1>1
    <3>3. QED
      BY <3>1, <3>2
  <2>5. QED
    BY <2>3, <2>4 DEF Value
<1> HIDE DEF s, t, n
<1>10. CASE ReadDigit(c)
  <2>1. /\ HexDigit(c) # -1 /\ Len(digits) # 3 /\ string_pc' = string_pc
        /\ digits' = Append(digits, HexDigit(c)) /\ codepoint1' = n
    BY <1>10 DEF ReadDigit, Fourth, After, n
  <2>2. DigitsOf(t, digits', i)
    <3>1. DigitsOf(Append(s, c), Append(digits, HexDigit(c)), i)
      BY <1>1, <1>2, <1>8, <2>1, NextDigit
    <3>2. QED
      BY <2>1, <3>1 DEF t, s
  <2>3. Len(digits') <= 3
    <3>1. Len(digits') = Len(digits) + 1
      BY <1>2, <1>8, <2>1, AppendProperties
    <3>2. PICK m \in Nat : m = Len(digits)
      BY <1>3
    <3>3. m <= 3 /\ m # 3
      BY <1>1, <2>1, <3>2
    <3>4. m + 1 <= 3
      BY SMT, <3>3
    <3>5. QED
      BY <3>1, <3>2, <3>4
  <2>4. CASE string_pc = "first"
    <3>1. i = 3 /\ string_pc' = "first" /\ EscapeBegun(t)
      BY <1>1, <1>8, <2>1, <2>4
    <3>2. QED
      BY <1>1, <2>2, <2>3, <3>1 DEF StringInvariant, RejectsNoCharacter
  <2>5. CASE string_pc = "second"
    <3>1. i = 9 /\ string_pc' = "second" /\ EscapeBegun(t) /\ HighRead(t, codepoint1')
      BY <1>1, <1>7, <1>8, <2>1, <2>5 DEF i
    <3>2. QED
      BY <1>1, <2>2, <2>3, <3>1 DEF StringInvariant, RejectsNoCharacter
  <2>6. QED
    BY <1>1, <2>4, <2>5
<1>11. CASE FinishEscape(c)
  <2>1. Fourth(c) /\ string_pc' = "character" /\ digits' = <<>>
    BY <1>11 DEF FinishEscape, AddCodePoint, After
  <2>2. SUFFICES Exact(t, added')
    BY <1>1, <2>1 DEF StringInvariant, RejectsNoCharacter
  <2>3. CASE string_pc = "first"
    <3>1. ~IsHigh(Value(c)) /\ ~IsLow(Value(c)) /\ added' = Utf8(Value(c))
      BY <1>11, <2>3 DEF FinishEscape, AddCodePoint
    <3>2. /\ Value(c) \in Nat /\ Value(c) < 65536
          /\ Len(t) = 3 + 3 /\ HexValue(t, 3) = Value(c)
      BY <1>1, <1>9, <2>1, <2>3
    <3>3. IsScalarValue(Value(c))
      <4>1. PICK v : v = Value(c)
        OBVIOUS
      <4>2. v \in Nat /\ v < 65536
        BY <3>2, <4>1
      <4>3. v < 17 * 65536
        BY SMT, <4>2
      <4>4. QED
        BY <3>1, <4>1, <4>2, <4>3 DEF IsScalarValue
    <3>4. WellFormedUtf8(added') /\ Decoded(added') = Value(c)
      BY <3>1, <3>2, <3>3, Utf8Exact
    <3>5. Denoted(t) = Value(c)
      <4>1. 3 + 3 = 6
        BY SMT
      <4>2. Len(t) = 6
        BY <3>2, <4>1
      <4>3. QED
        BY <1>6, <3>2, <4>2, DenotedByEscape
    <3>6. QED
      BY <1>6, <3>4, <3>5 DEF Exact
  <2>4. CASE string_pc = "second"
    <3>1. IsLow(Value(c)) /\ added' = Utf8(Joined(n, Value(c)))
      BY <1>11, <2>4 DEF FinishEscape, AddCodePoint, n
    <3>2. Value(c) \in Nat /\ Len(t) = 9 + 3 /\ HexValue(t, 9) = Value(c)
      BY <1>1, <1>9, <2>1, <2>4 DEF i
    <3>3. IsHigh(n) /\ n \in Nat /\ HexValue(t, 3) = n
      BY <1>7, <2>4 DEF HighRead
    <3>4. /\ Joined(n, Value(c)) = 65536 + 1024 * (n % 1024) + (Value(c) % 1024)
          /\ Joined(n, Value(c)) \in Nat /\ IsScalarValue(Joined(n, Value(c)))
      BY <3>1, <3>2, <3>3, JoinedExact
    <3>5. WellFormedUtf8(added') /\ Decoded(added') = Joined(n, Value(c))
      BY <3>1, <3>4, Utf8Exact
    <3>6. Denoted(t) = Joined(n, Value(c))
      <4>1. 9 + 3 = 12
        BY SMT
      <4>2. Len(t) = 12
        BY <3>2, <4>1
      <4>3. QED
        BY <1>6, <3>2, <3>3, <3>4, <4>2, DenotedByEscape
    <3>7. QED
      BY <1>6, <3>5, <3>6 DEF Exact
  <2>5. QED
    BY <1>1, <2>3, <2>4
<1>12. CASE HighSurrogate(c)
  <2>1. /\ Fourth(c) /\ string_pc = "first" /\ IsHigh(Value(c)) /\ string_pc' = "pair"
        /\ codepoint1' = Value(c) /\ digits' = <<>>
    BY <1>12 DEF HighSurrogate, After
  <2>2. Len(t) = 3 + 3 /\ Value(c) \in Nat /\ HexValue(t, 3) = Value(c)
    BY <1>1, <1>9, <2>1
  <2>3. 3 + 3 = 6 /\ 6 >= 6
    BY SMT
  <2>4. HighRead(t, Value(c)) /\ Len(t) = 6
    BY <2>1, <2>2, <2>3 DEF HighRead
  <2>5. EscapeBegun(t)
    BY <1>8, <2>1 DEF Fourth
  <2>6. QED
    BY <1>1, <2>1, <2>4, <2>5 DEF StringInvariant, RejectsNoCharacter
<1>13. CASE BadEscape(c)
  <2>1. /\ string_pc' = "error"
        /\ \/ HexDigit(c) = -1
           \/ Fourth(c) /\ (IsLow(Value(c)) <=> string_pc = "first")
    BY <1>13 DEF BadEscape, After
  <2>2. Len(t) # 2
    <3>1. Len(t) = Len(s) + 1
      BY <1>6
    <3>2. QED
      BY SMT, <1>3, <1>5, <3>1
  <2>3. RejectsNoCharacter'
    <3>1. CASE HexDigit(c) = -1
      BY <1>1, <1>6, <2>2, <3>1 DEF RejectsNoCharacter
    <3>2. CASE Fourth(c) /\ string_pc = "first" /\ IsLow(Value(c))
      <4>1. Len(t) = 3 + 3 /\ HexValue(t, 3) = Value(c)
        BY <1>1, <1>9, <3>2
      <4>2. 3 + 3 = 6
        BY SMT
      <4>3. QED
        BY <1>1, <1>6, <2>2, <3>2, <4>1, <4>2 DEF RejectsNoCharacter
    <3>3. CASE Fourth(c) /\ string_pc = "second" /\ ~IsLow(Value(c))
      <4>1. Len(t) = 9 + 3 /\ HexValue(t, 9) = Value(c)
        BY <1>1, <1>9, <3>3 DEF i
      <4>2. 9 + 3 > 6
        BY SMT
      <4>3. IsHigh(HexValue(t, 3))
        BY <1>7, <3>3 DEF HighRead
      <4>4. QED
        BY <1>1, <1>6, <2>2, <3>3, <4>1, <4>2, <4>3 DEF RejectsNoCharacter
    <3>4. QED
      BY <1>1, <2>1, <3>1, <3>2, <3>3
  <2>4. QED
    BY <2>1, <2>3 DEF StringInvariant
<1>14. QED
  BY <1>10, <1>11, <1>12, <1>13 DEF ReadUnicode

\* A step of scan_string.
LEMMA StringStep ==
  ASSUME StringInvariant, scan_string
  PROVE  StringInvariant'
<1>1. Bytes \subseteq Byte /\ HexBytes \subseteq Byte
  BY JsonStringAssumption DEF Byte
<1>2. ASSUME NEW c \in Bytes \cup {EOF},
             \/ BeginCharacter(c) \/ next_byte_in_range(c)
             \/ SimpleEscape(c) \/ BeginUnicode(c) \/ ReadPair(c)
      PROVE  StringInvariant'
  <2>1. c \in Byte \cup {EOF}
    BY <1>1
  <2>2. QED
    BY <1>2, <2>1, FirstByteKeeps, NextByteKeeps, SimpleKeeps, UnicodeKeeps, PairKeeps
<1>3. ASSUME NEW c \in HexBytes \cup {EOF}, ReadUnicode(c)
      PROVE  StringInvariant'
  <2>1. c \in Byte \cup {EOF}
    BY <1>1
  <2>2. QED
    BY <1>3, <2>1, DigitKeeps
<1>4. QED
  BY <1>2, <1>3 DEF scan_string

\* StringInvariant holds throughout a scan: in a sequence of UTF-8 the ranges still to
\* check are the rest of the table, in an escape the digits and the first surrogate are
\* those of the source (scan_string, get_codepoint and next_byte_in_range, json.hpp).
THEOREM StringInvariantHolds == LexerSpec => []StringInvariant
<1>1. LexerInit => StringInvariant
  BY StringInitially DEF LexerInit
<1>2. StringInvariant /\ [LexerNext]_lexerVars => StringInvariant'
  <2>1. SUFFICES ASSUME StringInvariant, [LexerNext]_lexerVars
                 PROVE  StringInvariant'
    OBVIOUS
  <2>2. ASSUME UNCHANGED stringVars
        PROVE  StringInvariant'
    BY <2>1, <2>2 DEF stringVars, StringInvariant, RejectsNoCharacter
  <2>3. CASE UNCHANGED lexerVars
    BY <2>2, <2>3 DEF lexerVars
  <2>4. CASE ScanString
    BY <2>1, <2>4, StringStep DEF ScanString
  <2>5. CASE EndString
    BY <2>2, <2>5, StringResets DEF EndString
  <2>6. CASE EndOfText
    BY <2>2, <2>6 DEF EndOfText, lexerVars
  <2>7. CASE \E c \in Characters \cup {EOF} :
               /\ \/ SkipBom(c) \/ FinishBom(c) \/ SkipBlank(c) \/ ScanCharacter(c)
                  \/ ScanEnd(c) \/ ScanGarbage(c) \/ BeginLiteral(c) \/ ScanLiteral(c)
                  \/ BeginNumber(c) \/ ScanNumber(c)
               /\ UNCHANGED stringVars
    BY <2>2, <2>7
  <2>8. QED
    BY <2>1, <2>3, <2>4, <2>5, <2>6, <2>7 DEF LexerNext
<1>3. QED
  BY <1>1, <1>2, PTL DEF LexerSpec

\* The strings are exactly those of JSON: what is kept is the UTF-8 of the character
\* that the source denotes, a raw character or an escape, and only what denotes no
\* character is rejected (scan_string, json.hpp).
THEOREM StringsAreExactHolds == LexerSpec => []StringsAreExact
<1>1. StringInvariant => StringsAreExact
  BY DEF StringInvariant, StringsAreExact, TokenIsUtf8, Exact
<1>2. QED
  BY <1>1, StringInvariantHolds, PTL
-----------------------------------------------------------------------------
(***************************************************************************)
(* The grammar: what is derived is the least set that its rules close.     *)
(***************************************************************************)

\* What follows from the phrases R is in R.
Closed(ts, T, R) == Consequences(ts, T, R) \subseteq R

\* f[k] are the phrases that k rounds derive.
Rounds(ts, f, T, N) ==
  f = [k \in 0 .. N |-> IF k = 0 THEN {} ELSE Round(ts, T, f[k - 1])]

LEMMA RoundsExist ==
  ASSUME NEW ts, NEW T, NEW N \in Nat
  PROVE  \E f : Rounds(ts, f, T, N)
<1> DEFINE Def(f, m) == Rounds(ts, f, T, m)
           S == {m \in Nat : ~ \E f : Def(f, m)}
<1>1. SUFFICES ASSUME S # {} PROVE FALSE
  BY <1>1
<1>0. S \in SUBSET Nat /\ \A m : m \in S <=> m \in Nat /\ ~ \E f : Def(f, m)
  OBVIOUS
<1> HIDE DEF S
<1>2. PICK m \in S : \A k \in S : m <= k
  BY <1>0, <1>1, LeastElement
<1>3. m # 0
  <2>1. Def([k \in 0 .. 0 |-> {}], 0)
    BY DEF Rounds
  <2>2. QED
    BY <2>1, <1>0, <1>2
<1>4. m \in Nat /\ m - 1 \in Nat /\ m - 1 \notin S
  BY <1>0, <1>2, <1>3
<1>5. PICK f : Def(f, m - 1)
  <2> HIDE DEF Def
  <2>1. QED
    BY <1>0, <1>4
<1> DEFINE g == [k \in 0 .. m |-> IF k = m THEN Round(ts, T, f[m - 1]) ELSE f[k]]
<1>6. ASSUME NEW k \in 0 .. m
      PROVE  g[k] = IF k = 0 THEN {} ELSE Round(ts, T, g[k - 1])
  <2>1. CASE k = 0
    BY <2>1, <1>3, <1>4, <1>5 DEF Rounds
  <2>2. CASE k # 0
    <3>1. k - 1 \in 0 .. m - 1 /\ k - 1 # m /\ k - 1 \in 0 .. m
      BY <2>2, <1>4
    <3>2. g[k - 1] = f[k - 1]
      BY <3>1
    <3>3. CASE k = m
      BY <3>2, <3>3, <2>2
    <3>4. CASE k # m
      <4>1. k \in 0 .. m - 1
        BY <3>4, <1>4
      <4>2. g[k] = f[k] /\ f[k] = Round(ts, T, f[k - 1])
        BY <4>1, <3>4, <2>2, <1>5 DEF Rounds
      <4>3. QED
        BY <4>2, <3>2, <2>2
    <3>5. QED
      BY <3>3, <3>4
  <2>3. QED
    BY <2>1, <2>2
<1>7. Def(g, m)
  BY <1>6 DEF Rounds
<1> HIDE DEF g, Def
<1>8. QED
  BY <1>0, <1>2, <1>7

LEMMA PhrasesRounds ==
  ASSUME NEW ts, NEW T, Len(ts) \in Nat
  PROVE  \E f : Rounds(ts, f, T, Len(ts) + 1) /\ Phrases(ts, T) = f[Len(ts) + 1]
<1> DEFINE N == Len(ts) + 1
           Def(f) == f = [k \in 0 .. N |-> IF k = 0 THEN {} ELSE Round(ts, T, f[k - 1])]
<1>1. \E f : Rounds(ts, f, T, N)
  <2>1. N \in Nat
    OBVIOUS
  <2> HIDE DEF N
  <2>2. QED
    BY <2>1, RoundsExist
<1>2. Phrases(ts, T) = (CHOOSE f : Def(f))[N]
  BY DEF Phrases
<1>3. \A f : Def(f) <=> Rounds(ts, f, T, N)
  BY DEF Rounds
<1> HIDE DEF Def, N
<1>4. Def(CHOOSE f : Def(f))
  BY <1>1, <1>3
<1>5. QED
  BY <1>2, <1>3, <1>4 DEF N

LEMMA ConsequencesGrow ==
  ASSUME NEW ts, NEW T, NEW C, NEW D, C \subseteq D
  PROVE  Consequences(ts, T, C) \subseteq Consequences(ts, T, D)
<1>1. \A k : Kind(C, k) \subseteq Kind(D, k)
  BY DEF Kind
<1>2. ArrayTexts(ts, T, C) \subseteq ArrayTexts(ts, T, D)
  BY <1>1 DEF ArrayTexts
<1>7. ObjectTexts(ts, T, C) \subseteq ObjectTexts(ts, T, D)
  BY <1>1 DEF ObjectTexts
<1>3. OneElement(C) \subseteq OneElement(D)
  BY <1>1 DEF OneElement
<1>4. OneMember(ts, C) \subseteq OneMember(ts, D)
  BY <1>1 DEF OneMember
<1>5. MoreElements(ts, C) \subseteq MoreElements(ts, D)
  BY <1>1 DEF MoreElements
<1>6. MoreMembers(ts, C) \subseteq MoreMembers(ts, D)
  BY <1>1 DEF MoreMembers
<1>8. QED
  BY <1>2, <1>3, <1>4, <1>5, <1>6, <1>7 DEF Consequences

LEMMA RoundsGrow ==
  ASSUME NEW ts, NEW T, NEW N \in Nat, NEW f, Rounds(ts, f, T, N)
  PROVE  /\ f[0] = {}
         /\ \A k \in 1 .. N : f[k] = Round(ts, T, f[k - 1])
         /\ \A l \in 0 .. N : \A k \in 0 .. l : f[k] \subseteq f[l]
<1>1. f[0] = {} /\ \A k \in 1 .. N : f[k] = Round(ts, T, f[k - 1])
  <2>1. \A k \in 0 .. N : f[k] = IF k = 0 THEN {} ELSE Round(ts, T, f[k - 1])
    BY DEF Rounds
  <2>2. QED
    BY <2>1
<1> DEFINE S == {l \in 0 .. N : \E k \in 0 .. l : ~ (f[k] \subseteq f[l])}
<1>2. SUFFICES ASSUME S # {} PROVE FALSE
  BY <1>1, <1>2
<1>3. PICK l \in S : \A m \in S : l <= m
  <2>1. S \in SUBSET Nat
    OBVIOUS
  <2> HIDE DEF S
  <2>2. QED
    BY <2>1, <1>2, LeastElement
<1>4. PICK k \in 0 .. l : ~ (f[k] \subseteq f[l])
  BY <1>3
<1>5. l \in 1 .. N /\ k \in 0 .. l - 1 /\ l - 1 \in 0 .. N /\ l - 1 \notin S
  <2>1. l \in 0 .. N /\ k # l
    BY <1>3, <1>4
  <2>2. QED
    BY <2>1, <1>3, <1>4
<1>6. f[k] \subseteq f[l - 1]
  BY <1>5
<1>7. f[l - 1] \subseteq f[l]
  BY <1>1, <1>5 DEF Round
<1>8. QED
  BY <1>4, <1>6, <1>7

\* What is derived is in every set that the rules close.
LEMMA RoundsLeast ==
  ASSUME NEW ts, NEW T, NEW N \in Nat, NEW f, Rounds(ts, f, T, N), NEW R, Closed(ts, T, R)
  PROVE  \A k \in 0 .. N : f[k] \subseteq R
<1> DEFINE S == {k \in 0 .. N : ~ (f[k] \subseteq R)}
<1>1. SUFFICES ASSUME S # {} PROVE FALSE
  BY <1>1
<1>2. PICK k \in S : \A m \in S : k <= m
  <2>1. S \in SUBSET Nat
    OBVIOUS
  <2> HIDE DEF S
  <2>2. QED
    BY <2>1, <1>1, LeastElement
<1>3. k \in 1 .. N /\ k - 1 \in 0 .. N /\ k - 1 \notin S
  <2>1. k # 0
    BY <1>2, RoundsGrow
  <2>2. QED
    BY <2>1, <1>2
<1>4. f[k - 1] \subseteq R
  BY <1>3
<1>5. f[k] \subseteq R
  <2>1. f[k] = f[k - 1] \cup Consequences(ts, T, f[k - 1])
    BY <1>3, RoundsGrow DEF Round
  <2>2. Consequences(ts, T, f[k - 1]) \subseteq Consequences(ts, T, R)
    BY <1>4, ConsequencesGrow
  <2>3. QED
    BY <2>1, <2>2, <1>4 DEF Closed
<1>6. QED
  BY <1>2, <1>5


LEMMA PhrasesLeast ==
  ASSUME NEW ts, NEW T, Len(ts) \in Nat, NEW R, Closed(ts, T, R)
  PROVE  Phrases(ts, T) \subseteq R
<1> DEFINE N == Len(ts) + 1
<1>1. N \in Nat /\ N \in 0 .. N
  OBVIOUS
<1>2. PICK f : Rounds(ts, f, T, N) /\ Phrases(ts, T) = f[N]
  BY PhrasesRounds
<1> HIDE DEF N
<1>3. QED
  BY <1>1, <1>2, RoundsLeast

IsText(ts) == Len(ts) \in Nat /\ DOMAIN ts = 1 .. Len(ts)

\* The phrase p is about tokens of ts.
OfInput(ts, p) ==
  /\ p[1] \in {"value", "elements", "members"}
  /\ p[2] \in 1 .. Len(ts)
  /\ p[3] \in p[2] .. Len(ts)

\* No derivation of p has more steps one after the other.
Steps(p) == p[3] - p[2] + (IF p[1] = "value" THEN 1 ELSE 2)

LEMMA TextShape ==
  ASSUME NEW ts, NEW T, NEW i, NEW j, NEW v, NEW c \in TextsOf(T, i, j, v)
  PROVE  /\ c[1] = "value" /\ c[2] = i /\ c[3] = j
         /\ \E x \in DOMAIN T : v \in T[x] /\ c = <<"value", i, j, x>>
BY DEF TextsOf

\* A rule makes a phrase of shorter ones.
LEMMA RulesShorten ==
  ASSUME NEW ts, IsText(ts), NEW T, NEW D, \A p \in D : OfInput(ts, p),
         NEW c \in Consequences(ts, T, D)
  PROVE  OfInput(ts, c) /\ c \in Consequences(ts, T, {p \in D : Steps(p) < Steps(c)})
<1> DEFINE E == {p \in D : Steps(p) < Steps(c)}
<1> USE DEF IsText, OfInput
<1>1. CASE c \in ScalarTexts(ts, T)
  <2>1. PICK i \in DOMAIN ts : c \in TextsOf(T, i, i, Scalar(ts[i]))
    BY <1>1 DEF ScalarTexts
  <2>2. OfInput(ts, c)
    BY <2>1 DEF TextsOf
  <2>3. QED
    BY <1>1, <2>2 DEF Consequences
<1>2. CASE c \in EmptyArrayTexts(ts, T) \cup EmptyObjectTexts(ts, T)
  <2>1. PICK i, v : i \in DOMAIN ts /\ i + 1 \in DOMAIN ts /\ c \in TextsOf(T, i, i + 1, v)
    BY <1>2 DEF EmptyArrayTexts, EmptyObjectTexts, At
  <2>2. OfInput(ts, c)
    BY <2>1 DEF TextsOf
  <2>3. QED
    BY <1>2, <2>2 DEF Consequences
<1>3. CASE c \in ArrayTexts(ts, T, D)
  <2>1. PICK p \in Kind(D, "elements") :
          /\ At(ts, p[2] - 1, "[") /\ At(ts, p[3] + 1, "]")
          /\ c \in TextsOf(T, p[2] - 1, p[3] + 1, Array(p[4]))
    BY <1>3 DEF ArrayTexts
  <2>2. /\ c[1] = "value" /\ c[2] = p[2] - 1 /\ c[3] = p[3] + 1
        /\ p[2] - 1 \in DOMAIN ts /\ p[3] + 1 \in DOMAIN ts
        /\ p \in D /\ p[1] = "elements"
    <3>1. c[1] = "value" /\ c[2] = p[2] - 1 /\ c[3] = p[3] + 1
      BY <2>1, TextShape
    <3>2. QED
      BY <2>1, <3>1 DEF Kind, At
  <2>3. OfInput(ts, p)
    BY <2>2
  <2>4. OfInput(ts, c) /\ Steps(p) < Steps(c)
    BY <2>2, <2>3 DEF Steps
  <2>5. p \in Kind(E, "elements")
    BY <2>2, <2>4 DEF Kind
  <2>6. c \in ArrayTexts(ts, T, E)
    BY <2>1, <2>5 DEF ArrayTexts
  <2>7. QED
    BY <2>4, <2>6 DEF Consequences
<1>4. CASE c \in ObjectTexts(ts, T, D)
  <2>1. PICK p \in Kind(D, "members") :
          /\ At(ts, p[2] - 1, begin_object) /\ At(ts, p[3] + 1, end_object)
          /\ c \in TextsOf(T, p[2] - 1, p[3] + 1, Object(p[4]))
    BY <1>4 DEF ObjectTexts
  <2>2. /\ c[1] = "value" /\ c[2] = p[2] - 1 /\ c[3] = p[3] + 1
        /\ p[2] - 1 \in DOMAIN ts /\ p[3] + 1 \in DOMAIN ts
        /\ p \in D /\ p[1] = "members"
    <3>1. c[1] = "value" /\ c[2] = p[2] - 1 /\ c[3] = p[3] + 1
      BY <2>1, TextShape
    <3>2. QED
      BY <2>1, <3>1 DEF Kind, At
  <2>3. OfInput(ts, p)
    BY <2>2
  <2>4. OfInput(ts, c) /\ Steps(p) < Steps(c)
    BY <2>2, <2>3 DEF Steps
  <2>5. p \in Kind(E, "members")
    BY <2>2, <2>4 DEF Kind
  <2>6. c \in ObjectTexts(ts, T, E)
    BY <2>1, <2>5 DEF ObjectTexts
  <2>7. QED
    BY <2>4, <2>6 DEF Consequences
<1>5. CASE c \in OneElement(D)
  <2>1. PICK p \in Kind(D, "value") : c = <<"elements", p[2], p[3], <<p[4]>> >>
    BY <1>5 DEF OneElement
  <2>2. c[1] = "elements" /\ c[2] = p[2] /\ c[3] = p[3] /\ p \in D /\ p[1] = "value"
    BY <2>1 DEF Kind
  <2>3. OfInput(ts, p)
    BY <2>2
  <2>4. OfInput(ts, c) /\ Steps(p) < Steps(c)
    BY <2>2, <2>3 DEF Steps
  <2>5. p \in Kind(E, "value")
    BY <2>2, <2>4 DEF Kind
  <2>6. c \in OneElement(E)
    BY <2>1, <2>5 DEF OneElement
  <2>7. QED
    BY <2>4, <2>6 DEF Consequences
<1>6. CASE c \in OneMember(ts, D)
  <2>1. PICK p \in Kind(D, "value") :
          /\ KeyAt(ts, p[2] - 2)
          /\ c = <<"members", p[2] - 2, p[3], With(<<>>, ts[p[2] - 2], p[4])>>
    BY <1>6 DEF OneMember
  <2>2. /\ c[1] = "members" /\ c[2] = p[2] - 2 /\ c[3] = p[3] /\ p \in D /\ p[1] = "value"
        /\ p[2] - 2 \in DOMAIN ts
    BY <2>1 DEF Kind, KeyAt
  <2>3. OfInput(ts, p)
    BY <2>2
  <2>4. OfInput(ts, c) /\ Steps(p) < Steps(c)
    BY <2>2, <2>3 DEF Steps
  <2>5. p \in Kind(E, "value")
    BY <2>2, <2>4 DEF Kind
  <2>6. c \in OneMember(ts, E)
    BY <2>1, <2>5 DEF OneMember
  <2>7. QED
    BY <2>4, <2>6 DEF Consequences
<1>7. CASE c \in MoreElements(ts, D)
  <2>1. PICK q \in Kind(D, "elements") \X Kind(D, "value") :
          /\ At(ts, q[1][3] + 1, ",") /\ q[2][2] = q[1][3] + 2
          /\ c = <<"elements", q[1][2], q[2][3], Append(q[1][4], q[2][4])>>
    BY <1>7 DEF MoreElements
  <2>a. PICK p \in Kind(D, "elements"), r \in Kind(D, "value") : q = <<p, r>>
    OBVIOUS
  <2>2. /\ c[1] = "elements" /\ c[2] = p[2] /\ c[3] = r[3]
        /\ p \in D /\ p[1] = "elements" /\ r \in D /\ r[1] = "value"
        /\ r[2] = p[3] + 2
    BY <2>1, <2>a DEF Kind
  <2>3. OfInput(ts, p) /\ OfInput(ts, r)
    BY <2>2
  <2>4. OfInput(ts, c) /\ Steps(p) < Steps(c) /\ Steps(r) < Steps(c)
    BY <2>2, <2>3 DEF Steps
  <2>5. q \in Kind(E, "elements") \X Kind(E, "value")
    <3>1. p \in Kind(E, "elements") /\ r \in Kind(E, "value")
      BY <2>2, <2>4 DEF Kind
    <3>2. QED
      BY <3>1, <2>a
  <2>6. c \in MoreElements(ts, E)
    BY <2>1, <2>5 DEF MoreElements
  <2>7. QED
    BY <2>4, <2>6 DEF Consequences
<1>8. CASE c \in MoreMembers(ts, D)
  <2>1. PICK q \in Kind(D, "members") \X Kind(D, "value") :
          /\ At(ts, q[1][3] + 1, ",") /\ q[2][2] = q[1][3] + 4 /\ KeyAt(ts, q[2][2] - 2)
          /\ c = <<"members", q[1][2], q[2][3], With(q[1][4], ts[q[2][2] - 2], q[2][4])>>
    BY <1>8 DEF MoreMembers
  <2>a. PICK p \in Kind(D, "members"), r \in Kind(D, "value") : q = <<p, r>>
    OBVIOUS
  <2>2. /\ c[1] = "members" /\ c[2] = p[2] /\ c[3] = r[3]
        /\ p \in D /\ p[1] = "members" /\ r \in D /\ r[1] = "value"
        /\ r[2] = p[3] + 4
    BY <2>1, <2>a DEF Kind
  <2>3. OfInput(ts, p) /\ OfInput(ts, r)
    BY <2>2
  <2>4. OfInput(ts, c) /\ Steps(p) < Steps(c) /\ Steps(r) < Steps(c)
    BY <2>2, <2>3 DEF Steps
  <2>5. q \in Kind(E, "members") \X Kind(E, "value")
    <3>1. p \in Kind(E, "members") /\ r \in Kind(E, "value")
      BY <2>2, <2>4 DEF Kind
    <3>2. QED
      BY <3>1, <2>a
  <2>6. c \in MoreMembers(ts, E)
    BY <2>1, <2>5 DEF MoreMembers
  <2>7. QED
    BY <2>4, <2>6 DEF Consequences
<1>9. QED
  BY <1>1, <1>2, <1>3, <1>5, <1>6, <1>7, <1>8, <1>4 DEF Consequences

\* There are enough rounds: another one would derive nothing new.
LEMMA PhrasesClosed ==
  ASSUME NEW ts, IsText(ts), NEW T
  PROVE  Closed(ts, T, Phrases(ts, T))
<1> DEFINE N == Len(ts) + 1
<1>1. N \in Nat
  BY DEF IsText
<1>2. PICK f : Rounds(ts, f, T, N) /\ Phrases(ts, T) = f[N]
  BY PhrasesRounds DEF IsText
<1> DEFINE R == {p \in f[N] : OfInput(ts, p) /\ Steps(p) \in 1 .. N /\ p \in f[Steps(p)]}
<1>3. Closed(ts, T, R)
  <2> SUFFICES ASSUME NEW c \in Consequences(ts, T, R) PROVE c \in R
    BY DEF Closed
  <2> DEFINE E == {p \in R : Steps(p) < Steps(c)}
  <2>1. OfInput(ts, c) /\ c \in Consequences(ts, T, E)
    BY RulesShorten
  <2>2. Steps(c) \in 1 .. N
    <3>1. c[2] \in 1 .. Len(ts) /\ c[3] \in c[2] .. Len(ts) /\ Len(ts) \in Nat
      BY <2>1 DEF OfInput, IsText
    <3>2. QED
      BY <3>1 DEF Steps
  <2>3. PICK m : m = Steps(c)
    OBVIOUS
  <2>4. ASSUME NEW p \in E PROVE p \in f[m - 1]
    <3>1. p \in f[Steps(p)] /\ Steps(p) \in 1 .. N /\ Steps(p) < m
      BY <2>3
    <3>2. PICK k : k = Steps(p)
      OBVIOUS
    <3>3. k \in 0 .. m - 1 /\ m - 1 \in 0 .. N
      BY <1>1, <2>2, <2>3, <3>1, <3>2
    <3>4. f[k] \subseteq f[m - 1]
      <4> HIDE DEF N, R, E
      <4>1. \A l \in 0 .. N : \A n \in 0 .. l : f[n] \subseteq f[l]
        BY <1>1, <1>2, RoundsGrow
      <4>2. QED
        BY <3>3, <4>1
    <3>5. QED
      BY <3>1, <3>2, <3>4
  <2> HIDE DEF E
  <2>5. c \in Consequences(ts, T, f[m - 1])
    BY <2>1, <2>4, ConsequencesGrow
  <2> HIDE DEF N
  <2>6. m \in 1 .. N /\ m \in 0 .. N /\ N \in 0 .. N /\ m \in 0 .. N
    BY <2>2, <2>3, <1>1
  <2>7. c \in f[m]
    <3>1. \A k \in 1 .. N : f[k] = Round(ts, T, f[k - 1])
      BY <1>1, <1>2, RoundsGrow
    <3>2. f[m] = Round(ts, T, f[m - 1])
      BY <2>6, <3>1
    <3>3. QED
      BY <2>5, <3>2 DEF Round
  <2>8. f[m] \subseteq f[N]
    BY <2>6, <1>1, <1>2, RoundsGrow
  <2>9. QED
    BY <2>1, <2>2, <2>3, <2>7, <2>8
<1>4. f[N] \subseteq R
  <2>1. Len(ts) \in Nat
    BY DEF IsText
  <2> HIDE DEF R, N
  <2>2. QED
    BY <1>2, <1>3, <2>1, PhrasesLeast
<1>5. R = f[N]
  BY <1>4
<1>6. QED
  BY <1>2, <1>3, <1>5


\* The value x contains v.
MayContain(T, x, v) == x \in DOMAIN T /\ v \in T[x]

\* The rules of the grammar, one by one.
LEMMA RulesApply ==
  ASSUME NEW ts, NEW T, NEW R, Closed(ts, T, R)
  PROVE  /\ \A i \in DOMAIN ts : \A x :
              ts[i] \in Scalars /\ MayContain(T, x, Scalar(ts[i]))
                => <<"value", i, i, x>> \in R
         /\ \A i, x :
              At(ts, i, "[") /\ At(ts, i + 1, "]") /\ MayContain(T, x, Array(<<>>))
                => <<"value", i, i + 1, x>> \in R
         /\ \A i, x :
              At(ts, i, begin_object) /\ At(ts, i + 1, end_object) /\ MayContain(T, x, Object(<<>>))
                => <<"value", i, i + 1, x>> \in R
         /\ \A i, j, s, x :
              /\ <<"elements", i, j, s>> \in R
              /\ At(ts, i - 1, "[") /\ At(ts, j + 1, "]") /\ MayContain(T, x, Array(s))
              => <<"value", i - 1, j + 1, x>> \in R
         /\ \A i, j, f, x :
              /\ <<"members", i, j, f>> \in R
              /\ At(ts, i - 1, begin_object) /\ At(ts, j + 1, end_object) /\ MayContain(T, x, Object(f))
              => <<"value", i - 1, j + 1, x>> \in R
         /\ \A i, j, x :
              <<"value", i, j, x>> \in R => <<"elements", i, j, <<x>> >> \in R
         /\ \A i, j, x :
              <<"value", i, j, x>> \in R /\ KeyAt(ts, i - 2)
                => <<"members", i - 2, j, With(<<>>, ts[i - 2], x)>> \in R
         /\ \A i, j, s, k, x :
              /\ <<"elements", i, j, s>> \in R
              /\ At(ts, j + 1, ",") /\ <<"value", j + 2, k, x>> \in R
              => <<"elements", i, k, Append(s, x)>> \in R
         /\ \A j \in Int : \A i, f, k, x :
              /\ <<"members", i, j, f>> \in R
              /\ At(ts, j + 1, ",") /\ KeyAt(ts, j + 2) /\ <<"value", j + 4, k, x>> \in R
              => <<"members", i, k, With(f, ts[j + 2], x)>> \in R
<1>1. /\ ScalarTexts(ts, T) \subseteq R /\ EmptyArrayTexts(ts, T) \subseteq R
      /\ EmptyObjectTexts(ts, T) \subseteq R
      /\ ArrayTexts(ts, T, R) \subseteq R /\ ObjectTexts(ts, T, R) \subseteq R
      /\ OneElement(R) \subseteq R /\ OneMember(ts, R) \subseteq R
      /\ MoreElements(ts, R) \subseteq R /\ MoreMembers(ts, R) \subseteq R
  BY DEF Closed, Consequences
<1>2. ASSUME NEW i, NEW j, NEW v, NEW x, MayContain(T, x, v)
      PROVE  <<"value", i, j, x>> \in TextsOf(T, i, j, v)
  BY <1>2 DEF TextsOf, MayContain
<1>3. ASSUME NEW i \in DOMAIN ts, NEW x,
             ts[i] \in Scalars, MayContain(T, x, Scalar(ts[i]))
      PROVE  <<"value", i, i, x>> \in R
  <2>1. <<"value", i, i, x>> \in TextsOf(T, i, i, Scalar(ts[i]))
    BY <1>2, <1>3
  <2>2. QED
    BY <1>1, <1>3, <2>1 DEF ScalarTexts
<1>4. ASSUME NEW i, NEW x, At(ts, i, "["), At(ts, i + 1, "]"), MayContain(T, x, Array(<<>>))
      PROVE  <<"value", i, i + 1, x>> \in R
  <2>1. <<"value", i, i + 1, x>> \in TextsOf(T, i, i + 1, Array(<<>>))
    BY <1>2, <1>4
  <2>2. i \in DOMAIN ts
    BY <1>4 DEF At
  <2>3. QED
    BY <1>1, <1>4, <2>1, <2>2 DEF EmptyArrayTexts
<1>5. ASSUME NEW i, NEW x, At(ts, i, begin_object), At(ts, i + 1, end_object),
             MayContain(T, x, Object(<<>>))
      PROVE  <<"value", i, i + 1, x>> \in R
  <2>1. <<"value", i, i + 1, x>> \in TextsOf(T, i, i + 1, Object(<<>>))
    BY <1>2, <1>5
  <2>2. i \in DOMAIN ts
    BY <1>5 DEF At
  <2>3. QED
    BY <1>1, <1>5, <2>1, <2>2 DEF EmptyObjectTexts
<1>6. ASSUME NEW i, NEW j, NEW s, NEW x, <<"elements", i, j, s>> \in R,
             At(ts, i - 1, "["), At(ts, j + 1, "]"), MayContain(T, x, Array(s))
      PROVE  <<"value", i - 1, j + 1, x>> \in R
  <2> DEFINE p == <<"elements", i, j, s>>
  <2>1. p \in Kind(R, "elements") /\ p[2] = i /\ p[3] = j /\ p[4] = s
    BY <1>6 DEF Kind
  <2> HIDE DEF p
  <2>2. <<"value", i - 1, j + 1, x>> \in TextsOf(T, p[2] - 1, p[3] + 1, Array(p[4]))
    BY <1>2, <1>6, <2>1
  <2>3. <<"value", i - 1, j + 1, x>> \in ArrayTexts(ts, T, R)
    BY <1>6, <2>1, <2>2 DEF ArrayTexts
  <2>4. QED
    BY <1>1, <2>3
<1>7. ASSUME NEW i, NEW j, NEW s, NEW x, <<"members", i, j, s>> \in R,
             At(ts, i - 1, begin_object), At(ts, j + 1, end_object), MayContain(T, x, Object(s))
      PROVE  <<"value", i - 1, j + 1, x>> \in R
  <2> DEFINE p == <<"members", i, j, s>>
  <2>1. p \in Kind(R, "members") /\ p[2] = i /\ p[3] = j /\ p[4] = s
    BY <1>7 DEF Kind
  <2> HIDE DEF p
  <2>2. <<"value", i - 1, j + 1, x>> \in TextsOf(T, p[2] - 1, p[3] + 1, Object(p[4]))
    BY <1>2, <1>7, <2>1
  <2>3. <<"value", i - 1, j + 1, x>> \in ObjectTexts(ts, T, R)
    BY <1>7, <2>1, <2>2 DEF ObjectTexts
  <2>4. QED
    BY <1>1, <2>3
<1>8. ASSUME NEW i, NEW j, NEW x, <<"value", i, j, x>> \in R
      PROVE  /\ <<"elements", i, j, <<x>> >> \in R
             /\ KeyAt(ts, i - 2) => <<"members", i - 2, j, With(<<>>, ts[i - 2], x)>> \in R
  <2> DEFINE p == <<"value", i, j, x>>
  <2>1. p \in Kind(R, "value") /\ p[2] = i /\ p[3] = j /\ p[4] = x
    BY <1>8 DEF Kind
  <2> HIDE DEF p
  <2>2. <<"elements", i, j, <<x>> >> \in R
    BY <1>1, <2>1 DEF OneElement
  <2>3. KeyAt(ts, i - 2) => <<"members", i - 2, j, With(<<>>, ts[i - 2], x)>> \in R
    BY <1>1, <2>1 DEF OneMember
  <2>4. QED
    BY <2>2, <2>3
<1>9. ASSUME NEW i, NEW j, NEW s, NEW k, NEW x, <<"elements", i, j, s>> \in R,
             At(ts, j + 1, ","), <<"value", j + 2, k, x>> \in R
      PROVE  <<"elements", i, k, Append(s, x)>> \in R
  <2> DEFINE p == <<"elements", i, j, s>>
             r == <<"value", j + 2, k, x>>
             q == <<p, r>>
  <2>1. /\ p \in Kind(R, "elements") /\ p[2] = i /\ p[3] = j /\ p[4] = s
        /\ r \in Kind(R, "value") /\ r[2] = j + 2 /\ r[3] = k /\ r[4] = x
    BY <1>9 DEF Kind
  <2> HIDE DEF p, r
  <2>2. q \in Kind(R, "elements") \X Kind(R, "value") /\ q[1] = p /\ q[2] = r
    BY <2>1
  <2> HIDE DEF q
  <2>3. <<"elements", i, k, Append(s, x)>> \in MoreElements(ts, R)
    BY <1>9, <2>1, <2>2 DEF MoreElements
  <2>4. QED
    BY <1>1, <2>3
<1>10. ASSUME NEW i, NEW j \in Int, NEW f, NEW k, NEW x, <<"members", i, j, f>> \in R,
             At(ts, j + 1, ","), KeyAt(ts, j + 2), <<"value", j + 4, k, x>> \in R
      PROVE  <<"members", i, k, With(f, ts[j + 2], x)>> \in R
  <2> DEFINE p == <<"members", i, j, f>>
             r == <<"value", j + 4, k, x>>
             q == <<p, r>>
  <2>1. /\ p \in Kind(R, "members") /\ p[2] = i /\ p[3] = j /\ p[4] = f
        /\ r \in Kind(R, "value") /\ r[2] = j + 4 /\ r[3] = k /\ r[4] = x
    BY <1>10 DEF Kind
  <2>a. r[2] - 2 = j + 2
    BY <2>1
  <2> HIDE DEF p, r
  <2>2. q \in Kind(R, "members") \X Kind(R, "value") /\ q[1] = p /\ q[2] = r
    BY <2>1
  <2> HIDE DEF q
  <2>3. <<"members", i, k, With(f, ts[j + 2], x)>> \in MoreMembers(ts, R)
    BY <1>10, <2>1, <2>2, <2>a DEF MoreMembers
  <2>4. QED
    BY <1>1, <2>3
<1>11. QED
  BY <1>3, <1>4, <1>5, <1>6, <1>7, <1>8, <1>9, <1>10

\* Every phrase of the input is derived by a rule from phrases of ts.
LEMMA PhrasesDerived ==
  ASSUME NEW ts, IsText(ts), NEW T, NEW c \in Phrases(ts, T)
  PROVE  c \in Consequences(ts, T, Phrases(ts, T)) /\ OfInput(ts, c)
<1> DEFINE L == Phrases(ts, T)
           R == {p \in L : p \in Consequences(ts, T, L) /\ OfInput(ts, p)}
<1>1. Consequences(ts, T, L) \subseteq L
  BY PhrasesClosed DEF Closed
<1>2. R \subseteq L
  OBVIOUS
<1>3. ASSUME NEW p \in Consequences(ts, T, R) PROVE p \in R
  <2>1. Consequences(ts, T, R) \subseteq Consequences(ts, T, L)
    <3> HIDE DEF R, L
    <3>1. QED
      BY <1>2, ConsequencesGrow
  <2>2. OfInput(ts, p)
    <3>1. \A r \in R : OfInput(ts, r)
      OBVIOUS
    <3> HIDE DEF R, L
    <3>2. QED
      BY <1>3, <3>1, RulesShorten
  <2>3. QED
    BY <1>1, <2>1, <2>2
<1>4. L \subseteq R
  <2>1. Closed(ts, T, R)
    BY <1>3 DEF Closed
  <2>2. Len(ts) \in Nat
    BY DEF IsText
  <2> HIDE DEF R
  <2>3. QED
    BY <2>1, <2>2, PhrasesLeast
<1>5. QED
  BY <1>4


\* The rules for each kind of phrase.
TextsIn(ts, T, D) ==
  ScalarTexts(ts, T) \cup EmptyArrayTexts(ts, T) \cup EmptyObjectTexts(ts, T)
    \cup ArrayTexts(ts, T, D) \cup ObjectTexts(ts, T, D)

LEMMA TextsShape ==
  ASSUME NEW ts, NEW T, NEW D, NEW c \in TextsIn(ts, T, D)
  PROVE  c[1] = "value" /\ \E x : c = <<"value", c[2], c[3], x>>
<1>1. PICK i, j, v : c \in TextsOf(T, i, j, v)
  <2>1. CASE c \in ScalarTexts(ts, T)
    BY <2>1 DEF ScalarTexts
  <2>2. CASE c \in EmptyArrayTexts(ts, T)
    BY <2>2 DEF EmptyArrayTexts
  <2>3. CASE c \in EmptyObjectTexts(ts, T)
    BY <2>3 DEF EmptyObjectTexts
  <2>4. CASE c \in ArrayTexts(ts, T, D)
    BY <2>4 DEF ArrayTexts
  <2>5. CASE c \in ObjectTexts(ts, T, D)
    BY <2>5 DEF ObjectTexts
  <2>6. QED
    BY <2>1, <2>2, <2>3, <2>4, <2>5 DEF TextsIn
<1>2. QED
  BY <1>1, TextShape

LEMMA ListShape ==
  ASSUME NEW ts, NEW T, NEW D, NEW c
  PROVE  /\ c \in OneElement(D) \cup MoreElements(ts, D) =>
              c[1] = "elements" /\ \E s : c = <<"elements", c[2], c[3], s>>
         /\ c \in OneMember(ts, D) \cup MoreMembers(ts, D) =>
              c[1] = "members" /\ \E f : c = <<"members", c[2], c[3], f>>
<1>1. ASSUME c \in OneElement(D) \cup MoreElements(ts, D)
      PROVE  c[1] = "elements" /\ \E s : c = <<"elements", c[2], c[3], s>>
  <2>1. \E i, j, s : c = <<"elements", i, j, s>>
    BY <1>1 DEF OneElement, MoreElements
  <2>2. QED
    BY <2>1
<1>2. ASSUME c \in OneMember(ts, D) \cup MoreMembers(ts, D)
      PROVE  c[1] = "members" /\ \E f : c = <<"members", c[2], c[3], f>>
  <2>1. \E i, j, f : c = <<"members", i, j, f>>
    BY <1>2 DEF OneMember, MoreMembers
  <2>2. QED
    BY <2>1
<1>3. QED
  BY <1>1, <1>2

LEMMA ValueShape ==
  ASSUME NEW ts, NEW T, NEW D, NEW c \in Consequences(ts, T, D), c[1] = "value"
  PROVE  c \in TextsIn(ts, T, D) /\ \E x : c = <<"value", c[2], c[3], x>>
<1>1. c \in TextsIn(ts, T, D)
  BY ListShape DEF Consequences, TextsIn
<1>2. QED
  BY <1>1, TextsShape

LEMMA ElementsShape ==
  ASSUME NEW ts, NEW T, NEW D, NEW c \in Consequences(ts, T, D), c[1] = "elements"
  PROVE  /\ c \in OneElement(D) \cup MoreElements(ts, D)
         /\ \E s : c = <<"elements", c[2], c[3], s>>
<1>1. c \notin TextsIn(ts, T, D)
  BY TextsShape
<1>2. c \notin OneMember(ts, D) \cup MoreMembers(ts, D)
  BY ListShape
<1>3. c \in OneElement(D) \cup MoreElements(ts, D)
  BY <1>1, <1>2 DEF Consequences, TextsIn
<1>4. QED
  BY <1>3, ListShape

LEMMA MembersShape ==
  ASSUME NEW ts, NEW T, NEW D, NEW c \in Consequences(ts, T, D), c[1] = "members"
  PROVE  /\ c \in OneMember(ts, D) \cup MoreMembers(ts, D)
         /\ \E f : c = <<"members", c[2], c[3], f>>
<1>1. c \notin TextsIn(ts, T, D)
  BY TextsShape
<1>2. c \notin OneElement(D) \cup MoreElements(ts, D)
  BY ListShape
<1>3. c \in OneMember(ts, D) \cup MoreMembers(ts, D)
  BY <1>1, <1>2 DEF Consequences, TextsIn
<1>4. QED
  BY <1>3, ListShape


\* The tokens from i to j are a value, elements, or members, whichever.
IsValue(ts, T, i, j) == \E x : <<"value", i, j, x>> \in Phrases(ts, T)
AreElements(ts, T, i, j) == \E s : <<"elements", i, j, s>> \in Phrases(ts, T)
AreMembers(ts, T, i, j) == \E f : <<"members", i, j, f>> \in Phrases(ts, T)

LEMMA ValueForms ==
  ASSUME NEW ts, IsText(ts), NEW T, NEW i, NEW j, IsValue(ts, T, i, j)
  PROVE  /\ i \in 1 .. Len(ts) /\ j \in i .. Len(ts)
         /\ \/ ts[i] \in Scalars /\ j = i
            \/ At(ts, i, "[") /\ At(ts, j, "]") /\ (j = i + 1 \/ AreElements(ts, T, i + 1, j - 1))
            \/ /\ At(ts, i, begin_object) /\ At(ts, j, end_object)
               /\ j = i + 1 \/ AreMembers(ts, T, i + 1, j - 1)
<1> DEFINE L == Phrases(ts, T)
<1>1. PICK x : <<"value", i, j, x>> \in L
  BY DEF IsValue
<1>2. PICK c : c = <<"value", i, j, x>>
  OBVIOUS
<1>3. c[1] = "value" /\ c[2] = i /\ c[3] = j
  BY <1>2
<1>4. c \in Consequences(ts, T, L) /\ OfInput(ts, c)
  BY <1>1, <1>2, PhrasesDerived
<1> HIDE DEF L
<1>5. i \in 1 .. Len(ts) /\ j \in i .. Len(ts)
  BY <1>3, <1>4 DEF OfInput
<1>6. CASE c \in ScalarTexts(ts, T)
  <2>1. PICK k \in DOMAIN ts :
          ts[k] \in Scalars /\ c \in TextsOf(T, k, k, Scalar(ts[k]))
    BY <1>6 DEF ScalarTexts
  <2>2. c[2] = k /\ c[3] = k
    BY <2>1, TextShape
  <2>3. QED
    BY <1>3, <1>5, <2>1, <2>2
<1>7. CASE c \in EmptyArrayTexts(ts, T)
  <2>1. PICK k : /\ At(ts, k, "[") /\ At(ts, k + 1, "]")
                 /\ c \in TextsOf(T, k, k + 1, Array(<<>>))
    BY <1>7 DEF EmptyArrayTexts
  <2>2. c[2] = k /\ c[3] = k + 1
    BY <2>1, TextShape
  <2>3. QED
    BY <1>3, <1>5, <2>1, <2>2
<1>8. CASE c \in EmptyObjectTexts(ts, T)
  <2>1. PICK k : /\ At(ts, k, begin_object) /\ At(ts, k + 1, end_object)
                 /\ c \in TextsOf(T, k, k + 1, Object(<<>>))
    BY <1>8 DEF EmptyObjectTexts
  <2>2. c[2] = k /\ c[3] = k + 1
    BY <2>1, TextShape
  <2>3. QED
    BY <1>3, <1>5, <2>1, <2>2
<1>9. CASE c \in ArrayTexts(ts, T, L)
  <2>1. PICK p \in Kind(L, "elements") :
          /\ At(ts, p[2] - 1, "[") /\ At(ts, p[3] + 1, "]")
          /\ c \in TextsOf(T, p[2] - 1, p[3] + 1, Array(p[4]))
    BY <1>9 DEF ArrayTexts
  <2>2. c[2] = p[2] - 1 /\ c[3] = p[3] + 1
    BY <2>1, TextShape
  <2>3. p \in L /\ p[1] = "elements"
    BY DEF Kind
  <2>4. OfInput(ts, p) /\ \E s : p = <<"elements", p[2], p[3], s>>
    <3>1. p \in Consequences(ts, T, L) /\ OfInput(ts, p)
      BY <2>3, PhrasesDerived DEF L
    <3>2. QED
      BY <2>3, <3>1, ElementsShape
  <2>5. p[2] = i + 1 /\ p[3] = j - 1
    BY <1>3, <1>5, <2>2, <2>4 DEF OfInput, IsText
  <2>6. AreElements(ts, T, i + 1, j - 1)
    BY <2>3, <2>4, <2>5 DEF AreElements, L
  <2>7. QED
    BY <1>3, <1>5, <2>1, <2>2, <2>6
<1>10. CASE c \in ObjectTexts(ts, T, L)
  <2>1. PICK p \in Kind(L, "members") :
          /\ At(ts, p[2] - 1, begin_object) /\ At(ts, p[3] + 1, end_object)
          /\ c \in TextsOf(T, p[2] - 1, p[3] + 1, Object(p[4]))
    BY <1>10 DEF ObjectTexts
  <2>2. c[2] = p[2] - 1 /\ c[3] = p[3] + 1
    BY <2>1, TextShape
  <2>3. p \in L /\ p[1] = "members"
    BY DEF Kind
  <2>4. OfInput(ts, p) /\ \E s : p = <<"members", p[2], p[3], s>>
    <3>1. p \in Consequences(ts, T, L) /\ OfInput(ts, p)
      BY <2>3, PhrasesDerived DEF L
    <3>2. QED
      BY <2>3, <3>1, MembersShape
  <2>5. p[2] = i + 1 /\ p[3] = j - 1
    BY <1>3, <1>5, <2>2, <2>4 DEF OfInput, IsText
  <2>6. AreMembers(ts, T, i + 1, j - 1)
    BY <2>3, <2>4, <2>5 DEF AreMembers, L
  <2>7. QED
    BY <1>3, <1>5, <2>1, <2>2, <2>6
<1>11. c \in TextsIn(ts, T, L)
  BY <1>3, <1>4, ValueShape
<1>12. QED
  BY <1>6, <1>7, <1>8, <1>9, <1>10, <1>11 DEF TextsIn

LEMMA ValuePhrase ==
  ASSUME NEW ts, IsText(ts), NEW T, NEW p \in Phrases(ts, T), p[1] = "value"
  PROVE  /\ IsValue(ts, T, p[2], p[3])
         /\ p[2] \in Int /\ p[3] \in Int
         /\ \E x : p = <<"value", p[2], p[3], x>>
<1>1. p \in Consequences(ts, T, Phrases(ts, T)) /\ OfInput(ts, p)
  BY PhrasesDerived
<1>2. PICK x : p = <<"value", p[2], p[3], x>>
  BY <1>1, ValueShape
<1>3. <<"value", p[2], p[3], x>> \in Phrases(ts, T)
  BY <1>2
<1>4. p[2] \in Int /\ p[3] \in Int
  BY <1>1 DEF OfInput, IsText
<1>5. QED
  BY <1>2, <1>3, <1>4 DEF IsValue

LEMMA PairOf ==
  ASSUME NEW A, NEW B, NEW q \in A \X B
  PROVE  \E a \in A, b \in B : q = <<a, b>>
OBVIOUS

LEMMA ElementsForms ==
  ASSUME NEW ts, IsText(ts), NEW T, NEW i, NEW j, AreElements(ts, T, i, j)
  PROVE  \E k : IsValue(ts, T, i, k) /\ (k = j \/ (At(ts, k + 1, ",") /\ AreElements(ts, T, k + 2, j)))
<1> DEFINE L == Phrases(ts, T)
           First(a, b) == \E k : /\ IsValue(ts, T, a, k)
                                 /\ k = b \/ (At(ts, k + 1, ",") /\ AreElements(ts, T, k + 2, b))
           R == {p \in L : p[1] = "elements" => First(p[2], p[3])}
<1>1. R \subseteq L
  OBVIOUS
<1>2. ASSUME NEW c \in Consequences(ts, T, R) PROVE c \in R
  <2>1. c \in L
    <3> HIDE DEF R, L
    <3>1. c \in Consequences(ts, T, L)
      BY <1>1, <1>2, ConsequencesGrow
    <3>2. QED
      BY <3>1, PhrasesClosed DEF L, Closed
  <2>2. ASSUME c[1] = "elements" PROVE First(c[2], c[3])
    <3>1. c \in OneElement(R) \cup MoreElements(ts, R)
      BY <1>2, <2>2, ElementsShape
    <3>2. CASE c \in OneElement(R)
      <4>1. PICK p \in Kind(R, "value") : c = <<"elements", p[2], p[3], <<p[4]>> >>
        BY <3>2 DEF OneElement
      <4>2. p \in L /\ p[1] = "value" /\ c[2] = p[2] /\ c[3] = p[3]
        BY <4>1 DEF Kind
      <4>3. IsValue(ts, T, p[2], p[3])
        BY <4>2, ValuePhrase
      <4>4. QED
        BY <4>2, <4>3
    <3>3. CASE c \in MoreElements(ts, R)
      <4>1. PICK q \in Kind(R, "elements") \X Kind(R, "value") :
              /\ At(ts, q[1][3] + 1, ",") /\ q[2][2] = q[1][3] + 2
              /\ c = <<"elements", q[1][2], q[2][3], Append(q[1][4], q[2][4])>>
        BY <3>3 DEF MoreElements
      <4>2. PICK p \in Kind(R, "elements"), r \in Kind(R, "value") : q = <<p, r>>
        <5> HIDE DEF R
        <5>1. QED
          BY PairOf
      <4>3. /\ At(ts, p[3] + 1, ",") /\ r[2] = p[3] + 2 /\ c[2] = p[2] /\ c[3] = r[3]
            /\ p \in L /\ r \in L /\ r[1] = "value" /\ First(p[2], p[3])
        BY <4>1, <4>2 DEF Kind
      <4>4. PICK x : <<"value", p[3] + 2, r[3], x>> \in L
        <5>1. \E x : r = <<"value", r[2], r[3], x>>
          <6>1. r \in Phrases(ts, T) /\ r[1] = "value"
            BY <4>3
          <6> HIDE DEF R, L, First
          <6>2. QED
            BY <6>1, ValuePhrase
        <5>2. QED
          BY <4>3, <5>1
      <4>5. PICK k : /\ IsValue(ts, T, p[2], k)
                     /\ k = p[3] \/ (At(ts, k + 1, ",") /\ AreElements(ts, T, k + 2, p[3]))
        BY <4>3
      <4>6. CASE k = p[3]
        <5>1. <<"elements", p[3] + 2, r[3], <<x>> >> \in L
          BY <4>4, PhrasesClosed, RulesApply
        <5>2. AreElements(ts, T, k + 2, r[3])
          BY <4>6, <5>1 DEF AreElements
        <5>3. QED
          BY <4>3, <4>5, <4>6, <5>2
      <4>7. CASE At(ts, k + 1, ",") /\ AreElements(ts, T, k + 2, p[3])
        <5>1. PICK s : <<"elements", k + 2, p[3], s>> \in L
          BY <4>7 DEF AreElements
        <5>2. <<"elements", k + 2, r[3], Append(s, x)>> \in L
          BY <4>3, <4>4, <5>1, PhrasesClosed, RulesApply
        <5>3. AreElements(ts, T, k + 2, r[3])
          BY <5>2 DEF AreElements
        <5>4. QED
          BY <4>3, <4>5, <4>7, <5>3
      <4>8. QED
        BY <4>5, <4>6, <4>7
    <3>4. QED
      BY <3>1, <3>2, <3>3
  <2>3. QED
    BY <2>1, <2>2
<1>3. L \subseteq R
  <2>1. Closed(ts, T, R)
    BY <1>2 DEF Closed
  <2>2. Len(ts) \in Nat
    BY DEF IsText
  <2> HIDE DEF R
  <2>3. QED
    BY <2>1, <2>2, PhrasesLeast
<1>4. PICK s : <<"elements", i, j, s>> \in L
  BY DEF AreElements
<1>5. PICK p : p = <<"elements", i, j, s>>
  OBVIOUS
<1>6. p[1] = "elements" /\ p[2] = i /\ p[3] = j /\ p \in R
  BY <1>3, <1>4, <1>5
<1>7. QED
  BY <1>6

LEMMA MembersForms ==
  ASSUME NEW ts, IsText(ts), NEW T, NEW i, NEW j, AreMembers(ts, T, i, j)
  PROVE  /\ KeyAt(ts, i)
         /\ \E k : /\ IsValue(ts, T, i + 2, k)
                   /\ k = j \/ (At(ts, k + 1, ",") /\ AreMembers(ts, T, k + 2, j))
<1> DEFINE L == Phrases(ts, T)
           First(a, b) == /\ KeyAt(ts, a)
                          /\ \E k : /\ IsValue(ts, T, a + 2, k)
                                    /\ k = b \/ (At(ts, k + 1, ",") /\ AreMembers(ts, T, k + 2, b))
           R == {p \in L : p[1] = "members" => First(p[2], p[3])}
<1>1. R \subseteq L
  OBVIOUS
<1>2. ASSUME NEW c \in Consequences(ts, T, R) PROVE c \in R
  <2>1. c \in L
    <3> HIDE DEF R, L
    <3>1. c \in Consequences(ts, T, L)
      BY <1>1, <1>2, ConsequencesGrow
    <3>2. QED
      BY <3>1, PhrasesClosed DEF L, Closed
  <2>2. ASSUME c[1] = "members" PROVE First(c[2], c[3])
    <3>1. c \in OneMember(ts, R) \cup MoreMembers(ts, R)
      BY <1>2, <2>2, MembersShape
    <3>2. CASE c \in OneMember(ts, R)
      <4>1. PICK p \in Kind(R, "value") :
              /\ KeyAt(ts, p[2] - 2)
              /\ c = <<"members", p[2] - 2, p[3], With(<<>>, ts[p[2] - 2], p[4])>>
        BY <3>2 DEF OneMember
      <4>2. p \in L /\ p[1] = "value" /\ c[2] = p[2] - 2 /\ c[3] = p[3]
        BY <4>1 DEF Kind
      <4>3. IsValue(ts, T, p[2], p[3]) /\ p[2] \in Int
        BY <4>2, ValuePhrase
      <4>4. c[2] + 2 = p[2]
        <5> HIDE DEF R, L, First
        <5>1. PICK a \in Int : a = p[2]
          BY <4>3
        <5>2. a - 2 + 2 = a
          BY <5>1
        <5>3. QED
          BY <4>2, <5>1, <5>2
      <4>5. QED
        BY <4>1, <4>2, <4>3, <4>4
    <3>3. CASE c \in MoreMembers(ts, R)
      <4>1. PICK q \in Kind(R, "members") \X Kind(R, "value") :
              /\ At(ts, q[1][3] + 1, ",") /\ q[2][2] = q[1][3] + 4 /\ KeyAt(ts, q[2][2] - 2)
              /\ c = <<"members", q[1][2], q[2][3],
                       With(q[1][4], ts[q[2][2] - 2], q[2][4])>>
        BY <3>3 DEF MoreMembers
      <4>2. PICK p \in Kind(R, "members"), r \in Kind(R, "value") : q = <<p, r>>
        <5> HIDE DEF R
        <5>1. QED
          BY PairOf
      <4>3. /\ At(ts, p[3] + 1, ",") /\ r[2] = p[3] + 4 /\ KeyAt(ts, r[2] - 2)
            /\ c[2] = p[2] /\ c[3] = r[3]
            /\ p \in L /\ r \in L /\ r[1] = "value" /\ p[1] = "members" /\ First(p[2], p[3])
        BY <4>1, <4>2 DEF Kind
      <4>4. PICK x : <<"value", p[3] + 4, r[3], x>> \in L
        <5>1. \E x : r = <<"value", r[2], r[3], x>>
          <6>1. r \in Phrases(ts, T) /\ r[1] = "value"
            BY <4>3
          <6> HIDE DEF R, L, First
          <6>2. QED
            BY <6>1, ValuePhrase
        <5>2. QED
          BY <4>3, <5>1
      <4>a. p[3] \in Int
        <5>1. OfInput(ts, p)
          BY <4>3, PhrasesDerived
        <5> HIDE DEF R, L, First
        <5>2. QED
          BY <5>1 DEF OfInput, IsText
      <4>b. KeyAt(ts, p[3] + 2) /\ p[3] + 2 + 2 = p[3] + 4 /\ p[3] + 4 - 2 = p[3] + 2
        <5> HIDE DEF R, L, First
        <5>1. PICK a \in Int : a = p[3]
          BY <4>a
        <5>2. a + 4 - 2 = a + 2 /\ a + 2 + 2 = a + 4
          BY <5>1
        <5>3. r[2] - 2 = a + 2
          <6>1. r[2] = a + 4
            BY <4>3, <5>1
          <6>2. QED
            BY <5>2, <6>1
        <5>4. QED
          BY <4>3, <5>1, <5>2, <5>3
      <4>5. PICK k : /\ IsValue(ts, T, p[2] + 2, k)
                     /\ k = p[3] \/ (At(ts, k + 1, ",") /\ AreMembers(ts, T, k + 2, p[3]))
        BY <4>3
      <4>6. CASE k = p[3]
        <5>1. PICK m : m = p[3] + 4
          OBVIOUS
        <5>2. /\ <<"value", m, r[3], x>> \in L /\ KeyAt(ts, m - 2)
              /\ m - 2 = k + 2
          <6> HIDE DEF R, L, First
          <6>1. m - 2 = p[3] + 2 /\ k + 2 = p[3] + 2
            <7>1. PICK a \in Int : a = p[3]
              BY <4>a
            <7>2. m = a + 4 /\ k = a
              BY <4>6, <5>1, <7>1
            <7>3. m - 2 = a + 2 /\ k + 2 = a + 2
              BY <7>2
            <7>4. QED
              BY <7>1, <7>3
          <6>2. QED
            BY <4>4, <4>b, <5>1, <6>1
        <5>3. <<"members", m - 2, r[3], With(<<>>, ts[m - 2], x)>> \in L
          <6> HIDE DEF R
          <6>1. Closed(ts, T, L)
            BY PhrasesClosed
          <6> HIDE DEF L
          <6>2. QED
            BY <5>2, <6>1, RulesApply
        <5>5. AreMembers(ts, T, k + 2, r[3])
          BY <5>2, <5>3 DEF AreMembers
        <5>6. QED
          BY <4>3, <4>5, <4>6, <5>5
      <4>7. CASE At(ts, k + 1, ",") /\ AreMembers(ts, T, k + 2, p[3])
        <5>1. PICK s : <<"members", k + 2, p[3], s>> \in L
          BY <4>7 DEF AreMembers
        <5>2. <<"members", k + 2, r[3], With(s, ts[p[3] + 2], x)>> \in L
          BY <4>3, <4>4, <4>a, <4>b, <5>1, PhrasesClosed, RulesApply
        <5>3. AreMembers(ts, T, k + 2, r[3])
          BY <5>2 DEF AreMembers
        <5>4. QED
          BY <4>3, <4>5, <4>7, <5>3
      <4>8. QED
        BY <4>5, <4>6, <4>7
    <3>4. QED
      BY <3>1, <3>2, <3>3
  <2>3. QED
    BY <2>1, <2>2
<1>3. L \subseteq R
  <2>1. Closed(ts, T, R)
    BY <1>2 DEF Closed
  <2>2. Len(ts) \in Nat
    BY DEF IsText
  <2> HIDE DEF R
  <2>3. QED
    BY <2>1, <2>2, PhrasesLeast
<1>4. PICK s : <<"members", i, j, s>> \in L
  BY DEF AreMembers
<1>5. PICK p : p = <<"members", i, j, s>>
  OBVIOUS
<1>6. p[1] = "members" /\ p[2] = i /\ p[3] = j /\ p \in R
  BY <1>3, <1>4, <1>5
<1>7. QED
  BY <1>6
-----------------------------------------------------------------------------
(***************************************************************************)
(* The text that is parsed.                                                *)
(***************************************************************************)

LEMMA TextEndKnown ==
  ASSUME NEW ts, IsText(ts)
  PROVE  /\ TextEnd(ts) \in 0 .. Len(ts)
         /\ \A i \in 1 .. TextEnd(ts) : ts[i] # "NUL"
         /\ TextEnd(ts) = Len(ts) \/ ts[TextEnd(ts) + 1] = "NUL"
<1> DEFINE IsEnd(e) == /\ \A i \in 1 .. e : ts[i] # "NUL"
                       /\ e = Len(ts) \/ ts[e + 1] = "NUL"
           N == {e \in 0 .. Len(ts) : e = Len(ts) \/ ts[e + 1] = "NUL"}
<1>1. Len(ts) \in Nat
  BY DEF IsText
<1>2. N \in SUBSET Nat /\ N # {}
  BY <1>1
<1>3. PICK e \in N : \A m \in N : e <= m
  <2> HIDE DEF N
  <2>1. QED
    BY <1>2, LeastElement
<1>4. e \in 0 .. Len(ts) /\ (e = Len(ts) \/ ts[e + 1] = "NUL")
  OBVIOUS
<1>5. ASSUME NEW i \in 1 .. e PROVE ts[i] # "NUL"
  <2>1. i - 1 \in 0 .. Len(ts) /\ i - 1 + 1 = i /\ ~ e <= i - 1
    BY <1>1, <1>4
  <2>2. i - 1 \notin N
    BY <1>3, <2>1
  <2>3. QED
    BY <2>1, <2>2
<1>6. \E d \in 0 .. Len(ts) : IsEnd(d)
  BY <1>4, <1>5
<1>7. TextEnd(ts) = CHOOSE d \in 0 .. Len(ts) : IsEnd(d)
  BY DEF TextEnd
<1>8. TextEnd(ts) \in 0 .. Len(ts) /\ IsEnd(TextEnd(ts))
  <2> HIDE DEF IsEnd
  <2>1. QED
    BY <1>6, <1>7
<1>9. QED
  BY <1>8

\* The parser has read no further than the text goes.
TextKnown ==
  /\ IsText(input)
  /\ \A i \in 1 .. Len(input) : input[i] # "end"
  /\ position \in 0 .. TextEnd(input)

LEMMA LastToken ==
  ASSUME TextKnown
  PROVE  /\ position \in Nat /\ TextEnd(input) \in Nat
         /\ last_token = "end" <=> position = TextEnd(input)
         /\ position < TextEnd(input) =>
              At(input, position + 1, last_token) /\ last_token # "NUL"
<1>1. /\ TextEnd(input) \in 0 .. Len(input) /\ Len(input) \in Nat
      /\ \A i \in 1 .. TextEnd(input) : input[i] # "NUL"
      /\ TextEnd(input) = Len(input) \/ input[TextEnd(input) + 1] = "NUL"
      /\ DOMAIN input = 1 .. Len(input)
  BY TextEndKnown DEF TextKnown, IsText
<1>2. position \in 0 .. TextEnd(input)
  BY DEF TextKnown
<1>3. CASE position = TextEnd(input)
  BY <1>1, <1>3 DEF last_token
<1>4. CASE position # TextEnd(input)
  <2>1. position + 1 \in 1 .. TextEnd(input) /\ position + 1 \in 1 .. Len(input)
    BY <1>1, <1>2, <1>4
  <2>2. last_token = input[position + 1] /\ input[position + 1] # "NUL"
    <3>1. position # Len(input) /\ input[position + 1] # "NUL"
      <4>1. PICK e \in Nat : e = TextEnd(input)
        BY <1>1
      <4>2. position \in 0 .. e /\ position # e /\ e <= Len(input)
        BY <1>1, <1>2, <1>4, <4>1
      <4>3. position # Len(input)
        <5>a. PICK l \in Nat : l = Len(input)
          BY <1>1
        <5>b. PICK q \in Nat : q = position
          BY <4>2
        <5>1. l = Len(input) /\ q = position
          BY <5>a, <5>b
        <5>2. q <= e /\ q # e /\ e <= l
          BY <4>2, <5>1
        <5>3. QED
          BY <5>1, <5>2
      <4>4. QED
        BY <1>1, <2>1, <4>3
    <3>2. QED
      BY <3>1 DEF last_token
  <2>3. QED
    BY <1>1, <1>2, <1>4, <2>1, <2>2 DEF TextKnown, At
<1>5. QED
  BY <1>1, <1>2, <1>3, <1>4

LEMMA TextStarts ==
  ASSUME ParserInit
  PROVE  TextKnown
<1>1. input \in Seq(Range(input) \ {"end"}) /\ position = 0
  BY JsonParserAssumption DEF ParserInit
<1>2. IsText(input) /\ \A i \in 1 .. Len(input) : input[i] # "end"
  <2> DEFINE S == Range(input) \ {"end"}
  <2>1. input \in Seq(S)
    BY <1>1
  <2>2. "end" \notin S
    OBVIOUS
  <2> HIDE DEF S
  <2>3. \A i \in 1 .. Len(input) : input[i] \in S
    BY <2>1, ElementOfSeq
  <2>4. QED
    BY <2>1, <2>2, <2>3, LenProperties DEF IsText
<1>3. QED
  BY <1>1, <1>2, TextEndKnown DEF TextKnown

\* A token is read, or the position stays.
Advances ==
  /\ input' = input
  /\ \/ position' = position + 1 /\ last_token # "end"
     \/ position' = position

LEMMA TokenRead ==
  ASSUME TextKnown, Advances
  PROVE  TextKnown'
<1>1. CASE position' = position
  BY <1>1 DEF TextKnown, Advances
<1>2. CASE position' = position + 1 /\ last_token # "end"
  <2>1. position' \in 0 .. TextEnd(input)
    BY <1>2, LastToken DEF TextKnown
  <2>2. QED
    BY <2>1 DEF TextKnown, Advances
<1>3. QED
  BY <1>1, <1>2 DEF Advances
-----------------------------------------------------------------------------
(***************************************************************************)
(* A JSON text is not rejected: what has been read of one can always be    *)
(* continued to what it is.                                                *)
(***************************************************************************)

Ending(kind) == IF kind = "array" THEN "]" ELSE end_object

AreItems(ts, T, kind, i, j) ==
  IF kind = "array" THEN AreElements(ts, T, i, j) ELSE AreMembers(ts, T, i, j)

\* After an item that ends at p, the container ends at c.
GoesOn(ts, T, kind, p, c) ==
  p + 1 = c \/ (At(ts, p + 1, ",") /\ AreItems(ts, T, kind, p + 2, c - 1))

\* A container that was opened at p ends at c.
Opens(ts, T, kind, p, c) ==
  At(ts, c, Ending(kind)) /\ (c = p + 1 \/ AreItems(ts, T, kind, p + 1, c - 1))

\* After a value that ends at p, the n innermost of the containers st go on as
\* they should if the container i ends at ends[i].
Follows(ts, T, st, ends, n, p) ==
  IF n = 0 THEN p = TextEnd(ts) ELSE GoesOn(ts, T, st[n], p, ends[n])

Closable(ts, T, st, ends, n) ==
  \A i \in 1 .. n : /\ ends[i] \in 1 .. TextEnd(ts)
                    /\ At(ts, ends[i], Ending(st[i]))
                    /\ Follows(ts, T, st, ends, i - 1, ends[i])

LEMMA SymbolsDistinct ==
  /\ begin_object \in Symbols \ {"[", "]", ":", ",", "end"}
  /\ end_object \in Symbols \ {"[", "]", ":", ",", "end", begin_object}
  /\ {"[", "]", ":", ",", "end"} \subseteq Symbols
  /\ \A t \in Scalars : t \notin Symbols
<1>1. Scalars \cap Symbols = {}
  BY JsonParserAssumption
<1>2. \A t \in Scalars : t \notin Symbols
  BY <1>1
<1>3. /\ begin_object \in Symbols \ {"[", "]", ":", ",", "end"}
      /\ end_object \in Symbols \ {"[", "]", ":", ",", "end", begin_object}
      /\ {"[", "]", ":", ",", "end"} \subseteq Symbols
  BY Zenon DEF Symbols, begin_object, end_object
<1>4. QED
  BY <1>2, <1>3

LEMMA PhraseOrdered ==
  ASSUME NEW ts, IsText(ts), NEW T, NEW a, NEW i, NEW j, NEW x,
         <<a, i, j, x>> \in Phrases(ts, T)
  PROVE  i \in 1 .. Len(ts) /\ j \in i .. Len(ts)
<1>1. PICK c : c = <<a, i, j, x>>
  OBVIOUS
<1>2. OfInput(ts, c)
  BY <1>1, PhrasesDerived
<1>3. c[2] = i /\ c[3] = j
  BY <1>1
<1>4. QED
  BY <1>2, <1>3 DEF OfInput

LEMMA ItemsOrdered ==
  ASSUME NEW ts, IsText(ts), NEW T, NEW kind, NEW i, NEW j,
         AreItems(ts, T, kind, i, j)
  PROVE  i \in 1 .. Len(ts) /\ j \in i .. Len(ts)
  BY PhraseOrdered DEF AreItems, AreElements, AreMembers

LEMMA GoesOnBelow ==
  ASSUME NEW ts, IsText(ts), NEW T, NEW kind, NEW p \in Int, NEW c \in Int,
         GoesOn(ts, T, kind, p, c)
  PROVE  p < c
<1>1. CASE p + 1 = c
  BY <1>1
<1>2. CASE AreItems(ts, T, kind, p + 2, c - 1)
  <2>1. p + 2 \in 1 .. Len(ts) /\ c - 1 \in p + 2 .. Len(ts)
    BY <1>2, ItemsOrdered
  <2>2. QED
    BY <2>1 DEF IsText
<1>3. QED
  BY <1>1, <1>2 DEF GoesOn

\* Such a value lies in the text.
LEMMA FollowsBelow ==
  ASSUME NEW ts, IsText(ts), NEW T, NEW st, NEW ends, NEW n \in Nat,
         Closable(ts, T, st, ends, n),
         NEW p \in Int, Follows(ts, T, st, ends, n, p)
  PROVE  p <= TextEnd(ts)
<1>1. TextEnd(ts) \in Int
  BY TextEndKnown DEF IsText
<1>2. CASE n = 0
  BY <1>1, <1>2 DEF Follows
<1>3. CASE n # 0
  <2>1. GoesOn(ts, T, st[n], p, ends[n]) /\ ends[n] \in 1 .. TextEnd(ts)
    BY <1>3 DEF Follows, Closable
  <2>2. p < ends[n]
    BY <1>1, <2>1, GoesOnBelow
  <2>3. QED
    BY <1>1, <2>1, <2>2
<1>4. QED
  BY <1>2, <1>3

\* The token after p tells what begins there.
LEMMA ValueBegins ==
  ASSUME NEW ts, IsText(ts), NEW T, NEW p \in Int, NEW k, IsValue(ts, T, p + 1, k)
  PROVE  /\ p + 1 \in 1 .. Len(ts) /\ k \in p + 1 .. Len(ts)
         /\ ts[p + 1] \in Scalars \cup {begin_object, "["}
         /\ ts[p + 1] \in Scalars => k = p + 1
         /\ ts[p + 1] = "[" => Opens(ts, T, "array", p + 1, k)
         /\ ts[p + 1] = begin_object => Opens(ts, T, "object", p + 1, k)
<1>1. /\ p + 1 \in 1 .. Len(ts) /\ k \in p + 1 .. Len(ts)
      /\ \/ ts[p + 1] \in Scalars /\ k = p + 1
         \/ /\ At(ts, p + 1, "[") /\ At(ts, k, "]")
            /\ k = p + 1 + 1 \/ AreElements(ts, T, p + 1 + 1, k - 1)
         \/ /\ At(ts, p + 1, begin_object) /\ At(ts, k, end_object)
            /\ k = p + 1 + 1 \/ AreMembers(ts, T, p + 1 + 1, k - 1)
  BY ValueForms
<1>2. CASE ts[p + 1] \in Scalars /\ k = p + 1
  BY <1>1, <1>2, SymbolsDistinct
<1>3. CASE /\ At(ts, p + 1, "[") /\ At(ts, k, "]")
           /\ k = p + 1 + 1 \/ AreElements(ts, T, p + 1 + 1, k - 1)
  <2>1. Opens(ts, T, "array", p + 1, k)
    BY <1>3 DEF Opens, Ending, AreItems
  <2>2. QED
    BY <1>1, <1>3, <2>1, SymbolsDistinct DEF At
<1>4. CASE /\ At(ts, p + 1, begin_object) /\ At(ts, k, end_object)
           /\ k = p + 1 + 1 \/ AreMembers(ts, T, p + 1 + 1, k - 1)
  <2>1. Opens(ts, T, "object", p + 1, k)
    BY <1>4 DEF Opens, Ending, AreItems
  <2>2. QED
    BY <1>1, <1>4, <2>1, SymbolsDistinct DEF At
<1>5. QED
  BY <1>1, <1>2, <1>3, <1>4

LEMMA ElementsBegin ==
  ASSUME NEW ts, IsText(ts), NEW T, NEW i, NEW c \in Int, AreElements(ts, T, i, c - 1)
  PROVE  \E k : IsValue(ts, T, i, k) /\ GoesOn(ts, T, "array", k, c)
<1>1. PICK k : /\ IsValue(ts, T, i, k)
               /\ k = c - 1 \/ (At(ts, k + 1, ",") /\ AreElements(ts, T, k + 2, c - 1))
  BY ElementsForms
<1>2. c - 1 + 1 = c
  OBVIOUS
<1>3. k = c - 1 => k + 1 = c
  BY <1>2
<1>4. QED
  BY <1>1, <1>3 DEF GoesOn, AreItems

LEMMA MembersBegin ==
  ASSUME NEW ts, IsText(ts), NEW T, NEW i, NEW c \in Int, AreMembers(ts, T, i, c - 1)
  PROVE  /\ KeyAt(ts, i)
         /\ \E k : IsValue(ts, T, i + 2, k) /\ GoesOn(ts, T, "object", k, c)
<1>1. PICK k : /\ IsValue(ts, T, i + 2, k)
               /\ k = c - 1 \/ (At(ts, k + 1, ",") /\ AreMembers(ts, T, k + 2, c - 1))
  BY MembersForms
<1>a. c - 1 + 1 = c
  OBVIOUS
<1>b. k = c - 1 => k + 1 = c
  BY <1>a
<1>2. GoesOn(ts, T, "object", k, c)
  BY <1>1, <1>b DEF GoesOn, AreItems
<1>3. KeyAt(ts, i)
  BY MembersForms
<1>4. QED
  BY <1>1, <1>2, <1>3

LEMMA ArrayBegins ==
  ASSUME NEW ts, IsText(ts), NEW T, NEW p \in Int, NEW c \in Int,
         Opens(ts, T, "array", p, c)
  PROVE  /\ ts[p + 1] = "]" => c = p + 1
         /\ ts[p + 1] # "]" =>
              \E k : IsValue(ts, T, p + 1, k) /\ GoesOn(ts, T, "array", k, c)
<1>1. At(ts, c, "]") /\ (c = p + 1 \/ AreElements(ts, T, p + 1, c - 1))
  BY DEF Opens, Ending, AreItems
<1>2. CASE c = p + 1
  BY <1>1, <1>2 DEF At
<1>3. CASE AreElements(ts, T, p + 1, c - 1)
  <2>1. PICK k : IsValue(ts, T, p + 1, k) /\ GoesOn(ts, T, "array", k, c)
    BY <1>3, ElementsBegin
  <2>2. ts[p + 1] \in Scalars \cup {begin_object, "["}
    BY <2>1, ValueBegins
  <2>3. ts[p + 1] # "]"
    BY <2>2, SymbolsDistinct
  <2>4. QED
    BY <2>1, <2>3
<1>4. QED
  BY <1>1, <1>2, <1>3

LEMMA ObjectBegins ==
  ASSUME NEW ts, IsText(ts), NEW T, NEW p \in Int, NEW c \in Int,
         Opens(ts, T, "object", p, c)
  PROVE  /\ ts[p + 1] \in Strings \cup {end_object}
         /\ ts[p + 1] = end_object => c = p + 1
         /\ ts[p + 1] \in Strings =>
              /\ At(ts, p + 2, ":")
              /\ \E k : IsValue(ts, T, p + 3, k) /\ GoesOn(ts, T, "object", k, c)
<1>1. At(ts, c, end_object) /\ (c = p + 1 \/ AreMembers(ts, T, p + 1, c - 1))
  BY DEF Opens, Ending, AreItems
<1>a. \A t \in Strings : t # end_object
  BY SymbolsDistinct, JsonParserAssumption
<1>2. CASE c = p + 1
  BY <1>1, <1>2, <1>a DEF At
<1>3. CASE AreMembers(ts, T, p + 1, c - 1)
  <2>1. PICK k : IsValue(ts, T, p + 1 + 2, k) /\ GoesOn(ts, T, "object", k, c)
    BY <1>3, MembersBegin
  <2>2. KeyAt(ts, p + 1)
    BY <1>3, MembersBegin
  <2>3. p + 1 + 2 = p + 3 /\ p + 1 + 1 = p + 2
    OBVIOUS
  <2>4. QED
    BY <2>1, <2>2, <2>3, <1>a DEF KeyAt
<1>4. QED
  BY <1>1, <1>2, <1>3

LEMMA ItemEnds ==
  ASSUME NEW ts, NEW T, NEW kind, NEW p \in Int, NEW c,
         GoesOn(ts, T, kind, p, c), At(ts, c, Ending(kind))
  PROVE  /\ At(ts, p + 1, ",") \/ At(ts, p + 1, Ending(kind))
         /\ ts[p + 1] = "," => AreItems(ts, T, kind, p + 2, c - 1)
         /\ ts[p + 1] = Ending(kind) => c = p + 1
<1>1. Ending(kind) # ","
  BY SymbolsDistinct DEF Ending
<1>2. QED
  BY <1>1 DEF GoesOn, At

Reading == {"value", "firstElement", "firstKey", "firstSeparator", "separator",
            "nextKey", "array", "object", "end"}

\* What is still to come when the parser is at that place and has read p tokens.
Needed(ts, T, place, st, ends, p) ==
  /\ Closable(ts, T, st, ends, Len(st))
  /\ place = "value" =>
       \E k : IsValue(ts, T, p + 1, k) /\ Follows(ts, T, st, ends, Len(st), k)
  /\ place = "firstElement" =>
       \E c \in Int : Opens(ts, T, "array", p, c) /\ Follows(ts, T, st, ends, Len(st), c)
  /\ place = "firstKey" =>
       \E c \in Int : Opens(ts, T, "object", p, c) /\ Follows(ts, T, st, ends, Len(st), c)
  /\ place = "firstSeparator" =>
       /\ At(ts, p + 1, ":")
       /\ \E c \in Int : \E k : /\ IsValue(ts, T, p + 2, k)
                                /\ GoesOn(ts, T, "object", k, c)
                                /\ At(ts, c, end_object)
                                /\ Follows(ts, T, st, ends, Len(st), c)
  /\ place = "separator" =>
       /\ At(ts, p + 1, ":")
       /\ \E k : IsValue(ts, T, p + 2, k) /\ Follows(ts, T, st, ends, Len(st), k)
  /\ place = "nextKey" => AreMembers(ts, T, p + 1, ends[Len(st)] - 1)
  /\ place \in {"array", "object", "end"} => Follows(ts, T, st, ends, Len(st), p)

CanContinue(ts, T, place, st, p) == \E ends : Needed(ts, T, place, st, ends, p)

CompleteInvariant ==
  IsValue(input, Something, 1, TextEnd(input)) =>
    /\ pc # "rejected"
    /\ pc \in Reading => CanContinue(input, Something, pc, states, position)

\* A container goes on the stack.
LEMMA ContainerEntered ==
  ASSUME NEW ts, IsText(ts), NEW T,
         NEW st \in Seq({"array", "object"}), NEW kind \in {"array", "object"},
         NEW ends, Closable(ts, T, st, ends, Len(st)),
         NEW c \in Int, Follows(ts, T, st, ends, Len(st), c), At(ts, c, Ending(kind)),
         NEW p, NEW k, IsValue(ts, T, p + 1, k), GoesOn(ts, T, kind, k, c)
  PROVE  CanContinue(ts, T, "value", Append(st, kind), p)
<1> DEFINE n == Len(st)
           more == [i \in 1 .. n + 1 |-> IF i = n + 1 THEN c ELSE ends[i]]
           st2 == Append(st, kind)
<1>1. n \in Nat
  BY LenProperties
<1>2. /\ Len(st2) = n + 1 /\ st2[n + 1] = kind
      /\ \A i \in 1 .. n : st2[i] = st[i]
  BY AppendProperties
<1>3. more[n + 1] = c /\ \A i \in 1 .. n : more[i] = ends[i]
  BY <1>1
<1>4. c \in 1 .. TextEnd(ts)
  <2>1. c <= TextEnd(ts)
    BY <1>1, FollowsBelow
  <2>2. c \in 1 .. Len(ts) /\ TextEnd(ts) \in Int
    BY TextEndKnown DEF At, IsText
  <2>3. QED
    BY <2>1, <2>2
<1> HIDE DEF n, more, st2
<1>5. \A i \in 0 .. n : \A q : Follows(ts, T, st2, more, i, q) <=> Follows(ts, T, st, ends, i, q)
  <2>1. SUFFICES ASSUME NEW i \in 0 .. n, NEW q
                 PROVE  Follows(ts, T, st2, more, i, q) <=> Follows(ts, T, st, ends, i, q)
    OBVIOUS
  <2>2. CASE i = 0
    BY <2>2 DEF Follows
  <2>3. CASE i # 0
    <3>1. i \in 1 .. n
      BY <1>1, <2>3
    <3>2. st2[i] = st[i] /\ more[i] = ends[i]
      BY <3>1, <1>2, <1>3
    <3>3. QED
      BY <2>3, <3>2 DEF Follows
  <2>4. QED
    BY <2>2, <2>3
<1>6. Closable(ts, T, st2, more, n + 1)
  <2>1. SUFFICES ASSUME NEW i \in 1 .. n + 1
                 PROVE  /\ more[i] \in 1 .. TextEnd(ts)
                        /\ At(ts, more[i], Ending(st2[i]))
                        /\ Follows(ts, T, st2, more, i - 1, more[i])
    BY DEF Closable
  <2>2. CASE i = n + 1
    <3>1. Follows(ts, T, st2, more, n, c)
      BY <1>1, <1>5 DEF n
    <3>2. i - 1 = n
      BY <1>1, <2>2
    <3>3. QED
      BY <1>2, <1>3, <1>4, <2>2, <3>1, <3>2
  <2>3. CASE i # n + 1
    <3>1. i \in 1 .. n /\ i - 1 \in 0 .. n
      BY <1>1, <2>3
    <3>2. /\ ends[i] \in 1 .. TextEnd(ts)
          /\ At(ts, ends[i], Ending(st[i]))
          /\ Follows(ts, T, st, ends, i - 1, ends[i])
      BY <3>1 DEF Closable, n
    <3>3. QED
      BY <1>2, <1>3, <1>5, <3>1, <3>2
  <2>4. QED
    BY <2>2, <2>3
<1>7. Follows(ts, T, st2, more, n + 1, k)
  BY <1>1, <1>2, <1>3 DEF Follows
<1>8. Needed(ts, T, "value", st2, more, p)
  BY <1>2, <1>6, <1>7 DEF Needed
<1>9. QED
  BY <1>8 DEF CanContinue, st2

\* A container leaves it.
LEMMA ContainerLeft ==
  ASSUME NEW ts, NEW T,
         NEW st \in Seq({"array", "object"}), st # <<>>,
         NEW ends, Closable(ts, T, st, ends, Len(st)),
         NEW p, ends[Len(st)] = p,
         NEW place \in {"array", "object", "end"}
  PROVE  CanContinue(ts, T, place, Front(st), p)
<1> DEFINE n == Len(st) - 1
           st2 == Front(st)
<1>1. /\ Len(st) \in Nat \ {0} /\ n \in Nat /\ n + 1 = Len(st) /\ Len(st2) = n
      /\ \A i \in 1 .. n : st2[i] = st[i]
  BY FrontProperties
<1> HIDE DEF n, st2
<1>2. \A i \in 0 .. n : \A q : Follows(ts, T, st2, ends, i, q) <=> Follows(ts, T, st, ends, i, q)
  <2>1. SUFFICES ASSUME NEW i \in 0 .. n, NEW q
                 PROVE  Follows(ts, T, st2, ends, i, q) <=> Follows(ts, T, st, ends, i, q)
    OBVIOUS
  <2>2. i = 0 \/ i \in 1 .. n
    BY <1>1
  <2>3. i # 0 => st2[i] = st[i]
    BY <1>1, <2>2
  <2>4. QED
    BY <2>3 DEF Follows
<1>3. Closable(ts, T, st2, ends, n)
  <2>1. SUFFICES ASSUME NEW i \in 1 .. n
                 PROVE  /\ ends[i] \in 1 .. TextEnd(ts)
                        /\ At(ts, ends[i], Ending(st2[i]))
                        /\ Follows(ts, T, st2, ends, i - 1, ends[i])
    BY DEF Closable
  <2>2. i \in 1 .. Len(st) /\ i - 1 \in 0 .. n /\ st2[i] = st[i]
    BY <1>1
  <2>3. QED
    BY <1>2, <2>2 DEF Closable
<1>4. Follows(ts, T, st2, ends, n, p)
  <2>1. n + 1 \in 1 .. Len(st) /\ n \in 0 .. n /\ n + 1 - 1 = n
    BY <1>1
  <2>2. Follows(ts, T, st, ends, n, ends[n + 1])
    BY <2>1 DEF Closable
  <2>3. QED
    BY <1>1, <1>2, <2>1, <2>2
<1>5. Needed(ts, T, place, st2, ends, p)
  BY <1>1, <1>3, <1>4 DEF Needed
<1>6. QED
  BY <1>5 DEF CanContinue, st2

LEMMA NextToken ==
  ASSUME TextKnown, position < TextEnd(input) \/ last_token # "end"
  PROVE  /\ position \in Nat /\ TextEnd(input) \in Nat
         /\ position < TextEnd(input)
         /\ At(input, position + 1, last_token) /\ input[position + 1] = last_token
<1>1. /\ position \in 0 .. TextEnd(input) /\ TextEnd(input) \in Nat /\ position \in Nat
      /\ last_token = "end" <=> position = TextEnd(input)
  BY LastToken DEF TextKnown
<1>2. position < TextEnd(input)
  BY <1>1
<1>3. At(input, position + 1, last_token)
  BY <1>2, LastToken
<1>4. QED
  BY <1>1, <1>2, <1>3 DEF At

\* The container the parser is in, by its own stack.
LEMMA StatesKnown ==
  ASSUME ParserInvariant
  PROVE  /\ states \in Seq({"array", "object"}) /\ Len(states) \in Nat
         /\ states = <<>> <=> Len(states) = 0
         /\ Last(states) = states[Len(states)]
         /\ pc = "array" => Len(states) # 0 /\ states[Len(states)] = "array"
         /\ pc \in {"object", "nextKey", "separator"} =>
              Len(states) # 0 /\ states[Len(states)] = "object"
         /\ pc = "end" => Len(states) = 0
<1>1. StacksTyped /\ StacksAgree /\ Forest(nodes)
  BY DEF ParserInvariant
<1>2. /\ Len(states) \in Nat /\ Len(ref_stack) \in Nat
      /\ states = <<>> <=> Len(states) = 0
      /\ ref_stack = <<>> <=> Len(ref_stack) = 0
  BY <1>1, InnermostKnown
<1>3. Last(states) = states[Len(states)]
  BY DEF Last
<1>4. pc = "end" => Len(states) = 0
  BY <1>1, <1>2 DEF StacksAgree
<1>5. /\ pc = "array" => Len(states) # 0 /\ states[Len(states)] = "array"
      /\ pc \in {"object", "nextKey", "separator"} =>
              Len(states) # 0 /\ states[Len(states)] = "object"
  <2>1. CASE pc \in {"array", "object", "nextKey", "separator"}
    <3>1. PlaceKnown
      BY <2>1 DEF ParserInvariant
    <3>2. QED
      BY <1>2, <1>3, <2>1, <3>1 DEF PlaceKnown
  <2>2. QED
    BY <2>1
<1>6. QED
  BY <1>1, <1>2, <1>3, <1>4, <1>5 DEF StacksTyped

\* The parser expects what comes.
LEMMA TokenExpected ==
  ASSUME TextKnown, ParserInvariant, pc \in Reading,
         NEW T, CanContinue(input, T, pc, states, position)
  PROVE  last_token \in Expected
<1> DEFINE p == position
           e == TextEnd(input)
           n == Len(states)
           t == input[position + 1]
           Ahead(ends, k) == Follows(input, T, states, ends, n, k)
<1>1. PICK ends : Needed(input, T, pc, states, ends, p)
  BY DEF CanContinue
<1>2. /\ IsText(input) /\ p \in Nat /\ e \in Nat /\ p \in Int /\ p + 1 \in Int
  BY LastToken DEF TextKnown
<1>3. /\ n \in Nat
      /\ pc = "array" => n # 0 /\ states[n] = "array"
      /\ pc \in {"object", "nextKey", "separator"} => n # 0 /\ states[n] = "object"
      /\ pc = "end" => n = 0
  BY StatesKnown
<1>4. Closable(input, T, states, ends, n)
  BY <1>1 DEF Needed
<1> HIDE DEF n, Ahead
<1>5. \A k \in Int : Ahead(ends, k) => k <= e
  BY <1>2, <1>3, <1>4, FollowsBelow DEF Ahead, n
<1> HIDE DEF p, e, t
<1>6. p < e => last_token = t
  BY NextToken DEF p, e, t
<1>7. \A k \in p + 1 .. Len(input) : k \in Int /\ (k <= e => p < e)
  BY <1>2 DEF IsText
<1>8. CASE pc = "value"
  <2>1. PICK k : IsValue(input, T, p + 1, k) /\ Ahead(ends, k)
    BY <1>1, <1>8 DEF Needed, Ahead, n
  <2>2. k \in p + 1 .. Len(input) /\ t \in Scalars \cup {begin_object, "["}
    BY <1>2, <2>1, ValueBegins DEF t, p
  <2>3. last_token = t
    BY <1>5, <1>6, <1>7, <2>1, <2>2
  <2>4. Expected = Scalars \cup {begin_object, "["}
    BY <1>8 DEF Expected
  <2>5. QED
    BY <2>2, <2>3, <2>4
<1>9. CASE pc = "firstElement"
  <2>1. Expected = {last_token}
    <3>1. /\ pc # "value" /\ pc # "firstKey" /\ pc # "nextKey" /\ pc # "end"
          /\ pc \notin {"firstSeparator", "separator"} /\ pc # "array" /\ pc # "object"
      BY <1>9
    <3>2. QED
      BY <3>1, Zenon DEF Expected
  <2>2. QED
    BY <2>1
<1>10. CASE pc = "firstKey"
  <2>1. PICK c \in Int : Opens(input, T, "object", p, c) /\ Ahead(ends, c)
    BY <1>1, <1>10 DEF Needed, Ahead, n
  <2>2. c = p + 1 \/ AreItems(input, T, "object", p + 1, c - 1)
    BY <2>1 DEF Opens
  <2>3. p < e
    <3>1. CASE AreItems(input, T, "object", p + 1, c - 1)
      <4>1. c - 1 \in p + 1 .. Len(input)
        BY <1>2, <3>1, ItemsOrdered
      <4>2. c <= e
        BY <1>5, <2>1
      <4>3. QED
        BY <1>2, <4>1, <4>2 DEF IsText
    <3>2. CASE c = p + 1
      BY <1>2, <1>5, <2>1, <3>2
    <3>3. QED
      BY <2>2, <3>1, <3>2
  <2>4. t \in Strings \cup {end_object}
    BY <1>2, <2>1, ObjectBegins DEF t, p
  <2>5. Expected = Strings \cup {end_object}
    BY <1>10 DEF Expected
  <2>6. QED
    BY <1>6, <2>3, <2>4, <2>5
<1>11. CASE pc \in {"firstSeparator", "separator"}
  <2>1. At(input, p + 1, ":") /\ p < e
    <3>1. CASE pc = "firstSeparator"
      <4>1. PICK c, k : /\ c \in Int
                        /\ IsValue(input, T, p + 2, k)
                        /\ GoesOn(input, T, "object", k, c)
                        /\ Ahead(ends, c) /\ At(input, p + 1, ":")
        BY <1>1, <3>1 DEF Needed, Ahead, n
      <4>2. k \in p + 2 .. Len(input)
        <5>1. p + 1 + 1 = p + 2
          BY <1>2
        <5>2. QED
          BY <1>2, <4>1, <5>1, ValueBegins
      <4>3. k \in Int /\ k < c /\ c <= e
        BY <1>2, <1>5, <4>1, <4>2, GoesOnBelow DEF IsText
      <4>4. QED
        BY <1>2, <4>1, <4>2, <4>3 DEF IsText
    <3>2. CASE pc = "separator"
      <4>1. PICK k : /\ IsValue(input, T, p + 2, k)
                     /\ Ahead(ends, k) /\ At(input, p + 1, ":")
        BY <1>1, <3>2 DEF Needed, Ahead, n
      <4>2. k \in p + 2 .. Len(input)
        <5>1. p + 1 + 1 = p + 2
          BY <1>2
        <5>2. QED
          BY <1>2, <4>1, <5>1, ValueBegins
      <4>3. k \in Int /\ k <= e
        BY <1>2, <1>5, <4>1, <4>2 DEF IsText
      <4>4. QED
        BY <1>2, <4>1, <4>2, <4>3 DEF IsText
    <3>3. QED
      BY <1>11, <3>1, <3>2
  <2>2. Expected = {":"}
    <3>1. pc # "value" /\ pc # "firstKey" /\ pc # "nextKey"
      BY <1>11
    <3>2. QED
      BY <1>11, <3>1, Zenon DEF Expected
  <2>3. QED
    BY <1>6, <2>1, <2>2 DEF At, t, p
<1>12. CASE pc = "nextKey"
  <2>1. AreMembers(input, T, p + 1, ends[n] - 1) /\ ends[n] \in 1 .. e
    <3>1. n \in 1 .. n
      BY <1>3, <1>12
    <3>2. QED
      BY <1>1, <1>4, <1>12, <3>1 DEF Needed, Closable, n, e
  <2>2. t \in Strings
    BY <1>2, <2>1, MembersBegin DEF KeyAt, t, p
  <2>3. ends[n] - 1 \in p + 1 .. Len(input)
    BY <1>2, <2>1, PhraseOrdered DEF AreMembers
  <2>4. p < e
    BY <1>2, <2>1, <2>3 DEF IsText
  <2>5. Expected = Strings
    BY <1>12 DEF Expected
  <2>6. QED
    BY <1>6, <2>2, <2>4, <2>5
<1>13. CASE pc \in {"array", "object"}
  <2>1. n \in 1 .. n /\ states[n] = pc
    BY <1>3, <1>13
  <2>2. ends[n] \in 1 .. e /\ At(input, ends[n], Ending(pc))
    BY <1>4, <2>1 DEF Closable, e
  <2>3. GoesOn(input, T, pc, p, ends[n])
    BY <1>1, <1>13, <2>1 DEF Needed, Follows, n
  <2>4. p < e
    BY <1>2, <2>2, <2>3, GoesOnBelow
  <2>5. t \in {",", Ending(pc)}
    BY <1>2, <2>2, <2>3, ItemEnds DEF At, t, p
  <2>6. Expected = {",", Ending(pc)}
    <3>1. CASE pc = "array"
      BY <3>1 DEF Expected, Ending
    <3>2. CASE pc = "object"
      <4>1. Ending(pc) = end_object
        BY <3>2 DEF Ending
      <4>2. QED
        BY <3>2, <4>1 DEF Expected
    <3>3. QED
      BY <1>13, <3>1, <3>2
  <2>7. QED
    BY <1>6, <2>4, <2>5, <2>6
<1>14. CASE pc = "end"
  <2>1. p = e
    BY <1>1, <1>3, <1>14 DEF Needed, Follows, n, e
  <2>2. last_token = "end"
    BY <2>1, LastToken DEF p, e
  <2>3. QED
    BY <1>14, <2>2 DEF Expected
<1>15. QED
  BY <1>8, <1>9, <1>10, <1>11, <1>12, <1>13, <1>14 DEF Reading

LEMMA TokenAdvances ==
  ASSUME sax_parse_internal
  PROVE  Advances
<1>1. "end" \notin Scalars /\ \A t \in Symbols \ {"end"} : t # "end"
  BY SymbolsDistinct
<1>2. "end" \notin Strings
  BY <1>1, JsonParserAssumption
<1>3. {begin_object, end_object, "[", "]", ":", ","} \subseteq Symbols \ {"end"}
  BY SymbolsDistinct
<1> USE DEF Advances, Read, Peek
<1>4. CASE ParseScalar
  BY <1>1, <1>4 DEF ParseScalar
<1>5. CASE BeginObject
  BY <1>1, <1>3, <1>5 DEF BeginObject
<1>6. CASE BeginArray
  BY <1>6 DEF BeginArray
<1>7. CASE EmptyContainer
  <2>1. last_token \in {end_object, "]"} /\ Read
    BY <1>7 DEF EmptyContainer
  <2>2. QED
    BY <1>1, <1>3, <2>1
<1>8. CASE FirstElement
  BY <1>8 DEF FirstElement
<1>9. CASE Key
  BY <1>2, <1>9 DEF Key
<1>10. CASE Separator
  BY <1>10 DEF Separator
<1>11. CASE Comma
  BY <1>11 DEF Comma
<1>12. CASE EndContainer
  <2>1. last_token \in {end_object, "]"} /\ Read
    BY <1>12 DEF EndContainer
  <2>2. QED
    BY <1>1, <1>3, <2>1
<1>13. CASE Accept
  BY <1>13 DEF Accept
<1>14. CASE Reject
  BY <1>14 DEF Reject
<1>15. QED
  BY <1>4, <1>5, <1>6, <1>7, <1>8, <1>9, <1>10, <1>11, <1>12, <1>13, <1>14
  DEF sax_parse_internal

\* A value has been read.
LEMMA ContinuesEvaluated ==
  ASSUME NEW ts, NEW T, NEW st, NEW ends, Closable(ts, T, st, ends, Len(st)),
         NEW p, Follows(ts, T, st, ends, Len(st), p),
         NEW place \in {"array", "object", "end"}
  PROVE  CanContinue(ts, T, place, st, p)
  BY DEF CanContinue, Needed

LEMMA EvaluatesTo ==
  ASSUME NEW s, Evaluate(s)
  PROVE  pc' \in {"array", "object", "end"}
  BY DEF Evaluate

LEMMA ValueContinues ==
  ASSUME TextKnown, ParserInvariant,
         ParseScalar \/ BeginArray \/ BeginObject,
         NEW T, CanContinue(input, T, pc, states, position)
  PROVE  CanContinue(input, T, pc', states', position')
<1> DEFINE p == position
           n == Len(states)
<1>1. PICK ends : Needed(input, T, pc, states, ends, p)
  BY DEF CanContinue
<1>2. /\ pc = "value" /\ states' = states /\ position' = p + 1
      /\ last_token # "end" /\ last_token \in Scalars \cup {begin_object, "["}
      /\ last_token \in Scalars => pc' \in {"array", "object", "end"}
      /\ last_token = "[" => pc' = "firstElement"
      /\ last_token = begin_object => pc' = "firstKey"
  <2>1. /\ "end" \notin Scalars /\ begin_object # "end" /\ begin_object # "["
        /\ begin_object \notin Scalars /\ "[" \notin Scalars
    BY SymbolsDistinct
  <2>2. CASE ParseScalar
    BY <2>1, <2>2, EvaluatesTo DEF ParseScalar, Read
  <2>3. CASE BeginArray
    BY <2>1, <2>3 DEF BeginArray, Read
  <2>4. CASE BeginObject
    BY <2>1, <2>4 DEF BeginObject, Read
  <2>5. QED
    BY <2>2, <2>3, <2>4
<1>3. /\ IsText(input) /\ p \in Nat /\ input[p + 1] = last_token
  BY <1>2, NextToken DEF TextKnown
<1>4. Closable(input, T, states, ends, n)
  BY <1>1 DEF Needed
<1>5. PICK k : IsValue(input, T, p + 1, k) /\ Follows(input, T, states, ends, n, k)
  BY <1>1, <1>2 DEF Needed
<1> HIDE DEF p, n
<1>6. /\ k \in p + 1 .. Len(input)
      /\ last_token \in Scalars => k = p + 1
      /\ last_token = "[" => Opens(input, T, "array", p + 1, k)
      /\ last_token = begin_object => Opens(input, T, "object", p + 1, k)
  BY <1>3, <1>5, ValueBegins
<1>7. k \in Int
  BY <1>3, <1>6 DEF IsText
<1>8. CASE last_token \in Scalars
  BY <1>2, <1>4, <1>5, <1>6, <1>8, ContinuesEvaluated DEF n
<1>9. CASE last_token = "["
  <2>1. Needed(input, T, "firstElement", states, ends, p + 1)
    BY <1>4, <1>5, <1>6, <1>7, <1>9 DEF Needed, n
  <2>2. QED
    BY <1>2, <1>9, <2>1 DEF CanContinue
<1>10. CASE last_token = begin_object
  <2>1. Needed(input, T, "firstKey", states, ends, p + 1)
    BY <1>4, <1>5, <1>6, <1>7, <1>10 DEF Needed, n
  <2>2. QED
    BY <1>2, <1>10, <2>1 DEF CanContinue
<1>11. QED
  BY <1>2, <1>8, <1>9, <1>10

LEMMA EmptyContinues ==
  ASSUME TextKnown, ParserInvariant, EmptyContainer,
         NEW T, CanContinue(input, T, pc, states, position)
  PROVE  CanContinue(input, T, pc', states', position')
<1> DEFINE p == position
           n == Len(states)
<1>1. PICK ends : Needed(input, T, pc, states, ends, p)
  BY DEF CanContinue
<1>2. /\ \/ pc = "firstKey" /\ last_token = end_object
         \/ pc = "firstElement" /\ last_token = "]"
      /\ states' = states /\ position' = p + 1 /\ pc' \in {"array", "object", "end"}
  BY EvaluatesTo DEF EmptyContainer, Read
<1>3. /\ IsText(input) /\ p \in Nat /\ input[p + 1] = last_token
  <2>1. last_token # "end"
    BY <1>2, SymbolsDistinct
  <2>2. QED
    BY <2>1, NextToken DEF TextKnown
<1>4. Closable(input, T, states, ends, n)
  BY <1>1 DEF Needed
<1>5. Follows(input, T, states, ends, n, p + 1)
  <2>1. CASE pc = "firstElement"
    <3>1. PICK c \in Int : /\ Opens(input, T, "array", p, c)
                           /\ Follows(input, T, states, ends, n, c)
      BY <1>1, <2>1 DEF Needed
    <3>2. c = p + 1
      BY <1>2, <1>3, <2>1, <3>1, ArrayBegins
    <3>3. QED
      BY <3>1, <3>2
  <2>2. CASE pc = "firstKey"
    <3>1. PICK c \in Int : /\ Opens(input, T, "object", p, c)
                           /\ Follows(input, T, states, ends, n, c)
      BY <1>1, <2>2 DEF Needed
    <3>2. c = p + 1
      BY <1>2, <1>3, <2>2, <3>1, ObjectBegins
    <3>3. QED
      BY <3>1, <3>2
  <2>3. QED
    BY <1>2, <2>1, <2>2
<1>6. QED
  BY <1>2, <1>4, <1>5, ContinuesEvaluated

LEMMA FirstElementContinues ==
  ASSUME TextKnown, ParserInvariant, FirstElement,
         NEW T, CanContinue(input, T, pc, states, position)
  PROVE  CanContinue(input, T, pc', states', position')
<1> DEFINE p == position
           n == Len(states)
<1>1. PICK ends : Needed(input, T, pc, states, ends, p)
  BY DEF CanContinue
<1>2. /\ pc = "firstElement" /\ last_token # "]"
      /\ states' = Append(states, "array") /\ pc' = "value" /\ position' = p
  BY DEF FirstElement, Peek
<1>3. /\ IsText(input) /\ p \in Nat /\ states \in Seq({"array", "object"}) /\ n \in Nat
  BY LastToken, StatesKnown DEF TextKnown
<1>4. Closable(input, T, states, ends, n)
  BY <1>1 DEF Needed
<1>5. PICK c \in Int : Opens(input, T, "array", p, c) /\ Follows(input, T, states, ends, n, c)
  BY <1>1, <1>2 DEF Needed
<1>6. c <= TextEnd(input)
  BY <1>3, <1>4, <1>5, FollowsBelow
<1>7. position < TextEnd(input)
  <2>1. c = p + 1 \/ c - 1 \in p + 1 .. Len(input)
    BY <1>3, <1>5, ItemsOrdered DEF Opens
  <2>2. TextEnd(input) \in Int
    BY LastToken
  <2>3. QED
    BY <1>3, <1>6, <2>1, <2>2 DEF IsText
<1>8. input[p + 1] = last_token
  BY <1>7, NextToken
<1>9. PICK k : IsValue(input, T, p + 1, k) /\ GoesOn(input, T, "array", k, c)
  BY <1>2, <1>3, <1>5, <1>8, ArrayBegins
<1>10. At(input, c, Ending("array"))
  BY <1>5 DEF Opens
<1> HIDE DEF p, n
<1>11. CanContinue(input, T, "value", Append(states, "array"), p)
  BY <1>3, <1>4, <1>5, <1>9, <1>10, ContainerEntered DEF n
<1>12. QED
  BY <1>2, <1>11

LEMMA KeyContinues ==
  ASSUME TextKnown, ParserInvariant, Key,
         NEW T, CanContinue(input, T, pc, states, position)
  PROVE  CanContinue(input, T, pc', states', position')
<1> DEFINE p == position
           n == Len(states)
<1>1. PICK ends : Needed(input, T, pc, states, ends, p)
  BY DEF CanContinue
<1>2. /\ pc \in {"firstKey", "nextKey"} /\ last_token \in Strings
      /\ pc' = IF pc = "firstKey" THEN "firstSeparator" ELSE "separator"
      /\ states' = states /\ position' = p + 1
  BY DEF Key, Read
<1>3. /\ IsText(input) /\ p \in Nat /\ input[p + 1] = last_token
  <2>1. last_token # "end"
    BY <1>2, SymbolsDistinct, JsonParserAssumption
  <2>2. QED
    BY <2>1, NextToken DEF TextKnown
<1>4. Closable(input, T, states, ends, n)
  BY <1>1 DEF Needed
<1>5. p + 1 + 1 = p + 2 /\ p + 1 + 2 = p + 3
  BY <1>3
<1>6. CASE pc = "firstKey"
  <2>1. PICK c \in Int : /\ Opens(input, T, "object", p, c)
                         /\ Follows(input, T, states, ends, n, c)
    BY <1>1, <1>6 DEF Needed
  <2>2. At(input, p + 2, ":")
    BY <1>2, <1>3, <2>1, ObjectBegins
  <2>3. PICK k : IsValue(input, T, p + 3, k) /\ GoesOn(input, T, "object", k, c)
    BY <1>2, <1>3, <2>1, ObjectBegins
  <2>4. At(input, c, end_object)
    BY <2>1 DEF Opens, Ending
  <2> HIDE DEF p, n
  <2>5. Needed(input, T, "firstSeparator", states, ends, p + 1)
    BY <1>4, <1>5, <2>1, <2>2, <2>3, <2>4 DEF Needed, n
  <2>6. QED
    BY <1>2, <1>6, <2>5 DEF CanContinue
<1>7. CASE pc = "nextKey"
  <2>1. /\ AreMembers(input, T, p + 1, ends[n] - 1)
        /\ n \in 1 .. n /\ states[n] = "object"
    BY <1>1, <1>7, StatesKnown DEF Needed
  <2>2. ends[n] \in Int
    <3>1. ends[n] \in 1 .. TextEnd(input)
      BY <1>4, <2>1 DEF Closable
    <3>2. QED
      BY <3>1, LastToken
  <2>3. KeyAt(input, p + 1)
    BY <1>3, <2>1, <2>2, MembersBegin
  <2>4. PICK k : IsValue(input, T, p + 1 + 2, k) /\ GoesOn(input, T, "object", k, ends[n])
    BY <1>3, <2>1, <2>2, MembersBegin
  <2>5. Follows(input, T, states, ends, n, k)
    BY <2>1, <2>4 DEF Follows
  <2>6. At(input, p + 2, ":") /\ IsValue(input, T, p + 1 + 2, k)
    BY <1>5, <2>3, <2>4 DEF KeyAt
  <2> HIDE DEF p, n
  <2>7. Needed(input, T, "separator", states, ends, p + 1)
    BY <1>4, <1>5, <2>5, <2>6 DEF Needed, n
  <2>8. QED
    BY <1>2, <1>7, <2>7 DEF CanContinue
<1>8. QED
  BY <1>2, <1>6, <1>7

LEMMA SeparatorContinues ==
  ASSUME TextKnown, ParserInvariant, Separator,
         NEW T, CanContinue(input, T, pc, states, position)
  PROVE  CanContinue(input, T, pc', states', position')
<1> DEFINE p == position
           n == Len(states)
<1>1. PICK ends : Needed(input, T, pc, states, ends, p)
  BY DEF CanContinue
<1>2. /\ pc \in {"firstSeparator", "separator"}
      /\ states' = IF pc = "firstSeparator" THEN Append(states, "object") ELSE states
      /\ pc' = "value" /\ position' = p + 1
  BY DEF Separator, Read
<1>3. /\ IsText(input) /\ p \in Nat /\ states \in Seq({"array", "object"}) /\ n \in Nat
      /\ p + 1 + 1 = p + 2
  BY LastToken, StatesKnown DEF TextKnown
<1>4. Closable(input, T, states, ends, n)
  BY <1>1 DEF Needed
<1>5. CASE pc = "firstSeparator"
  <2>1. PICK c, k : /\ c \in Int
                    /\ IsValue(input, T, p + 2, k)
                    /\ GoesOn(input, T, "object", k, c)
                    /\ At(input, c, end_object)
                    /\ Follows(input, T, states, ends, n, c)
    BY <1>1, <1>5 DEF Needed
  <2>2. At(input, c, Ending("object")) /\ IsValue(input, T, p + 1 + 1, k)
    BY <1>3, <2>1 DEF Ending
  <2> HIDE DEF p, n
  <2>3. CanContinue(input, T, "value", Append(states, "object"), p + 1)
    BY <1>3, <1>4, <2>1, <2>2, ContainerEntered DEF n
  <2>4. QED
    BY <1>2, <1>5, <2>3
<1>6. CASE pc = "separator"
  <2>1. PICK k : IsValue(input, T, p + 2, k) /\ Follows(input, T, states, ends, n, k)
    BY <1>1, <1>6 DEF Needed
  <2>2. IsValue(input, T, p + 1 + 1, k)
    BY <1>3, <2>1
  <2> HIDE DEF p, n
  <2>3. Needed(input, T, "value", states, ends, p + 1)
    BY <1>4, <2>1, <2>2 DEF Needed, n
  <2>4. QED
    BY <1>2, <1>6, <2>3 DEF CanContinue
<1>7. QED
  BY <1>2, <1>5, <1>6

\* In a container, after one of its items.
LEMMA InContainer ==
  ASSUME TextKnown, ParserInvariant, pc \in {"array", "object"}, last_token # "end",
         NEW T, NEW ends, Needed(input, T, pc, states, ends, position)
  PROVE  LET n == Len(states)
         IN /\ ends[n] \in Int
            /\ last_token = "," => AreItems(input, T, pc, position + 2, ends[n] - 1)
            /\ last_token = Ending(pc) => ends[n] = position + 1
<1> DEFINE n == Len(states)
           p == position
<1>1. n \in 1 .. n /\ states[n] = pc
  BY StatesKnown
<1>2. ends[n] \in 1 .. TextEnd(input) /\ At(input, ends[n], Ending(pc))
  BY <1>1 DEF Needed, Closable
<1>3. GoesOn(input, T, pc, p, ends[n])
  BY <1>1 DEF Needed, Follows
<1>4. p \in Nat /\ input[p + 1] = last_token /\ TextEnd(input) \in Nat
  BY NextToken
<1> HIDE DEF n, p
<1>a. p \in Int
  BY <1>4
<1>b. PICK c : c = ends[n]
  OBVIOUS
<1>c. GoesOn(input, T, pc, p, c) /\ At(input, c, Ending(pc))
  BY <1>2, <1>3, <1>b
<1>5. /\ input[p + 1] = "," => AreItems(input, T, pc, p + 2, c - 1)
      /\ input[p + 1] = Ending(pc) => c = p + 1
  BY <1>a, <1>c, ItemEnds
<1>6. c \in Int
  BY <1>2, <1>4, <1>b
<1>7. /\ ends[n] \in Int
      /\ last_token = "," => AreItems(input, T, pc, p + 2, ends[n] - 1)
      /\ last_token = Ending(pc) => ends[n] = p + 1
  BY <1>4, <1>5, <1>6, <1>b
<1>8. QED
  BY <1>7 DEF n, p

LEMMA CommaContinues ==
  ASSUME TextKnown, ParserInvariant, Comma,
         NEW T, CanContinue(input, T, pc, states, position)
  PROVE  CanContinue(input, T, pc', states', position')
<1> DEFINE p == position
           n == Len(states)
<1>1. PICK ends : Needed(input, T, pc, states, ends, p)
  BY DEF CanContinue
<1>2. /\ pc \in {"array", "object"} /\ last_token = "," /\ last_token # "end"
      /\ pc' = IF pc = "array" THEN "value" ELSE "nextKey"
      /\ states' = states /\ position' = p + 1
  BY DEF Comma, Read
<1>3. IsText(input) /\ p \in Nat /\ p + 1 + 1 = p + 2
  BY LastToken DEF TextKnown
<1>4. Closable(input, T, states, ends, n)
  BY <1>1 DEF Needed
<1>5. ends[n] \in Int /\ AreItems(input, T, pc, p + 2, ends[n] - 1)
  BY <1>1, <1>2, InContainer
<1>6. n \in 1 .. n /\ states[n] = pc
  <2>1. n \in Nat /\ n # 0 /\ states[n] = pc
    BY <1>2, StatesKnown
  <2>2. QED
    BY <2>1
<1>7. CASE pc = "array"
  <2>1. PICK k : IsValue(input, T, p + 2, k) /\ GoesOn(input, T, "array", k, ends[n])
    BY <1>3, <1>5, <1>7, ElementsBegin DEF AreItems
  <2>2. Follows(input, T, states, ends, n, k) /\ IsValue(input, T, p + 1 + 1, k)
    BY <1>3, <1>6, <1>7, <2>1 DEF Follows
  <2> HIDE DEF p, n
  <2>3. Needed(input, T, "value", states, ends, p + 1)
    BY <1>4, <2>2 DEF Needed, n
  <2>4. QED
    BY <1>2, <1>7, <2>3 DEF CanContinue
<1>8. CASE pc = "object"
  <2>1. AreMembers(input, T, p + 1 + 1, ends[n] - 1)
    BY <1>3, <1>5, <1>8 DEF AreItems
  <2> HIDE DEF p, n
  <2>2. Needed(input, T, "nextKey", states, ends, p + 1)
    BY <1>4, <2>1 DEF Needed, n
  <2>3. QED
    BY <1>2, <1>8, <2>2 DEF CanContinue
<1>9. QED
  BY <1>2, <1>7, <1>8

LEMMA EndContinues ==
  ASSUME TextKnown, ParserInvariant, EndContainer,
         NEW T, CanContinue(input, T, pc, states, position)
  PROVE  CanContinue(input, T, pc', states', position')
<1> DEFINE p == position
           n == Len(states)
<1>1. PICK ends : Needed(input, T, pc, states, ends, p)
  BY DEF CanContinue
<1>2. /\ pc \in {"array", "object"} /\ last_token = Ending(pc)
      /\ states' = Front(states) /\ position' = p + 1
      /\ pc' \in {"array", "object", "end"}
  BY EvaluatesTo DEF EndContainer, Read, Popped, Ending
<1>3. last_token # "end"
  BY <1>2, SymbolsDistinct DEF Ending
<1>4. Closable(input, T, states, ends, n)
  BY <1>1 DEF Needed
<1>5. ends[n] = p + 1
  BY <1>1, <1>2, <1>3, InContainer
<1>6. states \in Seq({"array", "object"}) /\ states # <<>>
  BY <1>2, StatesKnown
<1> HIDE DEF p, n
<1>7. CanContinue(input, T, pc', Front(states), p + 1)
  BY <1>2, <1>4, <1>5, <1>6, ContainerLeft DEF n
<1>8. QED
  BY <1>2, <1>7

LEMMA CompleteStarts ==
  ASSUME ParserInit
  PROVE  CompleteInvariant
<1>a. Len(<<>>) = 0 /\ 0 + 1 = 1
  OBVIOUS
<1>1. pc = "value" /\ position = 0 /\ states = <<>> /\ Len(<<>>) = 0 /\ 0 + 1 = 1
  BY <1>a DEF ParserInit
<1>2. ASSUME IsValue(input, Something, 1, TextEnd(input))
      PROVE  CanContinue(input, Something, pc, states, position)
  <2>1. Needed(input, Something, "value", <<>>, <<>>, 0)
    BY <1>1, <1>2 DEF Needed, Closable, Follows
  <2>2. QED
    BY <1>1, <2>1 DEF CanContinue
<1>3. QED
  BY <1>1, <1>2 DEF CompleteInvariant

LEMMA CompleteNext ==
  ASSUME TextKnown, ParserInvariant, CompleteInvariant, [Next]_vars
  PROVE  CompleteInvariant'
<1> DEFINE T == Something
           e == TextEnd(input)
<1>1. CASE sax_parse_internal
  <2>1. input' = input
    BY <1>1, TokenAdvances DEF Advances
  <2>2. SUFFICES ASSUME IsValue(input, T, 1, e)
                 PROVE  /\ pc' # "rejected"
                        /\ pc' \in Reading => CanContinue(input, T, pc', states', position')
    BY <2>1 DEF CompleteInvariant
  <2>3. pc # "rejected" /\ (pc \in Reading => CanContinue(input, T, pc, states, position))
    BY <2>2 DEF CompleteInvariant
  <2>a. \A s : Evaluate(s) => pc' # "rejected"
    BY EvaluatesTo
  <2> HIDE DEF T, e
  <2>4. CASE ParseScalar \/ BeginArray \/ BeginObject
    <3>1. pc = "value" /\ pc' # "rejected"
      BY <2>4, <2>a DEF ParseScalar, BeginArray, BeginObject
    <3>2. QED
      BY <2>3, <2>4, <3>1, ValueContinues DEF Reading
  <2>5. CASE EmptyContainer
    <3>1. pc \in {"firstKey", "firstElement"} /\ pc' # "rejected"
      BY <2>5, <2>a DEF EmptyContainer
    <3>2. QED
      BY <2>3, <2>5, <3>1, EmptyContinues DEF Reading
  <2>6. CASE FirstElement
    <3>1. pc = "firstElement" /\ pc' # "rejected"
      BY <2>6 DEF FirstElement
    <3>2. QED
      BY <2>3, <2>6, <3>1, FirstElementContinues DEF Reading
  <2>7. CASE Key
    <3>1. pc \in {"firstKey", "nextKey"} /\ pc' # "rejected"
      BY <2>7 DEF Key
    <3>2. QED
      BY <2>3, <2>7, <3>1, KeyContinues DEF Reading
  <2>8. CASE Separator
    <3>1. pc \in {"firstSeparator", "separator"} /\ pc' # "rejected"
      BY <2>8 DEF Separator
    <3>2. QED
      BY <2>3, <2>8, <3>1, SeparatorContinues DEF Reading
  <2>9. CASE Comma
    <3>1. pc \in {"array", "object"} /\ pc' # "rejected"
      BY <2>9 DEF Comma
    <3>2. QED
      BY <2>3, <2>9, <3>1, CommaContinues DEF Reading
  <2>10. CASE EndContainer
    <3>1. pc \in {"array", "object"} /\ pc' # "rejected"
      BY <2>10, <2>a DEF EndContainer
    <3>2. QED
      BY <2>3, <2>10, <3>1, EndContinues DEF Reading
  <2>11. CASE Accept
    BY <2>11 DEF Accept, Reading
  <2>12. CASE Reject
    <3>1. last_token \notin Expected
      BY <2>12 DEF Reject
    <3>2. pc \notin Reading
      BY <2>3, <3>1, TokenExpected
    <3>3. Expected = {last_token}
      <4>1. /\ pc # "value" /\ pc # "firstKey" /\ pc # "nextKey" /\ pc # "end"
            /\ pc \notin {"firstSeparator", "separator"} /\ pc # "array" /\ pc # "object"
        BY <3>2 DEF Reading
      <4>2. QED
        BY <4>1, Zenon DEF Expected
    <3>4. QED
      BY <3>1, <3>3
  <2>13. QED
    BY <1>1, <2>4, <2>5, <2>6, <2>7, <2>8, <2>9, <2>10, <2>11, <2>12 DEF sax_parse_internal
<1>2. CASE BeginDestroy
  <2>1. pc' = "destroy"
    BY <1>2 DEF BeginDestroy
  <2>2. QED
    BY <2>1 DEF CompleteInvariant, Reading
<1>3. CASE destroy \/ Returned \/ UNCHANGED vars
  <2>1. UNCHANGED <<input, pc, states, position>>
    BY <1>3 DEF destroy, Returned, vars, parserVars
  <2>2. QED
    BY <2>1 DEF CompleteInvariant
<1>4. QED
  BY <1>1, <1>2, <1>3 DEF Next

\* The parser reads no token behind the end of the text.
LEMMA TextNext ==
  ASSUME TextKnown, [Next]_vars
  PROVE  TextKnown'
<1>1. Advances
  <2>1. CASE sax_parse_internal
    BY <2>1, TokenAdvances
  <2>2. CASE BeginDestroy \/ destroy \/ Returned \/ UNCHANGED vars
    BY <2>2 DEF BeginDestroy, destroy, Returned, vars, parserVars, Advances
  <2>3. QED
    BY <2>1, <2>2 DEF Next
<1>2. QED
  BY <1>1, TokenRead

\* Every JSON text is accepted.
LEMMA NotRejected ==
  ASSUME TextKnown, CompleteInvariant, pc = "rejected"
  PROVE  <<"value", 1, TextEnd(input), 1>> \notin Phrases(input, Something)
  BY DEF CompleteInvariant, IsValue
-----------------------------------------------------------------------------
(***************************************************************************)
(* What is accepted is a JSON text, and what has been built is its value:  *)
(* each container holds what the tokens denote that have been read of it,  *)
(* and the container or the member that is still to come.                  *)
(***************************************************************************)

\* The values to which nothing can be added any more.
Finished == [n \in DOMAIN nodes \ Range(ref_stack) |-> {nodes[n]}]

Opening(kind) == IF kind = "array" THEN "[" ELSE begin_object

Items(kind) == IF kind = "array" THEN "elements" ELSE "members"

\* The items v and one more, x, which has the name k if it is a member.
Placed(kind, v, k, x) == IF kind = "array" THEN Append(v, x) ELSE With(v, k, x)

\* In a container that begins at s, of which L denotes that it holds v so far,
\* the next value begins behind the token p.
Due(ts, L, kind, s, p, v) ==
  IF kind = "array"
    THEN \/ p = s /\ v = <<>>
         \/ At(ts, p, ",") /\ <<"elements", s + 1, p - 1, v>> \in L
    ELSE /\ KeyAt(ts, p - 1)
         /\ \/ p = s + 2 /\ v = <<>>
            \/ At(ts, p - 2, ",") /\ <<"members", s + 1, p - 3, v>> \in L

\* The last value in the container r, which begins at s, is x, which begins at q.
Holds(ts, L, ns, r, s, q, x) ==
  \E v : /\ Due(ts, L, ns[r].kind, s, q - 1, v)
         /\ ns[r].value = Placed(ns[r].kind, v, ts[q - 2], x)

\* The open containers, which begin at those tokens.
Frames(ts, L, ns, rs, starts) ==
  /\ \A i, j \in 1 .. Len(rs) : rs[i] = rs[j] => i = j
  /\ \A i \in 1 .. Len(rs) :
       /\ starts[i] \in Nat
       /\ At(ts, starts[i], Opening(ns[rs[i]].kind))
       /\ IF i = 1 THEN starts[i] = 1 /\ rs[i] = 1
          ELSE Holds(ts, L, ns, rs[i - 1], starts[i - 1], starts[i], rs[i])

\* What the innermost of them, the value node which begins at s, holds when p
\* tokens have been read and the member of that name is the next.
Top(ts, L, place, node, s, name, p) ==
  /\ place = "value" =>
       /\ Due(ts, L, node.kind, s, p, node.value)
       /\ node.kind = "object" => name = ts[p - 1]
  /\ place \in {"firstElement", "firstKey"} => p = s /\ node.value = <<>>
  /\ place \in {"firstSeparator", "separator"} =>
       /\ p \in DOMAIN ts /\ ts[p] \in Strings /\ name = ts[p]
       /\ \/ place = "firstSeparator" /\ p = s + 1 /\ node.value = <<>>
          \/ /\ place = "separator" /\ At(ts, p - 1, ",")
             /\ <<"members", s + 1, p - 2, node.value>> \in L
  /\ place \in {"array", "object"} => <<Items(node.kind), s + 1, p, node.value>> \in L
  /\ place = "nextKey" => At(ts, p, ",") /\ <<"members", s + 1, p - 1, node.value>> \in L

\* Outside of all containers: before the value, and behind it.
Outside(ts, L, place, ns, p) ==
  /\ place = "value" => p = 0 /\ ns = <<>>
  /\ place \in {"end", "accepted"} => <<"value", 1, p, 1>> \in L
  /\ place = "accepted" => p = TextEnd(ts)

Meant(ts, L, place, ns, rs, name, p) ==
  \E starts :
    /\ Frames(ts, L, ns, rs, starts)
    /\ IF Len(rs) = 0 THEN Outside(ts, L, place, ns, p)
       ELSE Top(ts, L, place, ns[rs[Len(rs)]], starts[Len(rs)], name, p)

SoundInvariant ==
  pc \notin {"rejected", "destroy"} =>
    Meant(input, Phrases(input, Finished), pc, nodes, ref_stack,
            object_element[2], position)

LEMMA DueGrows ==
  ASSUME NEW ts, NEW L, NEW M, L \subseteq M, NEW kind, NEW s, NEW p, NEW v,
         Due(ts, L, kind, s, p, v)
  PROVE  Due(ts, M, kind, s, p, v)
  BY DEF Due

LEMMA HoldsGrows ==
  ASSUME NEW ts, NEW L, NEW M, L \subseteq M, NEW ns, NEW r, NEW s, NEW q, NEW x,
         Holds(ts, L, ns, r, s, q, x)
  PROVE  Holds(ts, M, ns, r, s, q, x)
  BY DueGrows DEF Holds

\* The value that was due has come.
LEMMA ItemArrives ==
  ASSUME NEW ts, NEW T, NEW L, Closed(ts, T, L),
         NEW kind, NEW s \in Int, NEW p \in Int, NEW v, Due(ts, L, kind, s, p, v),
         NEW q, NEW x, <<"value", p + 1, q, x>> \in L
  PROVE  <<Items(kind), s + 1, q, Placed(kind, v, ts[p - 1], x)>> \in L
<1>1. CASE kind = "array" /\ p = s /\ v = <<>>
  <2>1. <<"elements", p + 1, q, <<x>> >> \in L
    BY RulesApply
  <2>2. Append(<<>>, x) = <<x>>
    OBVIOUS
  <2>3. QED
    BY <1>1, <2>1, <2>2 DEF Items, Placed
<1>2. CASE kind = "array" /\ At(ts, p, ",") /\ <<"elements", s + 1, p - 1, v>> \in L
  <2>1. p - 1 + 1 = p /\ p - 1 + 2 = p + 1
    OBVIOUS
  <2>2. PICK j : j = p - 1
    OBVIOUS
  <2>3. At(ts, j + 1, ",") /\ <<"value", j + 2, q, x>> \in L /\ <<"elements", s + 1, j, v>> \in L
    BY <1>2, <2>1, <2>2
  <2>4. <<"elements", s + 1, q, Append(v, x)>> \in L
    BY <2>3, RulesApply
  <2>5. QED
    BY <1>2, <2>4 DEF Items, Placed
<1>3. CASE kind # "array" /\ KeyAt(ts, p - 1) /\ p = s + 2 /\ v = <<>>
  <2>1. PICK i : i = p + 1
    OBVIOUS
  <2>2. i - 2 = p - 1 /\ p - 1 = s + 1
    BY <1>3, <2>1
  <2>3. <<"members", i - 2, q, With(<<>>, ts[i - 2], x)>> \in L
    BY <1>3, <2>1, <2>2, RulesApply
  <2>4. QED
    BY <1>3, <2>2, <2>3 DEF Items, Placed
<1>4. CASE /\ kind # "array" /\ KeyAt(ts, p - 1) /\ At(ts, p - 2, ",")
           /\ <<"members", s + 1, p - 3, v>> \in L
  <2>1. PICK j \in Int : j = p - 3
    OBVIOUS
  <2>2. j + 1 = p - 2 /\ j + 2 = p - 1 /\ j + 4 = p + 1
    BY <2>1
  <2>3. /\ <<"members", s + 1, j, v>> \in L /\ At(ts, j + 1, ",") /\ KeyAt(ts, j + 2)
        /\ <<"value", j + 4, q, x>> \in L
    BY <1>4, <2>1, <2>2
  <2>4. <<"members", s + 1, q, With(v, ts[j + 2], x)>> \in L
    BY <2>3, RulesApply
  <2>5. QED
    BY <1>4, <2>2, <2>4 DEF Items, Placed
<1>5. QED
  BY <1>1, <1>2, <1>3, <1>4 DEF Due

\* The frames stay what they are when values are added and those that were there
\* change only as they may.
LEMMA FramesKept ==
  ASSUME NEW ts, NEW L, NEW M, L \subseteq M,
         NEW ns, NEW new, NEW rs, NEW starts, Len(rs) \in Nat,
         Frames(ts, L, ns, rs, starts),
         \A i \in 1 .. Len(rs) : new[rs[i]].kind = ns[rs[i]].kind,
         \A i \in 1 .. Len(rs) - 1 : new[rs[i]] = ns[rs[i]]
  PROVE  Frames(ts, M, new, rs, starts)
<1>1. ASSUME NEW i \in 1 .. Len(rs), i # 1
      PROVE  Holds(ts, M, new, rs[i - 1], starts[i - 1], starts[i], rs[i])
  <2>1. i - 1 \in 1 .. Len(rs) - 1
    BY <1>1
  <2>2. Holds(ts, L, ns, rs[i - 1], starts[i - 1], starts[i], rs[i])
    BY <1>1 DEF Frames
  <2>3. Holds(ts, L, new, rs[i - 1], starts[i - 1], starts[i], rs[i])
    <3>1. new[rs[i - 1]] = ns[rs[i - 1]]
      BY <2>1
    <3>2. QED
      BY <2>2, <3>1 DEF Holds
  <2>4. QED
    BY <2>3, HoldsGrows
<1>2. QED
  BY <1>1 DEF Frames

\* A value, x, that begins at q has been read to the end: it is due in the
\* innermost container, or is the whole text.
LEMMA ItemDenoted ==
  ASSUME NEW ts, NEW T, NEW L, Closed(ts, T, L), NEW ns, NEW rs, Len(rs) \in Nat,
         NEW starts, Frames(ts, L, ns, rs, starts),
         NEW q \in Int, NEW p, NEW x, <<"value", q, p, x>> \in L,
         IF Len(rs) = 0 THEN q = 1 /\ x = 1
         ELSE Holds(ts, L, ns, rs[Len(rs)], starts[Len(rs)], q, x),
         NEW place \in {"array", "object", "end"},
         place = "end" <=> Len(rs) = 0,
         NEW name
  PROVE  Meant(ts, L, place, ns, rs, name, p)
<1>1. CASE Len(rs) = 0
  <2>1. Outside(ts, L, place, ns, p)
    BY <1>1 DEF Outside
  <2>2. QED
    BY <1>1, <2>1 DEF Meant
<1>2. CASE Len(rs) # 0
  <2> DEFINE m == Len(rs)
             node == ns[rs[m]]
             s == starts[m]
  <2>1. s \in Int /\ q - 1 \in Int /\ q - 1 + 1 = q /\ q - 1 - 1 = q - 2
    <3>1. m \in 1 .. m
      BY <1>2
    <3>2. QED
      BY <3>1 DEF Frames
  <2>2. PICK v : /\ Due(ts, L, node.kind, s, q - 1, v)
                 /\ node.value = Placed(node.kind, v, ts[q - 2], x)
    BY <1>2 DEF Holds
  <2> HIDE DEF m, node, s
  <2>3. PICK b \in Int : b = q - 1
    BY <2>1
  <2>4. <<"value", b + 1, p, x>> \in L /\ Due(ts, L, node.kind, s, b, v) /\ b - 1 = q - 2
    BY <2>1, <2>2, <2>3
  <2>5. <<Items(node.kind), s + 1, p, Placed(node.kind, v, ts[b - 1], x)>> \in L
    BY <2>1, <2>4, ItemArrives
  <2>6. <<Items(node.kind), s + 1, p, node.value>> \in L
    BY <2>2, <2>4, <2>5
  <2>7. Top(ts, L, place, node, s, name, p)
    BY <1>2, <2>6 DEF Top
  <2>8. QED
    BY <1>2, <2>7 DEF Meant, m, node, s
<1>3. QED
  BY <1>1, <1>2

LEMMA TextsGrow ==
  ASSUME NEW ts, NEW T, NEW U,
         \A x \in DOMAIN T : x \in DOMAIN U /\ T[x] \subseteq U[x],
         NEW D
  PROVE  Consequences(ts, T, D) \subseteq Consequences(ts, U, D)
<1>1. \A i, j, v : TextsOf(T, i, j, v) \subseteq TextsOf(U, i, j, v)
  BY DEF TextsOf
<1>2. ScalarTexts(ts, T) \subseteq ScalarTexts(ts, U)
  BY <1>1 DEF ScalarTexts
<1>3. EmptyArrayTexts(ts, T) \subseteq EmptyArrayTexts(ts, U)
  BY <1>1 DEF EmptyArrayTexts
<1>4. EmptyObjectTexts(ts, T) \subseteq EmptyObjectTexts(ts, U)
  BY <1>1 DEF EmptyObjectTexts
<1>5. ArrayTexts(ts, T, D) \subseteq ArrayTexts(ts, U, D)
  BY <1>1 DEF ArrayTexts
<1>6. ObjectTexts(ts, T, D) \subseteq ObjectTexts(ts, U, D)
  BY <1>1 DEF ObjectTexts
<1>7. QED
  BY <1>2, <1>3, <1>4, <1>5, <1>6 DEF Consequences

\* More values, more phrases.
LEMMA PhrasesGrow ==
  ASSUME NEW ts, IsText(ts), NEW T, NEW U,
         \A x \in DOMAIN T : x \in DOMAIN U /\ T[x] \subseteq U[x]
  PROVE  Phrases(ts, T) \subseteq Phrases(ts, U)
<1> DEFINE M == Phrases(ts, U)
<1>1. Closed(ts, U, M)
  BY PhrasesClosed
<1>2. Len(ts) \in Nat
  BY DEF IsText
<1> HIDE DEF M
<1>3. Consequences(ts, T, M) \subseteq Consequences(ts, U, M)
  BY TextsGrow
<1>4. Closed(ts, T, M)
  BY <1>1, <1>3 DEF Closed
<1>5. Phrases(ts, T) \subseteq M
  BY <1>2, <1>4, PhrasesLeast
<1>6. QED
  BY <1>5 DEF M

LEMMA FinishedGrows ==
  ASSUME IsText(input),
         \A n \in DOMAIN nodes \ Range(ref_stack) :
           n \in DOMAIN nodes' \ Range(ref_stack') /\ nodes'[n] = nodes[n]
  PROVE  Phrases(input, Finished) \subseteq Phrases(input, Finished')
<1> DEFINE T == Finished
           U == Finished'
<1>1. \A x \in DOMAIN T : x \in DOMAIN U /\ T[x] \subseteq U[x]
  BY DEF Finished
<1> HIDE DEF T, U
<1>2. Phrases(input, T) \subseteq Phrases(input, U)
  BY <1>1, PhrasesGrow
<1>3. QED
  BY <1>2 DEF T, U

LEMMA FinishedContains ==
  ASSUME NEW x \in DOMAIN nodes' \ Range(ref_stack')
  PROVE  MayContain(Finished', x, nodes'[x])
  BY DEF MayContain, Finished

\* What handle_value does.
LEMMA HandledValue ==
  ASSUME ParserInvariant, pc = "value", NEW v, IsNew(v), handle_value(v)
  PROVE  LET m == Len(ref_stack)
             r == ref_stack[m]
         IN /\ Len(nodes) \in Nat /\ m \in Nat /\ NewNode = Len(nodes) + 1
            /\ DOMAIN nodes = 1 .. Len(nodes) /\ DOMAIN nodes' = 1 .. NewNode
            /\ nodes'[NewNode] = v
            /\ ref_stack \in Seq(1 .. Len(nodes))
            /\ \A n \in 1 .. Len(nodes) :
                 nodes'[n].kind = nodes[n].kind /\ ((m # 0 /\ n = r) \/ nodes'[n] = nodes[n])
            /\ m = 0 => nodes = <<>>
            /\ m # 0 =>
                 /\ r \in 1 .. Len(nodes) /\ nodes[r].kind \in {"array", "object"}
                 /\ nodes'[r].value =
                      Placed(nodes[r].kind, nodes[r].value, object_element[2], NewNode)
<1>1. Forest(nodes) /\ StacksTyped /\ StacksAgree /\ HasPlace
  BY ValuePlaced DEF ParserInvariant
<1>2. Extends(nodes', nodes, v)
  BY <1>1, ValueHandled
<1>3. /\ nodes \in Seq(Range(nodes)) /\ Len(nodes) \in Nat /\ DOMAIN nodes = 1 .. Len(nodes)
      /\ Len(nodes') = NewNode /\ DOMAIN nodes' = 1 .. NewNode
      /\ nodes'[NewNode] = v /\ NewNode = Len(nodes) + 1
      /\ \A n \in 1 .. Len(nodes) : nodes'[n].kind = nodes[n].kind
  BY <1>1, <1>2, LenProperties DEF Forest, NodesTyped, Extends, NewNode
<1>4. /\ Len(ref_stack) \in Nat /\ (ref_stack = <<>> <=> Len(ref_stack) = 0)
      /\ ref_stack \in Seq(1 .. Len(nodes))
  BY <1>1, InnermostKnown DEF StacksTyped
<1>5. CASE ref_stack = <<>>
  <2>1. nodes = <<>>
    BY <1>1, <1>5 DEF HasPlace
  <2>2. Len(nodes) = 0
    BY <2>1
  <2>3. QED
    BY <1>3, <1>4, <1>5, <2>1, <2>2
<1>6. CASE ref_stack # <<>>
  <2> DEFINE p == Innermost
             old == nodes[p].value
             w == Placed(nodes[p].kind, old, object_element[2], NewNode)
  <2>1. /\ p \in 1 .. Len(nodes) /\ nodes[p].kind # "scalar"
        /\ nodes[p].kind = "object" => object_element[1] = p
    BY <1>1, <1>6 DEF HasPlace, Node
  <2>2. nodes[p].kind \in {"array", "object"} /\ nodes[p] = [kind |-> nodes[p].kind, value |-> old]
    BY <1>1, <2>1 DEF Forest, NodesTyped, IsNode
  <2>3. nodes' = Append(Refilled(nodes, p, w), v)
    BY <1>6, <2>1, <2>2 DEF handle_value, Node, Assigned, Refilled, Placed
  <2>4. p = ref_stack[Len(ref_stack)]
    BY DEF Innermost, Last
  <2> DEFINE mid == Refilled(nodes, p, w)
             S == Range(nodes) \cup {[nodes[p] EXCEPT !.value = w], v}
  <2>5. /\ mid \in Seq(S) /\ Len(mid) = Len(nodes)
        /\ \A n \in 1 .. Len(nodes) : n # p => mid[n] = nodes[n]
        /\ mid[p] = [nodes[p] EXCEPT !.value = w]
    <3>1. nodes \in Seq(S)
      <4>1. Range(nodes) \subseteq S
        OBVIOUS
      <4> HIDE DEF S
      <4>2. QED
        BY <1>3, <4>1, SeqMonotonic
    <3>2. [nodes[p] EXCEPT !.value = w] \in S
      OBVIOUS
    <3>3. mid = [nodes EXCEPT ![p] = [nodes[p] EXCEPT !.value = w]]
      BY DEF Refilled
    <3> DEFINE f == [nodes[p] EXCEPT !.value = w]
    <3> HIDE DEF S, w, p, f
    <3>4. [nodes EXCEPT ![p] = f] \in Seq(S) /\ Len([nodes EXCEPT ![p] = f]) = Len(nodes)
      BY <2>1, <3>1, <3>2, <1>3, ExceptSeq DEF f
    <3>5. /\ \A n \in 1 .. Len(nodes) : n # p => [nodes EXCEPT ![p] = f][n] = nodes[n]
          /\ [nodes EXCEPT ![p] = f][p] = f
      BY <1>3, <2>1
    <3>6. QED
      BY <3>3, <3>4, <3>5 DEF f
  <2>6. \A n \in 1 .. Len(nodes) : nodes'[n] = mid[n]
    <3>1. v \in S
      OBVIOUS
    <3> HIDE DEF S, mid, w, p
    <3>2. \A n \in 1 .. Len(mid) : Append(mid, v)[n] = mid[n]
      BY <2>5, <3>1, AppendProperties
    <3>3. QED
      BY <2>3, <2>5, <3>2 DEF mid
  <2>7. mid[p].value = w
    BY <2>2, <2>5
  <2> HIDE DEF mid, p, w, old, S
  <2>8. nodes'[p].value = w /\ \A n \in 1 .. Len(nodes) : n # p => nodes'[n] = nodes[n]
    BY <2>1, <2>5, <2>6, <2>7
  <2>9. Len(ref_stack) # 0
    BY <1>4, <1>6
  <2>10. LET r == ref_stack[Len(ref_stack)]
         IN /\ \A n \in 1 .. Len(nodes) : n # r => nodes'[n] = nodes[n]
            /\ r \in 1 .. Len(nodes) /\ nodes[r].kind \in {"array", "object"}
            /\ nodes'[r].value =
                      Placed(nodes[r].kind, nodes[r].value, object_element[2], NewNode)
    BY <2>1, <2>2, <2>4, <2>8 DEF w, old
  <2>11. QED
    BY <1>3, <1>4, <2>9, <2>10
<1>7. QED
  BY <1>5, <1>6

\* No container is open behind the value of the text.
LEMMA StateOfStack ==
  ASSUME ParserInvariant', pc' \in {"array", "object", "end"}
  PROVE  pc' = "end" <=> Len(ref_stack') = 0
<1>1. StacksTyped' /\ StacksAgree' /\ Forest(nodes') /\ PlaceKnown'
  BY DEF ParserInvariant
<1>2. /\ Len(states') \in Nat /\ Len(ref_stack') \in Nat
      /\ states' = <<>> <=> Len(states') = 0
      /\ ref_stack' = <<>> <=> Len(ref_stack') = 0
  BY <1>1, EmptySeq, LenProperties DEF StacksTyped
<1>3. Len(ref_stack') = Len(states')
  BY <1>1, <1>2 DEF StacksAgree
<1>4. CASE pc' = "end"
  BY <1>1, <1>2, <1>4 DEF StacksAgree
<1>5. CASE pc' \in {"array", "object"}
  BY <1>1, <1>2, <1>3, <1>5 DEF PlaceKnown
<1>6. QED
  BY <1>4, <1>5

\* A value takes its place.
LEMMA ValueAdded ==
  ASSUME TextKnown, ParserInvariant, SoundInvariant, pc = "value",
         NEW v, IsNew(v), handle_value(v), input' = input,
         Range(ref_stack') \subseteq Range(ref_stack) \cup {NewNode}
  PROVE  \E starts :
           LET M == Phrases(input, Finished')
               m == Len(ref_stack)
           IN /\ m \in Nat
              /\ Frames(input, M, nodes', ref_stack, starts)
              /\ NewNode \notin Range(ref_stack) /\ NewNode \in DOMAIN nodes'
              /\ \A i \in 1 .. m : ref_stack[i] # NewNode
              /\ nodes'[NewNode] = v
              /\ IF m = 0 THEN position + 1 = 1 /\ NewNode = 1
                 ELSE Holds(input, M, nodes', ref_stack[m], starts[m], position + 1, NewNode)
<1> DEFINE L == Phrases(input, Finished)
           M == Phrases(input, Finished')
           m == Len(ref_stack)
           r == ref_stack[m]
<1>1. PICK starts :
        /\ Frames(input, L, nodes, ref_stack, starts)
        /\ IF m = 0 THEN Outside(input, L, "value", nodes, position)
           ELSE Top(input, L, "value", nodes[r], starts[m], object_element[2], position)
  BY DEF SoundInvariant, Meant
<1>2. /\ Len(nodes) \in Nat /\ m \in Nat /\ NewNode = Len(nodes) + 1
      /\ DOMAIN nodes = 1 .. Len(nodes) /\ DOMAIN nodes' = 1 .. NewNode
      /\ nodes'[NewNode] = v
      /\ ref_stack \in Seq(1 .. Len(nodes))
      /\ m = 0 => nodes = <<>>
  BY HandledValue
<1>3. \A n \in 1 .. Len(nodes) :
        nodes'[n].kind = nodes[n].kind /\ ((m # 0 /\ n = r) \/ nodes'[n] = nodes[n])
  BY HandledValue
<1>4. m # 0 =>
        /\ r \in 1 .. Len(nodes) /\ nodes[r].kind \in {"array", "object"}
        /\ nodes'[r].value = Placed(nodes[r].kind, nodes[r].value, object_element[2], NewNode)
  BY HandledValue
<1>5. \A i \in 1 .. m : ref_stack[i] \in 1 .. Len(nodes) /\ ref_stack[i] \in Range(ref_stack)
  BY <1>2, ElementOfSeq, LenProperties DEF Range
<1>6. Range(ref_stack) \subseteq 1 .. Len(nodes) /\ NewNode \notin 1 .. Len(nodes)
  BY <1>2, RangeOfSeq DEF Range
<1>7. L \subseteq M
  <2>1. ASSUME NEW n \in DOMAIN nodes \ Range(ref_stack)
        PROVE  n \in DOMAIN nodes' \ Range(ref_stack') /\ nodes'[n] = nodes[n]
    <3>1. n \in 1 .. Len(nodes) /\ n \in DOMAIN nodes' /\ n # NewNode
      BY <1>2
    <3>2. m # 0 => n # r
      <4>1. m # 0 => m \in 1 .. m
        BY <1>2
      <4>2. QED
        BY <1>5, <4>1
    <3>3. QED
      BY <1>3, <3>1, <3>2
  <2>2. IsText(input)
    BY DEF TextKnown
  <2> HIDE DEF m, r, L, M
  <2>3. QED
    BY <2>1, <2>2, FinishedGrows DEF L, M
<1> HIDE DEF L, M, m, r
<1>8. Frames(input, M, nodes', ref_stack, starts)
  <2>1. \A i \in 1 .. m : nodes'[ref_stack[i]].kind = nodes[ref_stack[i]].kind
    BY <1>3, <1>5
  <2>2. \A i \in 1 .. m - 1 : nodes'[ref_stack[i]] = nodes[ref_stack[i]]
    <3>1. SUFFICES ASSUME NEW i \in 1 .. m - 1 PROVE nodes'[ref_stack[i]] = nodes[ref_stack[i]]
      OBVIOUS
    <3>2. i \in 1 .. m /\ m \in 1 .. m /\ i # m
      BY <1>2
    <3>3. ref_stack[i] # r
      BY <1>1, <3>2 DEF Frames, m, r
    <3>4. QED
      BY <1>3, <1>5, <3>2, <3>3
  <2>3. QED
    BY <1>1, <1>2, <1>7, <2>1, <2>2, FramesKept DEF m
<1>9. CASE m = 0
  <2>1. position = 0 /\ Len(nodes) = 0
    BY <1>1, <1>2, <1>9 DEF Outside
  <2>2. position + 1 = 1 /\ NewNode = 1
    BY <1>2, <2>1
  <2>3. QED
    BY <1>2, <1>5, <1>6, <1>8, <1>9, <2>2 DEF m, M
<1>10. CASE m # 0
  <2>1. /\ Due(input, L, nodes[r].kind, starts[m], position, nodes[r].value)
        /\ nodes[r].kind = "object" => object_element[2] = input[position - 1]
    BY <1>1, <1>10 DEF Top
  <2>3. Due(input, M, nodes[r].kind, starts[m], position, nodes[r].value)
    BY <1>7, <2>1, DueGrows
  <2>4. nodes'[r].value
          = Placed(nodes[r].kind, nodes[r].value, input[position - 1], NewNode)
    BY <1>4, <1>10, <2>1 DEF Placed
  <2>5. nodes'[r].kind = nodes[r].kind
    BY <1>3, <1>4, <1>10
  <2>6. Holds(input, M, nodes', r, starts[m], position + 1, NewNode)
    <3>1. PICK b \in Int : b = position + 1
      BY LastToken
    <3>2. b - 1 = position /\ b - 2 = position - 1
      <4>1. position \in Nat
        BY LastToken
      <4>2. PICK q \in Nat : q = position
        BY <4>1
      <4>3. b = q + 1
        BY <3>1, <4>2
      <4>4. b - 1 = q /\ b - 2 = q - 1
        BY <4>3
      <4>5. QED
        BY <4>2, <4>4
    <3>3. PICK w : w = nodes[r].value
      OBVIOUS
    <3>4. /\ Due(input, M, nodes'[r].kind, starts[m], b - 1, w)
          /\ nodes'[r].value = Placed(nodes'[r].kind, w, input[b - 2], NewNode)
      BY <2>3, <2>4, <2>5, <3>2, <3>3
    <3>5. Holds(input, M, nodes', r, starts[m], b, NewNode)
      BY <3>4 DEF Holds
    <3>6. QED
      BY <3>1, <3>5
  <2>7. QED
    BY <1>2, <1>5, <1>6, <1>8, <1>10, <2>6 DEF m, r, M
<1>11. QED
  BY <1>9, <1>10

LEMMA ParseScalarSound ==
  ASSUME TextKnown, ParserInvariant, ParserInvariant', SoundInvariant, ParseScalar
  PROVE  SoundInvariant'
<1> DEFINE M == Phrases(input, Finished')
           m == Len(ref_stack)
           v == Scalar(last_token)
<1>1. /\ pc = "value" /\ last_token \in Scalars /\ handle_value(v)
      /\ UNCHANGED <<ref_stack, object_element, input>>
      /\ position' = position + 1 /\ Evaluate(states)
  BY DEF ParseScalar, Read
<1>2. IsNew(v)
  BY DEF IsNew, IsNode, Scalar
<1>3. pc' \in {"array", "object", "end"}
  BY <1>1, EvaluatesTo
<1>4. last_token # "end" /\ position \in Nat /\ At(input, position + 1, last_token)
  <2>1. last_token # "end"
    BY <1>1, SymbolsDistinct
  <2>2. QED
    BY <2>1, NextToken
<1> HIDE DEF v, M, m
<1>5. PICK starts :
        /\ m \in Nat
        /\ Frames(input, M, nodes', ref_stack, starts)
        /\ NewNode \notin Range(ref_stack) /\ NewNode \in DOMAIN nodes'
        /\ nodes'[NewNode] = v
        /\ IF m = 0 THEN position + 1 = 1 /\ NewNode = 1
           ELSE Holds(input, M, nodes', ref_stack[m], starts[m], position + 1, NewNode)
  <2>1. Range(ref_stack') \subseteq Range(ref_stack) \cup {NewNode}
    BY <1>1
  <2>2. QED
    BY <1>1, <1>2, <2>1, ValueAdded DEF m, M
<1>6. Closed(input, Finished', M)
  BY PhrasesClosed DEF M, TextKnown, IsText
<1>7. <<"value", position + 1, position + 1, NewNode>> \in M
  <2>1. MayContain(Finished', NewNode, Scalar(input[position + 1]))
    <3>1. MayContain(Finished', NewNode, nodes'[NewNode])
      BY <1>1, <1>5, FinishedContains
    <3>2. QED
      BY <1>4, <1>5, <3>1 DEF v, At
  <2>2. position + 1 \in DOMAIN input /\ input[position + 1] \in Scalars
    BY <1>1, <1>4 DEF At
  <2>3. QED
    BY <1>6, <2>1, <2>2, RulesApply
<1>8. pc' = "end" <=> m = 0
  BY <1>1, <1>3, StateOfStack DEF m
<1>9. Meant(input, M, pc', nodes', ref_stack, object_element'[2], position + 1)
  <2>1. position + 1 \in Int
    BY <1>4
  <2> HIDE DEF M, m
  <2>2. PICK q \in Int : q = position + 1
    BY <2>1
  <2>3. /\ <<"value", q, q, NewNode>> \in M
        /\ IF m = 0 THEN q = 1 /\ NewNode = 1
           ELSE Holds(input, M, nodes', ref_stack[m], starts[m], q, NewNode)
    BY <1>5, <1>7, <2>2
  <2>4. Meant(input, M, pc', nodes', ref_stack, object_element'[2], q)
    BY <1>3, <1>5, <1>6, <1>8, <2>3, ItemDenoted DEF m
  <2>5. QED
    BY <2>2, <2>4
<1>10. QED
  BY <1>1, <1>9 DEF SoundInvariant, M

LEMMA BeginSound ==
  ASSUME TextKnown, ParserInvariant, SoundInvariant, BeginArray \/ BeginObject
  PROVE  SoundInvariant'
<1> DEFINE M == Phrases(input, Finished')
           m == Len(ref_stack)
           kind == IF last_token = "[" THEN "array" ELSE "object"
           v == IF kind = "array" THEN Array(<<>>) ELSE Object(<<>>)
           p == position
<1>1. /\ pc = "value" /\ handle_value(v) /\ input' = input /\ position' = p + 1
      /\ ref_stack' = Append(ref_stack, NewNode) /\ object_element' = object_element
      /\ pc' = IF kind = "array" THEN "firstElement" ELSE "firstKey"
      /\ last_token = Opening(kind)
  <2>1. CASE BeginArray
    <3>1. last_token = "[" /\ start_container(Array(<<>>))
      BY <2>1 DEF BeginArray
    <3>2. QED
      BY <2>1, <3>1 DEF BeginArray, start_container, Read, Opening
  <2>2. CASE BeginObject
    <3>1. last_token = begin_object /\ start_container(Object(<<>>)) /\ last_token # "["
      BY <2>2, SymbolsDistinct DEF BeginObject
    <3>2. QED
      BY <2>2, <3>1 DEF BeginObject, start_container, Read, Opening
  <2>3. QED
    BY <2>1, <2>2
<1>2. IsNew(v) /\ v.kind = kind /\ v.value = <<>>
  <2>1. <<>> \in Seq({}) /\ DOMAIN <<>> = {} /\ <<>> \in [DOMAIN <<>> -> {}]
    BY EmptySeq
  <2>2. QED
    BY <2>1 DEF IsNew, IsNode, Array, Object
<1>3. last_token # "end" /\ p \in Nat /\ At(input, p + 1, Opening(kind))
  <2>1. last_token # "end"
    BY <1>1, SymbolsDistinct DEF Opening
  <2>2. QED
    BY <1>1, <2>1, NextToken
<1> HIDE DEF v, M, m, kind, p
<1>4. StacksTyped
  BY DEF ParserInvariant
<1>5. /\ m \in Nat /\ Len(ref_stack') = m + 1 /\ ref_stack'[m + 1] = NewNode
      /\ \A i \in 1 .. m : ref_stack'[i] = ref_stack[i]
  BY <1>1, <1>4, AppendProperties, LenProperties DEF StacksTyped, m
<1>6. Range(ref_stack') \subseteq Range(ref_stack) \cup {NewNode}
  <2>1. ref_stack' \in Seq(Range(ref_stack) \cup {NewNode})
    <3> DEFINE S == Range(ref_stack) \cup {NewNode}
    <3>1. ref_stack \in Seq(S)
      <4>1. ref_stack \in Seq(Range(ref_stack))
        BY <1>4, SeqOfRange DEF StacksTyped
      <4>2. Range(ref_stack) \subseteq S
        OBVIOUS
      <4> HIDE DEF S
      <4>3. QED
        BY <4>1, <4>2, SeqMonotonic
    <3>2. NewNode \in S
      OBVIOUS
    <3> HIDE DEF S
    <3>3. Append(ref_stack, NewNode) \in Seq(S)
      BY <3>1, <3>2, AppendProperties
    <3>4. QED
      BY <1>1, <3>3 DEF S
  <2>2. QED
    BY <2>1, RangeOfSeq
<1>7. PICK starts :
        /\ Frames(input, M, nodes', ref_stack, starts)
        /\ \A i \in 1 .. m : ref_stack[i] # NewNode
        /\ nodes'[NewNode] = v
        /\ IF m = 0 THEN p + 1 = 1 /\ NewNode = 1
           ELSE Holds(input, M, nodes', ref_stack[m], starts[m], p + 1, NewNode)
  BY <1>1, <1>2, <1>6, ValueAdded DEF m, M, p
<1> DEFINE more == [i \in 1 .. m + 1 |-> IF i = m + 1 THEN p + 1 ELSE starts[i]]
<1>8. more[m + 1] = p + 1 /\ \A i \in 1 .. m : more[i] = starts[i]
  BY <1>5
<1> HIDE DEF more
<1>9. Frames(input, M, nodes', ref_stack', more)
  <2>1. \A i, j \in 1 .. m + 1 : ref_stack'[i] = ref_stack'[j] => i = j
    <3>1. SUFFICES ASSUME NEW i \in 1 .. m + 1, NEW j \in 1 .. m + 1,
                          ref_stack'[i] = ref_stack'[j]
                   PROVE  i = j
      OBVIOUS
    <3>2. CASE i \in 1 .. m /\ j \in 1 .. m
      BY <1>5, <1>7, <3>1, <3>2 DEF Frames, m
    <3>3. CASE i \in 1 .. m /\ j = m + 1
      BY <1>5, <1>7, <3>1, <3>3
    <3>4. CASE i = m + 1 /\ j \in 1 .. m
      BY <1>5, <1>7, <3>1, <3>4
    <3>5. i \in 1 .. m \/ i = m + 1
      BY <1>5
    <3>6. j \in 1 .. m \/ j = m + 1
      BY <1>5
    <3>7. QED
      BY <3>2, <3>3, <3>4, <3>5, <3>6
  <2>2. ASSUME NEW i \in 1 .. m + 1
        PROVE  /\ more[i] \in Nat
               /\ At(input, more[i], Opening(nodes'[ref_stack'[i]].kind))
               /\ IF i = 1 THEN more[i] = 1 /\ ref_stack'[i] = 1
                  ELSE Holds(input, M, nodes', ref_stack'[i - 1], more[i - 1], more[i], ref_stack'[i])
    <3>1. CASE i \in 1 .. m
      <4>1. /\ starts[i] \in Nat
            /\ At(input, starts[i], Opening(nodes'[ref_stack[i]].kind))
            /\ IF i = 1 THEN starts[i] = 1 /\ ref_stack[i] = 1
               ELSE Holds(input, M, nodes', ref_stack[i - 1], starts[i - 1], starts[i], ref_stack[i])
        BY <1>7, <3>1 DEF Frames, m
      <4>2. i # 1 => i - 1 \in 1 .. m
        BY <1>5, <3>1
      <4>3. QED
        BY <1>5, <1>8, <3>1, <4>1, <4>2
    <3>2. CASE i = m + 1
      <4>1. more[i] = p + 1 /\ ref_stack'[i] = NewNode /\ p + 1 \in Nat
        BY <1>3, <1>5, <1>8, <3>2
      <4>2. At(input, more[i], Opening(nodes'[ref_stack'[i]].kind))
        BY <1>2, <1>3, <1>7, <4>1
      <4>3. CASE m = 0
        BY <1>7, <3>2, <4>1, <4>2, <4>3
      <4>4. CASE m # 0
        <5>1. i # 1 /\ i - 1 = m /\ m \in 1 .. m
          BY <1>5, <3>2, <4>4
        <5>2. ref_stack'[i - 1] = ref_stack[m] /\ more[i - 1] = starts[m]
          BY <1>5, <1>8, <5>1
        <5>3. Holds(input, M, nodes', ref_stack[m], starts[m], p + 1, NewNode)
          BY <1>7, <4>4
        <5>4. QED
          BY <4>1, <4>2, <5>1, <5>2, <5>3
      <4>5. QED
        BY <4>3, <4>4
    <3>3. QED
      BY <1>5, <3>1, <3>2
  <2>3. QED
    BY <1>5, <2>1, <2>2 DEF Frames
<1>10. Top(input, M, pc', v, p + 1, object_element'[2], p + 1)
  BY <1>1, <1>2 DEF Top
<1>11. Meant(input, M, pc', nodes', ref_stack', object_element'[2], p + 1)
  <2>1. m + 1 # 0
    BY <1>5
  <2>2. nodes'[ref_stack'[m + 1]] = v /\ more[m + 1] = p + 1
    BY <1>5, <1>7, <1>8
  <2>3. QED
    BY <1>5, <1>9, <1>10, <2>1, <2>2 DEF Meant
<1>12. QED
  BY <1>1, <1>11 DEF SoundInvariant, M, p

\* A container has ended.
LEMMA EndSound ==
  ASSUME TextKnown, ParserInvariant, ParserInvariant', SoundInvariant,
         EmptyContainer \/ EndContainer
  PROVE  SoundInvariant'
<1> DEFINE L == Phrases(input, Finished)
           M == Phrases(input, Finished')
           m == Len(ref_stack)
           n == m - 1
           r == ref_stack[m]
           p == position
           rs == Front(ref_stack)
<1>1. /\ pc \in {"firstKey", "firstElement", "array", "object"}
      /\ last_token = IF pc \in {"firstElement", "array"} THEN "]" ELSE end_object
      /\ ref_stack' = rs /\ nodes' = nodes /\ object_element' = object_element
      /\ input' = input /\ position' = p + 1 /\ pc' \in {"array", "object", "end"}
  BY EvaluatesTo DEF EmptyContainer, EndContainer, end_container, Read
<1>2. StacksTyped /\ StacksAgree /\ Forest(nodes) /\ PlaceKnown
  BY <1>1 DEF ParserInvariant
<1>3. m \in Nat /\ m # 0 /\ ref_stack # <<>> /\ Len(states) \in Nat
  <2>1. /\ Len(states) \in Nat /\ m \in Nat
        /\ states = <<>> <=> Len(states) = 0
        /\ ref_stack = <<>> <=> m = 0
    BY <1>2, InnermostKnown
  <2>2. CASE pc \in {"firstKey", "firstElement"}
    <3>1. m = Len(states) + 1
      BY <1>2, <2>2 DEF StacksAgree
    <3>2. QED
      BY <2>1, <3>1
  <2>3. CASE pc \in {"array", "object"}
    <3>1. states # <<>>
      BY <1>2, <2>3 DEF PlaceKnown
    <3>2. m = Len(states)
      BY <1>2, <2>1, <2>3 DEF StacksAgree
    <3>3. QED
      BY <2>1, <3>1, <3>2
  <2>4. QED
    BY <1>1, <2>2, <2>3
<1>4. r = Innermost /\ r \in 1 .. Len(nodes)
  <2>1. r = Innermost
    BY DEF Innermost, Last
  <2>2. QED
    BY <1>2, <1>3, <2>1, InnermostKnown
<1>5. nodes[r].kind = IF pc \in {"firstElement", "array"} THEN "array" ELSE "object"
  <2>1. CASE pc \in {"firstElement", "firstKey"}
    BY <1>2, <1>4, <2>1 DEF PlaceKnown, Node
  <2>2. CASE pc \in {"array", "object"}
    <3>1. states # <<>> /\ Last(states) = pc
      BY <1>2, <2>2 DEF PlaceKnown
    <3>2. Node(Innermost).kind = Last(states)
      BY <1>2, <2>2, <3>1, InnermostKnown
    <3>3. QED
      BY <1>4, <2>2, <3>1, <3>2 DEF Node
  <2>3. QED
    BY <1>1, <2>1, <2>2
<1>6. nodes[r] = [kind |-> nodes[r].kind, value |-> nodes[r].value]
  BY <1>2, <1>4 DEF Forest, NodesTyped, IsNode
<1>7. PICK starts :
        /\ Frames(input, L, nodes, ref_stack, starts)
        /\ Top(input, L, pc, nodes[r], starts[m], object_element[2], p)
  BY <1>1, <1>3 DEF SoundInvariant, Meant
<1> HIDE DEF L, M
<1>8. /\ n \in Nat /\ Len(rs) = n /\ m = n + 1
      /\ \A i \in 1 .. n : rs[i] = ref_stack[i]
      /\ rs \in Seq(1 .. Len(nodes))
  BY <1>2, <1>3, FrontProperties DEF StacksTyped
<1>9. m \in 1 .. m /\ \A i \in 1 .. n : i \in 1 .. m /\ i # m
  BY <1>8
<1> HIDE DEF m, n, rs
<1>10. r \notin Range(rs) /\ Range(rs) \subseteq Range(ref_stack)
  <2>1. \A i \in 1 .. n : rs[i] # r
    BY <1>7, <1>8, <1>9 DEF Frames, m
  <2>2. DOMAIN rs = 1 .. n /\ DOMAIN ref_stack = 1 .. m
    BY <1>2, <1>8, LenProperties DEF StacksTyped, m
  <2>3. QED
    BY <1>8, <1>9, <2>1, <2>2 DEF Range
<1>11. L \subseteq M
  <2>1. \A x \in DOMAIN nodes \ Range(ref_stack) :
           x \in DOMAIN nodes' \ Range(ref_stack') /\ nodes'[x] = nodes[x]
    BY <1>1, <1>10
  <2>2. IsText(input)
    BY DEF TextKnown
  <2>3. QED
    BY <2>1, <2>2, FinishedGrows DEF L, M
<1>12. Closed(input, Finished', M)
  BY PhrasesClosed DEF M, TextKnown, IsText
<1>13. MayContain(Finished', r, nodes[r])
  <2>1. r \in DOMAIN nodes' \ Range(ref_stack')
    BY <1>1, <1>2, <1>4, <1>10, LenProperties DEF Forest, NodesTyped
  <2>2. QED
    BY <1>1, <2>1, FinishedContains
<1>14. p \in Nat /\ At(input, p + 1, last_token)
  <2>1. last_token # "end"
    BY <1>1, SymbolsDistinct
  <2>2. QED
    BY <2>1, NextToken
<1> DEFINE s == starts[m]
           kind == nodes[r].kind
           w == nodes[r].value
<1>15. s \in Nat /\ At(input, s, Opening(kind))
  BY <1>7, <1>9 DEF Frames, m
<1>16. <<"value", s, p + 1, r>> \in M
  <2>1. CASE pc \in {"firstElement", "firstKey"}
    <3>1. p = s /\ w = <<>>
      BY <1>7, <2>1 DEF Top
    <3>2. CASE pc = "firstElement"
      <4>1. /\ At(input, s, "[") /\ At(input, s + 1, "]")
            /\ MayContain(Finished', r, Array(<<>>))
        BY <1>1, <1>5, <1>6, <1>13, <1>14, <1>15, <3>1, <3>2 DEF Opening, Array
      <4> HIDE DEF s
      <4>2. <<"value", s, s + 1, r>> \in M
        BY <1>12, <4>1, RulesApply
      <4>3. QED
        BY <3>1, <4>2
    <3>3. CASE pc = "firstKey"
      <4>a. kind = "object" /\ last_token = end_object
        BY <1>1, <1>5, <3>3
      <4>1. /\ At(input, s, begin_object) /\ At(input, s + 1, end_object)
            /\ MayContain(Finished', r, Object(<<>>))
        BY <1>6, <1>13, <1>14, <1>15, <3>1, <4>a DEF Opening, Object
      <4> HIDE DEF s
      <4>2. <<"value", s, s + 1, r>> \in M
        BY <1>12, <4>1, RulesApply
      <4>3. QED
        BY <3>1, <4>2
    <3>4. QED
      BY <2>1, <3>2, <3>3
  <2>2. CASE pc \in {"array", "object"}
    <3>1. <<Items(kind), s + 1, p, w>> \in M
      BY <1>7, <1>11, <2>2 DEF Top
    <3>2. PICK a \in Int : a = s + 1
      BY <1>15
    <3>3. a - 1 = s
      BY <1>15, <3>2
    <3>4. CASE pc = "array"
      <4>a. kind = "array" /\ last_token = "]"
        BY <1>1, <1>5, <3>4
      <4>1. /\ At(input, a - 1, "[") /\ At(input, p + 1, "]")
            /\ MayContain(Finished', r, Array(w)) /\ <<"elements", a, p, w>> \in M
        BY <1>6, <1>13, <1>14, <1>15, <3>1, <3>2, <3>3, <4>a DEF Opening, Array, Items
      <4> HIDE DEF s, w, kind
      <4>2. <<"value", a - 1, p + 1, r>> \in M
        BY <1>12, <4>1, RulesApply
      <4>3. QED
        BY <3>3, <4>2
    <3>5. CASE pc = "object"
      <4>a. kind = "object" /\ last_token = end_object
        BY <1>1, <1>5, <3>5
      <4>1. /\ At(input, a - 1, begin_object) /\ At(input, p + 1, end_object)
            /\ MayContain(Finished', r, Object(w)) /\ <<"members", a, p, w>> \in M
        BY <1>6, <1>13, <1>14, <1>15, <3>1, <3>2, <3>3, <4>a DEF Opening, Object, Items
      <4> HIDE DEF s, w, kind
      <4>2. <<"value", a - 1, p + 1, r>> \in M
        BY <1>12, <4>1, RulesApply
      <4>3. QED
        BY <3>3, <4>2
    <3>6. QED
      BY <2>2, <3>4, <3>5
  <2>3. QED
    BY <1>1, <2>1, <2>2
<1>17. Frames(input, M, nodes, rs, starts)
  <2>1. Frames(input, L, nodes, rs, starts)
    <3>1. \A i, j \in 1 .. n : rs[i] = rs[j] => i = j
      BY <1>7, <1>8, <1>9 DEF Frames, m
    <3>2. ASSUME NEW i \in 1 .. n
          PROVE  /\ starts[i] \in Nat
                 /\ At(input, starts[i], Opening(nodes[rs[i]].kind))
                 /\ IF i = 1 THEN starts[i] = 1 /\ rs[i] = 1
                    ELSE Holds(input, L, nodes, rs[i - 1], starts[i - 1], starts[i], rs[i])
      <4>1. /\ starts[i] \in Nat
            /\ At(input, starts[i], Opening(nodes[ref_stack[i]].kind))
            /\ IF i = 1 THEN starts[i] = 1 /\ ref_stack[i] = 1
               ELSE Holds(input, L, nodes, ref_stack[i - 1], starts[i - 1], starts[i], ref_stack[i])
        BY <1>7, <1>9 DEF Frames, m
      <4>2. i # 1 => i - 1 \in 1 .. n
        BY <1>8
      <4>3. QED
        BY <1>8, <4>1, <4>2
    <3>3. QED
      BY <1>8, <3>1, <3>2 DEF Frames
  <2>2. QED
    BY <1>8, <1>11, <2>1, FramesKept
<1>18. IF n = 0 THEN s = 1 /\ r = 1 ELSE Holds(input, M, nodes, rs[n], starts[n], s, r)
  <2>1. IF m = 1 THEN s = 1 /\ r = 1
        ELSE Holds(input, L, nodes, ref_stack[m - 1], starts[m - 1], s, r)
    BY <1>7, <1>9 DEF Frames, m
  <2>2. m - 1 = n /\ (n = 0 <=> m = 1) /\ (n # 0 => n \in 1 .. n)
    BY <1>8
  <2>3. CASE n = 0
    BY <2>1, <2>2, <2>3
  <2>4. CASE n # 0
    <3>1. Holds(input, L, nodes, rs[n], starts[n], s, r)
      BY <1>8, <2>1, <2>2, <2>4
    <3>2. QED
      BY <1>11, <2>4, <3>1, HoldsGrows
  <2>5. QED
    BY <2>3, <2>4
<1>19. pc' = "end" <=> n = 0
  <2>1. Len(ref_stack') = n
    BY <1>1, <1>8
  <2>2. QED
    BY <1>1, <2>1, StateOfStack
<1>20. Meant(input, M, pc', nodes, rs, object_element'[2], p + 1)
  <2>1. s \in Int
    BY <1>15
  <2> HIDE DEF s, r, p
  <2>2. QED
    BY <1>1, <1>8, <1>12, <1>16, <1>17, <1>18, <1>19, <2>1, ItemDenoted
<1>21. QED
  BY <1>1, <1>20 DEF SoundInvariant, M

\* No value begins or ends: the parser goes from one place to another.
LEMMA MoveSound ==
  ASSUME TextKnown, ParserInvariant, SoundInvariant,
         FirstElement \/ Key \/ Separator \/ Comma
  PROVE  SoundInvariant'
<1> DEFINE L == Phrases(input, Finished)
           m == Len(ref_stack)
           node == nodes[ref_stack[m]]
           p == position
<1>1. /\ UNCHANGED <<nodes, ref_stack, input>>
      /\ pc \in {"firstElement", "firstKey", "nextKey", "firstSeparator", "separator",
                 "array", "object"}
      /\ last_token # "end" \/ pc = "firstElement"
  <2>1. CASE FirstElement
    BY <2>1 DEF FirstElement, Peek, builder
  <2>2. CASE Key
    <3>1. last_token \in Strings
      BY <2>2 DEF Key
    <3>2. last_token # "end"
      BY <3>1, SymbolsDistinct, JsonParserAssumption
    <3>3. QED
      BY <2>2, <3>2 DEF Key, key, Read
  <2>3. CASE Separator
    BY <2>3 DEF Separator, Read, builder
  <2>4. CASE Comma
    BY <2>4 DEF Comma, Read, builder
  <2>5. QED
    BY <2>1, <2>2, <2>3, <2>4
<1>2. StacksTyped /\ StacksAgree /\ Forest(nodes) /\ PlaceKnown
  BY <1>1 DEF ParserInvariant
<1>3. /\ Len(states) \in Nat /\ m \in Nat
      /\ states = <<>> <=> Len(states) = 0
      /\ ref_stack = <<>> <=> m = 0
  BY <1>2, InnermostKnown
<1>4. m # 0
  <2>1. CASE pc \in {"firstKey", "firstElement", "firstSeparator"}
    <3>1. m = Len(states) + 1
      BY <1>2, <2>1 DEF StacksAgree
    <3>2. QED
      BY <1>3, <3>1
  <2>2. CASE pc \in {"nextKey", "separator", "array", "object"}
    <3>1. states # <<>>
      BY <1>2, <2>2 DEF PlaceKnown
    <3>2. m = Len(states)
      BY <1>2, <1>3, <2>2 DEF StacksAgree
    <3>3. QED
      BY <1>3, <3>1, <3>2
  <2>3. QED
    BY <1>1, <2>1, <2>2
<1>5. node.kind = IF pc \in {"firstElement", "array"} THEN "array" ELSE "object"
  <2>a. node = Node(Innermost)
    BY DEF Innermost, Last, Node
  <2> HIDE DEF node
  <2>1. CASE pc \in {"firstElement", "firstKey", "firstSeparator"}
    BY <1>2, <2>a, <2>1 DEF PlaceKnown
  <2>2. CASE pc \in {"array", "object", "nextKey", "separator"}
    <3>1. /\ states # <<>>
          /\ Last(states) = IF pc = "array" THEN "array" ELSE "object"
      BY <1>2, <2>2 DEF PlaceKnown
    <3>2. Node(Innermost).kind = Last(states)
      BY <1>2, <2>2, <3>1, InnermostKnown
    <3>3. QED
      BY <2>a, <2>2, <3>1, <3>2
  <2>3. QED
    BY <1>1, <2>1, <2>2
<1>6. PICK starts :
        /\ Frames(input, L, nodes, ref_stack, starts)
        /\ Top(input, L, pc, node, starts[m], object_element[2], p)
  BY <1>1, <1>4 DEF SoundInvariant, Meant
<1> DEFINE s == starts[m]
           w == node.value
<1>7. s \in Nat
  <2>1. m \in 1 .. m
    BY <1>3, <1>4
  <2>2. QED
    BY <1>6, <2>1 DEF Frames
<1>8. p \in Nat
  BY LastToken
<1>9. SUFFICES Top(input, L, pc', node, s, object_element'[2], position')
  <2>1. ASSUME Top(input, L, pc', node, s, object_element'[2], position')
        PROVE  Meant(input, L, pc', nodes, ref_stack, object_element'[2], position')
    BY <1>4, <1>6, <2>1 DEF Meant
  <2>2. Finished' = Finished
    BY <1>1 DEF Finished
  <2>3. QED
    BY <1>1, <2>1, <2>2 DEF SoundInvariant
<1> HIDE DEF L, m, node, s, w
<1>10. CASE FirstElement
  <2>1. pc = "firstElement" /\ pc' = "value" /\ position' = p
    BY <1>10 DEF FirstElement, Peek
  <2>2. p = s /\ node.value = <<>> /\ node.kind = "array"
    BY <1>5, <1>6, <2>1 DEF Top, s
  <2>3. QED
    BY <2>1, <2>2 DEF Top, Due
<1>11. CASE Key
  <2>1. /\ pc \in {"firstKey", "nextKey"} /\ last_token \in Strings
        /\ pc' = IF pc = "firstKey" THEN "firstSeparator" ELSE "separator"
        /\ object_element'[2] = last_token /\ position' = p + 1
    BY <1>11 DEF Key, key, Read
  <2>2. At(input, p + 1, last_token)
    BY <1>1, <2>1, NextToken
  <2>3. CASE pc = "firstKey"
    <3>1. p = s /\ node.value = <<>>
      BY <1>6, <2>3 DEF Top, s
    <3>2. QED
      BY <2>1, <2>2, <2>3, <3>1 DEF Top, At
  <2>4. CASE pc = "nextKey"
    <3>1. At(input, p, ",") /\ <<"members", s + 1, p - 1, node.value>> \in L
      BY <1>6, <2>4 DEF Top, s
    <3>3. PICK q \in Int : q = p + 1
      BY <1>8
    <3>4. q - 1 = p /\ q - 2 = p - 1
      BY <1>8, <3>3
    <3> HIDE DEF p
    <3>5. /\ q \in DOMAIN input /\ input[q] \in Strings /\ last_token = input[q]
          /\ At(input, q - 1, ",") /\ <<"members", s + 1, q - 2, node.value>> \in L
      BY <2>1, <2>2, <3>1, <3>3, <3>4 DEF At
    <3>6. Top(input, L, "separator", node, s, last_token, q)
      BY <3>5 DEF Top
    <3>7. QED
      BY <2>1, <2>4, <3>3, <3>6
  <2>5. QED
    BY <2>1, <2>3, <2>4
<1>12. CASE Separator
  <2>1. /\ pc \in {"firstSeparator", "separator"} /\ pc' = "value" /\ last_token = ":"
        /\ object_element' = object_element /\ position' = p + 1
    BY <1>12 DEF Separator, Read, builder
  <2>2. At(input, p + 1, ":")
    BY <1>1, <2>1, NextToken
  <2>3. /\ p \in DOMAIN input /\ input[p] \in Strings /\ object_element[2] = input[p]
        /\ \/ pc = "firstSeparator" /\ p = s + 1 /\ node.value = <<>>
           \/ /\ pc = "separator" /\ At(input, p - 1, ",")
              /\ <<"members", s + 1, p - 2, node.value>> \in L
    BY <1>6, <2>1 DEF Top, s
  <2>4. PICK q \in Int : q = p + 1
    BY <1>8
  <2>5. q - 1 = p /\ q - 2 = p - 1 /\ q - 3 = p - 2 /\ (p = s + 1 => q = s + 2)
    BY <1>7, <1>8, <2>4
  <2>6. node.kind = "object"
    BY <1>5, <2>1
  <2> HIDE DEF p
  <2>7. KeyAt(input, q - 1) /\ object_element[2] = input[q - 1]
    BY <2>2, <2>3, <2>5 DEF KeyAt
  <2>8. Due(input, L, "object", s, q, node.value)
    <3>1. CASE p = s + 1 /\ node.value = <<>>
      BY <2>5, <2>7, <3>1 DEF Due
    <3>2. CASE At(input, p - 1, ",") /\ <<"members", s + 1, p - 2, node.value>> \in L
      <4>1. At(input, q - 2, ",") /\ <<"members", s + 1, q - 3, node.value>> \in L
        BY <2>5, <3>2
      <4>2. QED
        BY <2>7, <4>1 DEF Due
    <3>3. QED
      BY <2>3, <3>1, <3>2
  <2>9. Top(input, L, "value", node, s, object_element[2], q)
    BY <2>6, <2>7, <2>8 DEF Top
  <2>10. QED
    BY <2>1, <2>4, <2>9
<1>13. CASE Comma
  <2>1. /\ pc \in {"array", "object"} /\ last_token = ","
        /\ pc' = IF pc = "array" THEN "value" ELSE "nextKey"
        /\ position' = p + 1
    BY <1>13 DEF Comma, Read
  <2>2. At(input, p + 1, ",")
    BY <1>1, <2>1, NextToken
  <2>3. <<Items(node.kind), s + 1, p, node.value>> \in L
    BY <1>6, <2>1 DEF Top, s
  <2>4. PICK q \in Int : q = p + 1
    BY <1>8
  <2>5. q - 1 = p
    BY <1>8, <2>4
  <2> HIDE DEF p
  <2>6. At(input, q, ",") /\ <<Items(node.kind), s + 1, q - 1, node.value>> \in L
    BY <2>2, <2>3, <2>4, <2>5
  <2>7. CASE pc = "array"
    <3>1. node.kind = "array" /\ Items("array") = "elements"
      BY <1>5, <2>7 DEF Items
    <3>2. Due(input, L, node.kind, s, q, node.value)
      BY <2>6, <3>1 DEF Due
    <3>3. Top(input, L, "value", node, s, object_element'[2], q)
      BY <3>1, <3>2 DEF Top
    <3>4. QED
      BY <2>1, <2>4, <2>7, <3>3
  <2>8. CASE pc = "object"
    <3>1. node.kind = "object" /\ Items("object") = "members"
      BY <1>5, <2>8 DEF Items
    <3>2. Top(input, L, "nextKey", node, s, object_element'[2], q)
      BY <2>6, <3>1 DEF Top
    <3>3. QED
      BY <2>1, <2>4, <2>8, <3>2
  <2>9. QED
    BY <2>1, <2>7, <2>8
<1>14. QED
  BY <1>10, <1>11, <1>12, <1>13

LEMMA AcceptSound ==
  ASSUME TextKnown, ParserInvariant, SoundInvariant, Accept
  PROVE  SoundInvariant'
<1>1. /\ pc = "end" /\ last_token = "end" /\ pc' = "accepted"
      /\ UNCHANGED <<nodes, ref_stack, object_element, input, position>>
  BY DEF Accept, Peek, builder
<1>2. StacksAgree
  BY DEF ParserInvariant
<1>3. ref_stack = <<>> /\ Len(<<>>) = 0
  BY <1>1, <1>2 DEF StacksAgree
<1>4. Len(ref_stack) = 0
  BY <1>3
<1>5. position = TextEnd(input)
  BY <1>1, LastToken
<1> DEFINE L == Phrases(input, Finished)
<1>6. PICK starts : Frames(input, L, nodes, ref_stack, starts)
                    /\ Outside(input, L, "end", nodes, position)
  BY <1>1, <1>4 DEF SoundInvariant, Meant
<1> HIDE DEF L
<1>7. Outside(input, L, "accepted", nodes, position)
  BY <1>5, <1>6 DEF Outside
<1>8. Meant(input, L, "accepted", nodes, ref_stack, object_element[2], position)
  BY <1>4, <1>6, <1>7 DEF Meant
<1>9. Finished' = Finished
  BY <1>1 DEF Finished
<1>10. QED
  BY <1>1, <1>8, <1>9 DEF SoundInvariant, L

LEMMA SoundStarts ==
  ASSUME ParserInit
  PROVE  SoundInvariant
<1> DEFINE L == Phrases(input, Finished)
<1>1. pc = "value" /\ position = 0 /\ nodes = <<>> /\ ref_stack = <<>>
  BY DEF ParserInit
<1>2. Len(<<>>) = 0
  OBVIOUS
<1>3. Len(ref_stack) = 0
  BY <1>1, <1>2
<1> HIDE DEF L
<1>4. Frames(input, L, nodes, ref_stack, <<>>)
  BY <1>3 DEF Frames
<1>5. Outside(input, L, pc, nodes, position)
  BY <1>1 DEF Outside
<1>6. QED
  BY <1>3, <1>4, <1>5 DEF SoundInvariant, Meant, L

LEMMA SoundNext ==
  ASSUME TextKnown, ParserInvariant, ParserInvariant', SoundInvariant, [Next]_vars
  PROVE  SoundInvariant'
<1>1. CASE sax_parse_internal
  <2>1. CASE Reject
    BY <2>1 DEF Reject, SoundInvariant
  <2>2. QED
    BY <1>1, <2>1, ParseScalarSound, BeginSound, EndSound, MoveSound, AcceptSound
    DEF sax_parse_internal
<1>2. CASE BeginDestroy
  BY <1>2 DEF BeginDestroy, SoundInvariant
<1>3. CASE destroy \/ Returned \/ UNCHANGED vars
  <2>1. UNCHANGED <<input, pc, nodes, ref_stack, object_element, position>>
    BY <1>3 DEF destroy, Returned, vars, parserVars, builder
  <2>2. Finished' = Finished
    BY <2>1 DEF Finished
  <2>3. QED
    BY <2>1, <2>2 DEF SoundInvariant
<1>4. QED
  BY <1>1, <1>2, <1>3 DEF Next

LEMMA AcceptedIsJson ==
  ASSUME ParserInvariant, SoundInvariant, pc = "accepted"
  PROVE  <<"value", 1, TextEnd(input), 1>> \in Phrases(input, Built)
<1>1. StacksAgree
  BY DEF ParserInvariant
<1>2. ref_stack = <<>>
  BY <1>1 DEF StacksAgree
<1>3. Len(ref_stack) = 0 /\ Range(ref_stack) = {}
  <2>1. Len(<<>>) = 0 /\ Range(<<>>) = {}
    BY DEF Range
  <2>2. QED
    BY <1>2, <2>1
<1>4. Finished = Built
  BY <1>3 DEF Finished, Built
<1>5. Outside(input, Phrases(input, Finished), "accepted", nodes, position)
  BY <1>3 DEF SoundInvariant, Meant
<1>6. <<"value", 1, position, 1>> \in Phrases(input, Finished) /\ position = TextEnd(input)
  BY <1>5 DEF Outside
<1>7. QED
  BY <1>4, <1>6

\* In terms of the tokens of the lexer, json::parse accepts exactly the JSON texts,
\* for every token sequence and any depth of nesting, and the value that it has
\* built is the one that the text denotes.
THEOREM ParsesExactlyJsonHolds == Spec => []ParsesExactlyJson
<1> DEFINE Inv == TextKnown /\ CompleteInvariant /\ SoundInvariant
<1>1. Init => Inv
  BY TextStarts, CompleteStarts, SoundStarts DEF Init
<1>2. Inv /\ ParserInvariant /\ ParserInvariant' /\ [Next]_vars => Inv'
  BY TextNext, CompleteNext, SoundNext
<1>3. Inv /\ ParserInvariant => ParsesExactlyJson
  BY NotRejected, AcceptedIsJson DEF ParsesExactlyJson
<1> HIDE DEF Inv
<1>4. QED
  BY <1>1, <1>2, <1>3, ParserInvariantHolds, PTL DEF Spec
=============================================================================
