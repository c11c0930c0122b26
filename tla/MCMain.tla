------------------------------- MODULE MCMain -------------------------------
(***************************************************************************)
(* Command lines and configuration files for module Main: every command    *)
(* line of at most four arguments with a few files, and every file of at   *)
(* most two tasks, of which each deviates from an ordinary one in at most  *)
(* one field, with an ordinary command line.                               *)
(***************************************************************************)
EXTENDS Main

\* Numbers for which there are threads, for which there are too few, at the end of
\* the word and beyond it; a negative one, and texts that are no numbers.
Number(v) == [digits |-> TRUE, minus |-> FALSE, value |-> v, rest |-> FALSE]
NoNumber == [digits |-> FALSE, minus |-> FALSE, value |-> 0, rest |-> TRUE]

Texts == {"--config", "--workers", "--dot", "", "file", "0", "2", "5", "7",
          "9", "-1", "2x"}

MCNumeral ==
  [t \in Texts |->
     CASE t = "0" -> Number(0)
       [] t = "2" -> Number(2)
       [] t = "5" -> Number(5)
       [] t = "7" -> Number(7)
       [] t = "9" -> Number(9)
       [] t = "-1" -> [Number(1) EXCEPT !.minus = TRUE]
       [] t = "2x" -> [Number(2) EXCEPT !.rest = TRUE]
       [] OTHER -> NoNumber]

CommandLines == UNION {[1 .. n -> Texts] : n \in 0 .. 4}

-----------------------------------------------------------------------------
\* Around the ends of the int range, of both ranges of the JSON library, and
\* values that wrap to zero and to the middle of the int range.
Literals == {-9, -8, -5, -4, -1, 0, 1, 3, 4, 7, 8, 9, 15, 16}

Numbers == {Whole(n) : n \in Literals} \cup {Half(n) : n \in {-1, 0, 1}}
Odd == {Missing, Other, Text(""), List(<<>>)}
Items == {Text("a"), Text("b"), Text("c"), Text(""), Other}
Lists == {List(s) : s \in UNION {[1 .. n -> Items] : n \in 0 .. 2}}

Ordinary(x) ==
  [kind |-> "object", id |-> Text(x), name |-> Text("n"),
   priority |-> Whole(1), duration |-> Whole(1),
   dependencies |-> Missing, retry_count |-> Missing,
   fail_probability |-> Missing]

Deviating(x) ==
  {[Ordinary(x) EXCEPT ![f] = v] :
     f \in {"priority", "duration", "retry_count", "fail_probability"},
     v \in Numbers \cup Odd}
  \cup {[Ordinary(x) EXCEPT ![f] = v] :
          f \in {"id", "name"}, v \in Odd \cup {Whole(1), Text("a")}}
  \cup {[Ordinary(x) EXCEPT !.dependencies = v] :
          v \in Lists \cup Odd \cup {Whole(1)}}

TaskEntries(x) == {Ordinary(x), Other} \cup Deviating(x)

NoTaskList == {[file |-> f, entries |-> <<>>] :
                 f \in {"no file", "empty", "not JSON", "no task list"}}
TaskList(entries) == [file |-> "task list", entries |-> entries]

AnyDocument ==
  NoTaskList \cup {TaskList(<<>>)}
  \cup {TaskList(<<d>>) : d \in TaskEntries("a")}
  \cup {TaskList(<<d, e>>) : d \in TaskEntries("a"), e \in TaskEntries("b")}

\* One that is loaded, one that is not, and one with a cycle.
FewDocuments ==
  {[file |-> "no file", entries |-> <<>>],
   TaskList(<<Ordinary("a"), Ordinary("b")>>),
   TaskList(<<[Ordinary("a") EXCEPT !.dependencies = List(<<Text("b")>>)],
              [Ordinary("b") EXCEPT !.dependencies = List(<<Text("a")>>)]>>)}

MCInputs ==
  (CommandLines \X FewDocuments) \cup ({<<"--config", "file">>} \X AnyDocument)
=============================================================================
