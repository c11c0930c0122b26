---------------------------- MODULE MCScheduler ----------------------------
(***************************************************************************)
(* Small graphs for module Scheduler.                                      *)
(***************************************************************************)
EXTENDS SchedulerProperties

\* 1 and 2 both block 3, which blocks 4.  Of the two sources the second is the
\* more urgent.
JoinGraph == <<{}, {}, {1, 2}, {3}>>
JoinPriority == <<1, 2, 2, 3>>
NoRetry == <<0, 0, 0, 0>>
AnyFailure == <<"some", "some", "some", "some">>

\* Three sources, more than two workers can take at once.  1 and 2 both block
\* 3, 3 and 4 both block 5, so that two failures can reach the same task, one
\* of them through another task, and 4 may release 5 and 6 in one go.
MixedGraph == <<{}, {}, {1, 2}, {}, {3, 4}, {4}>>
MixedPriority == <<1, 2, 2, 3, 0, 0>>
MixedRetry == <<0, 1, 1, 0, 0, 0>>
MixedFailure == <<"zero", "some", "some", "some", "zero", "one">>
=============================================================================
