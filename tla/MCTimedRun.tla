----------------------------- MODULE MCTimedRun -----------------------------
(***************************************************************************)
(* A small instance of module TimedRun.                                    *)
(***************************************************************************)
EXTENDS TimedRun

\* 1 and 2 both block 4, and 1 blocks 3: with two workers the order in which tasks
\* are taken decides who has to idle.
ZigzagGraph == <<{}, {}, {1}, {1, 2}>>
MixedPriority == <<1, 3, 1, 2>>

\* One task may be retried.
RetryFirst == <<1, 0, 0, 0>>
=============================================================================
