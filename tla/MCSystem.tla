------------------------------ MODULE MCSystem ------------------------------
(***************************************************************************)
(* Small instances of module System.                                       *)
(***************************************************************************)
EXTENDS System

\* Three tasks at once for two workers.
WideGraph == <<{}, {}, {}>>
MixedPriority == <<1, 2, 3>>

\* 2 may be retried while 1 runs.
RetrySecond == <<0, 1, 0>>
AnyFailure == <<"some", "some", "some">>
=============================================================================
