------------------------------ MODULE MCPace ------------------------------
(***************************************************************************)
(* Instances of Pace for TLC: a second of two milliseconds, a millisecond  *)
(* of three nanoseconds.                                                   *)
(***************************************************************************)
EXTENDS Pace

CONSTANTS t1, t2

TwoTasks == {t1, t2}

\* One task that may come as soon as it is stamped and one that has to wait.
ShortAndLong == [t \in TwoTasks |-> IF t = t1 THEN 1 ELSE 2]
=============================================================================
