------------------------------ MODULE MCSched ------------------------------
(***************************************************************************)
(* Instances of Sched for TLC.                                             *)
(***************************************************************************)
EXTENDS Sched, TLC

CONSTANTS t1, t2, t3, wrapper, network

OneApi  == {wrapper}
OneNet  == {network}
TwoTasks   == {t1, t2}
ThreeTasks == {t1, t2, t3}

\* 0 and -1 are what net.c and core.c give to task_alloc, 1 is the smallest
\* count that consumes a credit.
AllKinds == {-1, 0, 1}
InUse    == {-1, 0}

\* Addresses are interchangeable.
TaskSymmetry == Permutations(Task)
=============================================================================
