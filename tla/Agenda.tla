------------------------------- MODULE Agenda -------------------------------
(***************************************************************************)
(* What the scheduler of an agent promises to the threads that give it     *)
(* tasks, with no thread, lock or list in sight: an agenda of tasks kept   *)
(* in the order in which they were posted.  A task runs as many times as   *)
(* it was posted for, keeps its place between two runs, and leaves the     *)
(* agenda only when it has no run left, or when the whole agenda is        *)
(* dropped at once (loss of the controller, or the end of the scheduler).  *)
(* Nothing is posted to a closed agenda.                                   *)
(*                                                                         *)
(* Sched implements this specification (Sched!AgendaSpec).                 *)
(***************************************************************************)
EXTENDS Integers, Sequences, SequencesExt

CONSTANTS Task,   \* the tasks that may be posted
          Runs    \* the numbers of runs a task may be posted for, Forever or positive

VARIABLES pending,  \* the tasks of the agenda, oldest first
          left,     \* for each pending task the runs it still has, or Forever
          open      \* FALSE once the agenda is closed

vars == <<pending, left, open>>

Forever == -1

Init == /\ pending = <<>>
        /\ left = [t \in Task |-> 0]
        /\ open = TRUE

\* A task is posted, at the end, for n runs (n = Forever: until it is dropped).
Post(t, n) == /\ open
              /\ t \notin ToSet(pending)
              /\ pending' = Append(pending, t)
              /\ left' = [left EXCEPT ![t] = n]
              /\ UNCHANGED open

\* A pending task runs: it uses up one of its runs and keeps its place.
Run(t) == /\ t \in ToSet(pending)
          /\ left[t] # 0
          /\ left' = [left EXCEPT ![t] = IF @ > 0 THEN @ - 1 ELSE @]
          /\ UNCHANGED <<pending, open>>

\* A task that has used up its runs leaves; the others keep their order.
Retire(t) == /\ left[t] = 0
             /\ \E i \in DOMAIN pending : /\ pending[i] = t
                                         /\ pending' = RemoveAt(pending, i)
             /\ UNCHANGED <<left, open>>

\* Everything pending is dropped, and the agenda may close for good.
Drop == /\ pending' = <<>>
        /\ left' = [t \in Task |-> 0]
        /\ open' \in {open, FALSE}

Next == \/ \E t \in Task : Run(t) \/ Retire(t)
        \/ \E t \in Task, n \in Runs : Post(t, n)
        \/ Drop

Spec == Init /\ [][Next]_vars
=============================================================================
