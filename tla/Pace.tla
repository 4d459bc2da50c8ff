-------------------------------- MODULE Pace --------------------------------
(***************************************************************************)
(* When the scheduler performs a task: the arithmetic of ts_diff_to_ms on  *)
(* the stamps of agent/sched.c, and a clock (CLOCK_REALTIME) that may be   *)
(* set while tasks wait.                                                   *)
(*                                                                         *)
(* Sched has the lists, their order and their lock, the stop and the net-  *)
(* work; here a list is the set of its tasks, any of which may come first, *)
(* and a task takes as many forms as Sched gives it: performed once, or    *)
(* performed and stamped again.                                            *)
(***************************************************************************)
EXTENDS Integers

CONSTANTS Task,
          Elapse,    \* the interval of each task, in milliseconds
          Second,    \* milliseconds in a second, 1000
          Milli,     \* nanoseconds in a millisecond, 1000000
          NoTask,
          MaxClock,  \* bound on the clock, in nanoseconds
          MaxSets    \* bound on the times the clock is set

ASSUME PaceAssumption ==
    /\ NoTask \notin Task
    /\ Elapse \in [Task -> Int]
    /\ Second \in Nat \ {0} /\ Milli \in Nat \ {0}
    /\ MaxClock \in Nat /\ MaxSets \in Nat

VARIABLES
    clock,    \* CLOCK_REALTIME, in nanoseconds
    sets,     \* how often it was set
    issued,   \* task->issued, the last stamp of each task
    stamped,  \* the tasks stamped and not yet on jobs
    jobs, todo,
    pc, hand, op,  \* the scheduler thread: the task it has taken, what becomes of it
    now,      \* the time it has read for that task
    owed,     \* the tasks of jobs that were due when the round began
    back      \* the clock was set back during the round

clockVars == <<clock, sets, back>>
vars == <<clockVars, issued, stamped, jobs, todo, pc, hand, op, now, owed>>

-----------------------------------------------------------------------------
(* struct timespec                                                          *)

\* clock_gettime at the time t: the second and the nanoseconds in it.
Timespec(t) == [sec  |-> t \div (Second * Milli), nsec |-> t % (Second * Milli)]

Nanos(ts) == ts.sec * (Second * Milli) + ts.nsec

\* The division of C, which rounds towards zero.
Quotient(d, n) == IF d >= 0 THEN d \div n ELSE -((-d) \div n)

\* Fault: the difference of the nanoseconds is taken without its sign.
TsDiffUnsigned(a, b) ==
    (b.sec - a.sec) * Second
        + Quotient(IF b.nsec >= a.nsec THEN b.nsec - a.nsec ELSE a.nsec - b.nsec, Milli)

\* ts_diff_to_ms
TsDiffToMs(a, b) == (b.sec - a.sec) * Second + Quotient(b.nsec - a.nsec, Milli)

Due(t, at) == TsDiffToMs(issued[t], at) >= Elapse[t]

-----------------------------------------------------------------------------
Init == /\ clock = 0 /\ sets = 0 /\ back = FALSE
        /\ issued = [t \in Task |-> Timespec(0)]
        /\ stamped = {} /\ jobs = {} /\ todo = {}
        /\ pc = "sleep" /\ hand = NoTask /\ op = "CONSUMED"
        /\ now = Timespec(0) /\ owed = {}

Tick == /\ clock < MaxClock
        /\ clock' = clock + 1
        /\ UNCHANGED <<sets, back, issued, stamped, jobs, todo, pc, hand, op, now, owed>>

\* The clock is set, forward or back.
SetClock(c) ==
    /\ sets < MaxSets /\ c # clock
    /\ clock' = c /\ sets' = sets + 1
    /\ back' = (back \/ c < clock)
    /\ UNCHANGED <<issued, stamped, jobs, todo, pc, hand, op, now, owed>>

\* sched_add_task: the stamp, before the lock is taken ...
Stamp(t) ==
    /\ t \notin stamped \cup jobs \cup todo \cup {hand}
    /\ issued' = [issued EXCEPT ![t] = Timespec(clock)]
    /\ stamped' = stamped \cup {t}
    /\ UNCHANGED <<clockVars, jobs, todo, pc, hand, op, now, owed>>

\* ... and the end of the list, under the lock.
AddTask(t) ==
    /\ t \in stamped
    /\ jobs' = jobs \cup {t}
    /\ stamped' = stamped \ {t}
    /\ UNCHANGED <<clockVars, issued, todo, pc, hand, op, now, owed>>

-----------------------------------------------------------------------------
(* sched_loop and sched_consume                                             *)

\* nanosleep returns and sched_consume begins.
Begin ==
    /\ pc = "sleep"
    /\ pc' = "pop"
    /\ owed' = {t \in jobs : Due(t, Timespec(clock))}
    /\ back' = FALSE
    /\ UNCHANGED <<clock, sets, issued, stamped, jobs, todo, hand, op, now>>

Pop(t) ==
    /\ pc = "pop" /\ t \in jobs
    /\ hand' = t /\ jobs' = jobs \ {t}
    /\ pc' = "read"
    /\ UNCHANGED <<clockVars, issued, stamped, todo, op, now, owed>>

ReadClock ==
    /\ pc = "read"
    /\ now' = Timespec(clock)
    /\ pc' = "perform"
    /\ UNCHANGED <<clockVars, issued, stamped, jobs, todo, hand, op, owed>>

\* sched_perform_job: too early, or performed with one of the outcomes.
TooEarly ==
    /\ pc = "perform" /\ ~ Due(hand, now)
    /\ op' = "NOT_ELAPSED" /\ pc' = "settle"
    /\ UNCHANGED <<clockVars, issued, stamped, jobs, todo, hand, now, owed>>

Perform ==
    /\ pc = "perform" /\ Due(hand, now)
    /\ op' \in {"CONSUMED", "RESCHEDULE", "NET_ERROR"}
    /\ owed' = owed \ {hand}
    /\ pc' = "settle"
    /\ UNCHANGED <<clockVars, issued, stamped, jobs, todo, hand, now>>

\* The task waits on todo; a rescheduled one is stamped with the time read
\* before it was performed.
Wait ==
    /\ pc = "settle" /\ op \in {"NOT_ELAPSED", "RESCHEDULE"}
    /\ todo' = todo \cup {hand}
    /\ issued' = IF op = "RESCHEDULE" THEN [issued EXCEPT ![hand] = now] ELSE issued
    /\ hand' = NoTask /\ pc' = "pop"
    /\ UNCHANGED <<clockVars, stamped, jobs, op, now, owed>>

Consumed ==
    /\ pc = "settle" /\ op = "CONSUMED"
    /\ hand' = NoTask /\ pc' = "pop"
    /\ UNCHANGED <<clockVars, issued, stamped, jobs, todo, op, now, owed>>

\* Everything is freed, and sched_consume returns.
NetError ==
    /\ pc = "settle" /\ op = "NET_ERROR"
    /\ jobs' = {} /\ todo' = {}
    /\ owed' = {}
    /\ hand' = NoTask /\ pc' = "sleep"
    /\ UNCHANGED <<clockVars, issued, stamped, op, now>>

\* Fault: the round ends with the task the test found too early.
RoundEndsEarly ==
    /\ pc = "pop" /\ (jobs = {} \/ op = "NOT_ELAPSED")
    /\ jobs' = jobs \cup todo /\ todo' = {}
    /\ pc' = "sleep"
    /\ UNCHANGED <<clockVars, issued, stamped, hand, op, now, owed>>

\* Fault: the tasks of todo are added to jobs and left on todo.
RoundEndsKeepsTodo ==
    /\ pc = "pop" /\ jobs = {}
    /\ jobs' = todo
    /\ pc' = "sleep"
    /\ UNCHANGED <<clockVars, issued, stamped, todo, hand, op, now, owed>>

\* No job is left, and todo becomes jobs.
RoundEnds ==
    /\ pc = "pop" /\ jobs = {}
    /\ jobs' = todo /\ todo' = {}
    /\ pc' = "sleep"
    /\ UNCHANGED <<clockVars, issued, stamped, hand, op, now, owed>>

Next ==
    \/ Tick \/ \E c \in 0 .. MaxClock : SetClock(c)
    \/ \E t \in Task : Stamp(t) \/ AddTask(t) \/ Pop(t)
    \/ Begin \/ ReadClock \/ TooEarly \/ Perform
    \/ Wait \/ Consumed \/ NetError \/ RoundEnds

Spec == Init /\ [][Next]_vars

-----------------------------------------------------------------------------
(* What is checked.                                                         *)

Stamps == [sec : Int, nsec : 0 .. Second * Milli - 1]

\* Types; a task is in one place at a time, also while it is stamped and waits
\* for the lock.
TypeOK ==
    /\ clock \in Nat /\ sets \in Nat /\ back \in BOOLEAN
    /\ issued \in [Task -> Stamps] /\ now \in Stamps
    /\ stamped \subseteq Task /\ jobs \subseteq Task /\ todo \subseteq Task
    /\ stamped \cap jobs = {} /\ stamped \cap todo = {} /\ jobs \cap todo = {}
    /\ pc \in {"sleep", "pop", "read", "perform", "settle"}
    /\ hand \in (Task \ (stamped \cup jobs \cup todo)) \cup {NoTask}
    /\ pc \in {"sleep", "pop"} <=> hand = NoTask
    /\ op \in {"NOT_ELAPSED", "CONSUMED", "RESCHEDULE", "NET_ERROR"}
    /\ owed \subseteq Task

Slept == Nanos(now) - Nanos(issued[hand])

\* A task is performed less than a millisecond before its interval has passed
\* on the clock, or later, and found too early only before it has passed,
\* wherever in their seconds the two stamps lie and however the clock is set
\* (ts_diff_to_ms, sched.c:30, in sched_perform_job).
WithinAMilli ==
    pc = "settle" =>
        IF op = "NOT_ELAPSED" THEN Slept < Elapse[hand] * Milli
                              ELSE Slept > (Elapse[hand] - 1) * Milli

\* What was due when a round of sched_consume began is performed in that
\* round, or freed with everything else, unless the clock was set back in it
\* (the rounds of sched_consume, sched.c:758-857).
DueIsServed == pc = "sleep" /\ ~ back => owed = {}

\* What is due stays due, and is still to be taken, while the clock is not set
\* back: the inductive invariant of DueIsServed.
OwedIsAhead ==
    ~ back => \A t \in owed :
        /\ pc # "sleep"
        /\ t \in jobs \/ (t = hand /\ pc \in {"read", "perform"})
        /\ Due(t, Timespec(clock))
        /\ t = hand /\ pc = "perform" => Due(t, now)

IInv == TypeOK /\ WithinAMilli /\ OwedIsAhead
=============================================================================
