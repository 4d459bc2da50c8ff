-------------------------------- MODULE Sched --------------------------------
(***************************************************************************)
(* The scheduler of one agent (agent/sched.c, agent/task.c) and the        *)
(* threads around it:                                                      *)
(*   - the scheduler thread, sched_loop, which takes the queued tasks one  *)
(*     at a time, performs them and files them again or frees them;        *)
(*   - the producers: the threads of the wrapper that call em_send, and    *)
(*     the network thread, which queues the Hello and what the controller  *)
(*     asked for;                                                          *)
(*   - the thread that starts and releases the agent (em_start,            *)
(*     em_terminate_agent, core_release_agent).                            *)
(*                                                                         *)
(* One action is one critical section under ctx->lock or one step between  *)
(* two of them.  sched_add_task tests ctx->stop inside its critical        *)
(* section but sched_stop sets it outside any, so that section is two      *)
(* steps here and the spin lock is a variable; the critical sections of    *)
(* the scheduler thread read and write nothing that is shared outside the  *)
(* lock, so each of them is one step that needs the lock free.             *)
(*                                                                         *)
(* Time: a task is due once its interval (task->elapse) has passed since   *)
(* task->issued.  Elapse makes a task due at any moment after it was       *)
(* stamped; the arithmetic of ts_diff_to_ms is not part of this module.    *)
(***************************************************************************)
EXTENDS Integers, Sequences, SequencesExt

CONSTANTS Task,       \* the addresses task_alloc may return
          Api,        \* the threads of the wrapper that call em_send
          Net,        \* the network thread (a set of one element)
          ReschSet,   \* the values task_alloc is given for "res"
          NoTask,     \* the null pointer
          Free        \* the state of the spin lock nobody holds

Producer == Api \cup Net

ASSUME SchedAssumption ==
    /\ NoTask \notin Task
    /\ Free \notin Producer
    /\ Api \cap Net = {}
    /\ ReschSet \subseteq Int
    /\ \A r \in ReschSet : r >= -1
    /\ {-1, 0} \subseteq ReschSet

\* SEND and HELLO end in sched_send_msg and can fail with the connection;
\* every other type only calls back into the wrapper.
TaskType == {"SEND", "HELLO", "REQUEST"}
Outcome  == {"CONSUMED", "RESCHEDULE", "NOT_ELAPSED", "NET_ERROR"}

VARIABLES
    jobs,    \* ctx->jobs, first entry first
    todo,    \* ctx->todo, first entry first
    lock,    \* the producer inside sched_add_task that saw ctx->stop = 0
    stop,    \* ctx->stop
    pc,      \* where the scheduler thread is
    held,    \* the task sched_consume has taken off the queue
    op,      \* what sched_perform_job returned for it
    mine,    \* for each producer, the task it has allocated and not yet queued
    live,    \* the tasks allocated and not freed
    type, resch,   \* task->type and task->resch
    due,     \* the tasks whose interval has passed
    ctl      \* how far the thread that owns the agent has come

thread == <<pc, held, op>>
queues == <<jobs, todo>>
memory == <<live, type, resch, due>>
vars   == <<queues, lock, stop, thread, mine, memory, ctl>>

\* The tasks that sched_add_task has accepted and that are not yet freed.
Queued == ToSet(jobs) \cup ToSet(todo) \cup ({held} \ {NoTask})

\* The tasks some thread or list still has a pointer to, and those none has.
InHand  == {mine[p] : p \in Producer} \ {NoTask}
Leaked  == live \ (Queued \cup InHand)

\* task_free of the tasks of T.
TaskFree(T) == /\ live' = live \ T
               /\ due' = due \ T

Init == /\ jobs = <<>> /\ todo = <<>>
        /\ lock = Free
        /\ stop = FALSE
        /\ pc = "loop" /\ held = NoTask /\ op = "CONSUMED"
        /\ mine = [p \in Producer |-> NoTask]
        /\ live = {} /\ due = {}
        /\ type = [t \in Task |-> "SEND"]
        /\ resch = [t \in Task |-> 0]
        /\ ctl = "starting"

-----------------------------------------------------------------------------
(* Producers *)

\* What each thread allocates: em_send only one-shot SEND tasks, the network
\* thread the endless Hello and the tasks of the messages it receives.
Allocates(p, ty, r) ==
    \/ p \in Api /\ ty = "SEND"  /\ r = 0
    \/ p \in Net /\ ty = "HELLO" /\ r = -1
    \/ p \in Net /\ ty = "REQUEST" /\ r \in ReschSet

\* The agent can be found by em_send until it is taken off core_agents; the
\* network thread runs until net_stop has joined it.
MayProduce(p) == IF p \in Api THEN ctl = "listed" ELSE ctl # "released"

\* task_alloc succeeds and sched_add_task stamps task->issued.
TaskAlloc(p, t, ty, r) ==
    /\ MayProduce(p) /\ mine[p] = NoTask
    /\ t \in Task \ live
    /\ Allocates(p, ty, r)
    /\ mine' = [mine EXCEPT ![p] = t]
    /\ live' = live \cup {t}
    /\ type' = [type EXCEPT ![t] = ty]
    /\ resch' = [resch EXCEPT ![t] = r]
    /\ due' = due \ {t}
    /\ UNCHANGED <<queues, lock, stop, thread, ctl>>

\* Fault: sched_add_task without the test of ctx->stop.
AddEnterUntested(p) ==
    /\ mine[p] # NoTask /\ lock = Free
    /\ lock' = p
    /\ UNCHANGED <<queues, stop, thread, mine, memory, ctl>>

\* sched_add_task takes the lock and finds the context running.
AddEnter(p) ==
    /\ mine[p] # NoTask /\ lock = Free
    /\ ~stop
    /\ lock' = p
    /\ UNCHANGED <<queues, stop, thread, mine, memory, ctl>>

\* ... and finds the context stopped: the task is refused.  net_connected
\* frees the Hello it could not queue; core_send and net_sched_task return
\* the error and forget the task.
AddRefused(p) ==
    /\ mine[p] # NoTask /\ lock = Free
    /\ stop
    /\ TaskFree(IF type[mine[p]] = "HELLO" THEN {mine[p]} ELSE {})
    /\ mine' = [mine EXCEPT ![p] = NoTask]
    /\ UNCHANGED <<queues, lock, stop, thread, type, resch, ctl>>

\* list_add_tail, and the lock is released.
AddTail(p) ==
    /\ lock = p
    /\ jobs' = Append(jobs, mine[p])
    /\ lock' = Free
    /\ mine' = [mine EXCEPT ![p] = NoTask]
    /\ UNCHANGED <<todo, stop, thread, memory, ctl>>

Produce(p) ==
    \/ \E t \in Task, ty \in TaskType, r \in ReschSet : TaskAlloc(p, t, ty, r)
    \/ AddEnter(p)
    \/ AddRefused(p)
    \/ AddTail(p)

\* The interval of a task passes.
Elapse(t) ==
    /\ t \in live \ due
    /\ due' = due \cup {t}
    /\ UNCHANGED <<queues, lock, stop, thread, mine, live, type, resch, ctl>>

-----------------------------------------------------------------------------
(* The scheduler thread: sched_loop, sched_consume, sched_perform_job *)

\* while(!s->stop): another round of sched_consume, or the end of the loop.
LoopTest ==
    /\ pc = "loop"
    /\ pc' = IF stop THEN "drain" ELSE "pop"
    /\ UNCHANGED <<queues, lock, stop, held, op, mine, memory, ctl>>

\* The first job is taken off the queue.
Pop ==
    /\ pc = "pop" /\ lock = Free
    /\ jobs # <<>>
    /\ held' = Head(jobs)
    /\ jobs' = Tail(jobs)
    /\ pc' = "perform"
    /\ UNCHANGED <<todo, lock, stop, op, mine, memory, ctl>>

\* No job is left: the round is over.
PopNothing ==
    /\ pc = "pop" /\ lock = Free
    /\ jobs = <<>>
    /\ pc' = "restore"
    /\ UNCHANGED <<queues, lock, stop, held, op, mine, memory, ctl>>

\* sched_perform_job: too early for this task.
PerformTooEarly ==
    /\ pc = "perform" /\ held \notin due
    /\ op' = "NOT_ELAPSED" /\ pc' = "settle"
    /\ UNCHANGED <<queues, lock, stop, held, mine, memory, ctl>>

\* What a task that has been consumed asks for next.
AfterConsumed(r) == IF r # 0 THEN "RESCHEDULE" ELSE "CONSUMED"

\* sched_perform_job performs the task: the callback of the wrapper runs, or
\* a message is sent (or is too long to be).
PerformTask ==
    /\ pc = "perform" /\ held \in due
    /\ op' = AfterConsumed(resch[held])
    /\ pc' = "settle"
    /\ UNCHANGED <<queues, lock, stop, held, mine, memory, ctl>>

\* sched_perform_job: net_send failed.
PerformFails ==
    /\ pc = "perform" /\ held \in due
    /\ type[held] \in {"SEND", "HELLO"}
    /\ op' = "NET_ERROR" /\ pc' = "settle"
    /\ UNCHANGED <<queues, lock, stop, held, mine, memory, ctl>>

\* TASK_NOT_ELAPSED: the task waits on todo for the end of the round.
SettleNotElapsed ==
    /\ pc = "settle" /\ lock = Free /\ op = "NOT_ELAPSED"
    /\ todo' = <<held>> \o todo
    /\ held' = NoTask /\ op' = "CONSUMED" /\ pc' = "pop"
    /\ UNCHANGED <<jobs, lock, stop, mine, memory, ctl>>

\* Fault: the credit is consumed without the test task->resch > 0.
CreditUntested(r) == r - 1

\* The reschedule credit after one more run; a negative one never ends.
Credit(r) == IF r > 0 THEN r - 1 ELSE r

\* Fault: the task goes back to the end of the jobs of this very round.
SettleRescheduleOnJobs ==
    /\ pc = "settle" /\ lock = Free /\ op = "RESCHEDULE"
    /\ jobs' = Append(jobs, held)
    /\ resch' = [resch EXCEPT ![held] = Credit(@)]
    /\ due' = due \ {held}
    /\ held' = NoTask /\ op' = "CONSUMED" /\ pc' = "pop"
    /\ UNCHANGED <<todo, lock, stop, mine, live, type, ctl>>

\* TASK_RESCHEDULE: the task is stamped again and waits on todo.
SettleReschedule ==
    /\ pc = "settle" /\ lock = Free /\ op = "RESCHEDULE"
    /\ todo' = <<held>> \o todo
    /\ resch' = [resch EXCEPT ![held] = Credit(@)]
    /\ due' = due \ {held}
    /\ held' = NoTask /\ op' = "CONSUMED" /\ pc' = "pop"
    /\ UNCHANGED <<jobs, lock, stop, mine, live, type, ctl>>

\* Fault: the consumed task is forgotten.
SettleConsumedUnfreed ==
    /\ pc = "settle" /\ lock = Free /\ op = "CONSUMED"
    /\ held' = NoTask /\ pc' = "pop"
    /\ UNCHANGED <<queues, lock, stop, op, mine, memory, ctl>>

\* TASK_CONSUMED: the task is freed.
SettleConsumed ==
    /\ pc = "settle" /\ lock = Free /\ op = "CONSUMED"
    /\ TaskFree({held})
    /\ held' = NoTask /\ pc' = "pop"
    /\ UNCHANGED <<queues, lock, stop, op, mine, type, resch, ctl>>

\* Fault: the tasks of todo are freed and left on the list.
SettleNetErrorKeepsTodo ==
    /\ pc = "settle" /\ lock = Free /\ op = "NET_ERROR"
    /\ TaskFree(Queued)
    /\ jobs' = <<>>
    /\ held' = NoTask /\ op' = "CONSUMED" /\ pc' = "down"
    /\ UNCHANGED <<todo, lock, stop, mine, type, resch, ctl>>

\* TASK_NET_ERROR: the task and everything queued is freed, in the same
\* critical section.
SettleNetError ==
    /\ pc = "settle" /\ lock = Free /\ op = "NET_ERROR"
    /\ TaskFree(Queued)
    /\ jobs' = <<>> /\ todo' = <<>>
    /\ held' = NoTask /\ op' = "CONSUMED" /\ pc' = "down"
    /\ UNCHANGED <<lock, stop, mine, type, resch, ctl>>

\* Outside the lock: trig_flush, ops->disconnected and net_not_connected.
\* None of them touches the queues; sched_consume then returns.
ConnectionDown ==
    /\ pc = "down"
    /\ pc' = "loop"
    /\ UNCHANGED <<queues, lock, stop, held, op, mine, memory, ctl>>

\* Fault: todo is put before the jobs as it stands.
RestoredUnreversed(td, jb) == td \o jb

\* The jobs after the round: every task of todo, first entry first, is moved
\* to the head of the jobs with list_add.
Restored(td, jb) == Reverse(td) \o jb

\* Fault: sched_consume returns from its loop and todo waits there.
RestoreForgotten ==
    /\ pc = "restore" /\ lock = Free
    /\ pc' = "loop"
    /\ UNCHANGED <<queues, lock, stop, held, op, mine, memory, ctl>>

\* The end of sched_consume; sched_loop then sleeps for ctx->interval.
Restore ==
    /\ pc = "restore" /\ lock = Free
    /\ jobs' = Restored(todo, jobs)
    /\ todo' = <<>>
    /\ pc' = "loop"
    /\ UNCHANGED <<lock, stop, held, op, mine, memory, ctl>>

\* The loop was stopped: everything queued is freed and the thread ends.
Drain ==
    /\ pc = "drain" /\ lock = Free
    /\ TaskFree(ToSet(jobs) \cup ToSet(todo))
    /\ jobs' = <<>> /\ todo' = <<>>
    /\ pc' = "exit"
    /\ UNCHANGED <<lock, stop, held, op, mine, type, resch, ctl>>

Settle == SettleNotElapsed \/ SettleReschedule \/ SettleConsumed \/ SettleNetError

SchedLoop == \/ LoopTest
             \/ Pop \/ PopNothing
             \/ PerformTooEarly \/ PerformTask \/ PerformFails
             \/ Settle
             \/ ConnectionDown
             \/ Restore
             \/ Drain

-----------------------------------------------------------------------------
(* The thread that owns the agent *)

Control(from, to) == ctl = from /\ ctl' = to

\* em_start puts the agent on core_agents, or ops->init failed and it
\* releases the agent at once.
Publish ==
    /\ Control("starting", "listed") \/ Control("starting", "detached")
    /\ UNCHANGED <<queues, lock, stop, thread, mine, memory>>

\* em_terminate_agent (or em_stop) takes the agent off core_agents; it waits
\* for core_agents_lock, which em_send holds until its task is queued.
Detach ==
    /\ Control("listed", "detached")
    /\ \A p \in Api : mine[p] = NoTask
    /\ UNCHANGED <<queues, lock, stop, thread, mine, memory>>

\* core_release_agent: sched_stop sets the flag and joins the thread, then
\* net_stop joins the network thread.
SchedStop ==
    /\ Control("detached", "joining")
    /\ stop' = TRUE
    /\ UNCHANGED <<queues, lock, thread, mine, memory>>

SchedJoined ==
    /\ Control("joining", "joined")
    /\ pc = "exit"
    /\ UNCHANGED <<queues, lock, stop, thread, mine, memory>>

NetJoined ==
    /\ Control("joined", "released")
    /\ \A p \in Net : mine[p] = NoTask
    /\ UNCHANGED <<queues, lock, stop, thread, mine, memory>>

Owner == Publish \/ Detach \/ SchedStop \/ SchedJoined \/ NetJoined

\* A released agent is gone.
Released == ctl = "released" /\ UNCHANGED vars

Next == \/ \E p \in Producer : Produce(p)
        \/ \E t \in Task : Elapse(t)
        \/ SchedLoop
        \/ Owner
        \/ Released

Spec == Init /\ [][Next]_vars

\* The scheduler thread is never starved of the spin lock; a producer inside
\* sched_add_task leaves it; time passes; pthread_join returns once the
\* thread has ended.  Nobody is obliged to call the library.
Fairness == /\ SF_vars(SchedLoop)
            /\ \A p \in Producer : WF_vars(AddTail(p)) /\ SF_vars(AddEnter(p) \/ AddRefused(p))
            /\ \A t \in Task : WF_vars(Elapse(t))
            /\ WF_vars(SchedJoined) /\ WF_vars(NetJoined)

LiveSpec == Spec /\ Fairness

-----------------------------------------------------------------------------
(* Properties *)

\* Every variable has its type; a reschedule count is never below -1 (a
\* credit is consumed only from a positive count).
TypeOK == /\ jobs \in Seq(Task) /\ todo \in Seq(Task)
          /\ lock \in Producer \cup {Free}
          /\ stop \in BOOLEAN
          /\ pc \in {"loop", "pop", "perform", "settle", "down", "restore",
                    "drain", "exit"}
          /\ held \in Task \cup {NoTask}
          /\ op \in Outcome
          /\ mine \in [Producer -> Task \cup {NoTask}]
          /\ live \subseteq Task /\ due \subseteq live
          /\ type \in [Task -> TaskType]
          /\ resch \in [Task -> {r \in Int : r >= -1}]
          /\ ctl \in {"starting", "listed", "detached", "joining", "joined",
                     "released"}

\* A task is owned once: it is on one list at one place, or in the hands of
\* the scheduler thread, or in those of one producer, and whoever has it can
\* still use it (it has not been freed).  Nothing is linked into two lists,
\* freed twice or performed after it was freed, whatever the threads do
\* around the lock-free parts of sched_consume.
TaskOwnership ==
    /\ IsInjective(jobs) /\ IsInjective(todo)
    /\ ToSet(jobs) \cap ToSet(todo) = {}
    /\ held \notin ToSet(jobs) \cup ToSet(todo)
    /\ InHand \cap Queued = {}
    /\ \A p, q \in Producer : mine[p] = mine[q] => p = q \/ mine[p] = NoTask
    /\ Queued \cup InHand \subseteq live

\* Until the scheduler is stopped no task is lost: everything allocated is
\* reachable from a list or a thread, on the error paths too.
NoLeakWhileRunning == ~stop => Leaked = {}

\* Once the scheduler thread has freed what was queued and has ended, nobody
\* queues a task any more (nobody would ever free it), nobody is inside
\* sched_add_task's critical section, and nobody joins the thread before.
EndedIsEmpty ==
    /\ pc = "exit" => Queued = {} /\ lock = Free
    /\ ctl \in {"joined", "released"} => pc = "exit"

\* Where the threads are when: the scheduler thread has a task in hand exactly
\* between Pop and the end of Settle, a producer in the critical section has
\* the task it came with, still with the count it was allocated with, the
\* flag is set by the owner alone, and what sched_perform_job returned agrees
\* with task->resch.
ThreadStates ==
    /\ (held # NoTask) <=> pc \in {"perform", "settle"}
    /\ lock # Free => mine[lock] # NoTask
    /\ \A p \in Producer : mine[p] # NoTask => resch[mine[p]] \in ReschSet
    /\ stop <=> ctl \in {"joining", "joined", "released"}
    /\ pc \in {"drain", "exit"} => stop
    /\ pc = "settle" /\ op = "CONSUMED" => resch[held] = 0
    /\ pc = "settle" /\ op = "RESCHEDULE" => resch[held] # 0

\* The inductive invariant.
IInv == TypeOK /\ TaskOwnership /\ ThreadStates /\ NoLeakWhileRunning /\ EndedIsEmpty

\* What the lists and the threads make of the agenda: first what this round
\* has already filed (todo is a stack), then the task in hand, then the rest.
Pending == Reverse(todo) \o (IF held = NoTask THEN <<>> ELSE <<held>>) \o jobs

\* The runs a queued task still has: the count in resch and the run it was
\* queued for, unless that one has just been done.
HasRun(t) == pc = "settle" /\ t = held /\ op # "NOT_ELAPSED"

RunsOf(r) == IF r < 0 THEN r ELSE r + 1

Left == [t \in Task |-> IF t \notin Queued THEN 0
                        ELSE IF HasRun(t) THEN resch[t] ELSE RunsOf(resch[t])]

A == INSTANCE Agenda WITH Runs    <- {RunsOf(r) : r \in ReschSet},
                          pending <- Pending,
                          left    <- Left,
                          open    <- pc # "exit"

\* The scheduler implements the agenda: tasks keep their order over any
\* number of rounds, run exactly as often as they were posted for, and leave
\* only when they are spent, at a network error or at the end.
AgendaSpec == A!Spec

\* pthread_join in sched_stop returns: whatever the queue holds, endless
\* tasks included, the scheduler comes to test ctx->stop.
StopJoins == (ctl = "joining") ~> (ctl = "joined")

\* If every round ends (the producers do not keep the scheduler in it by
\* queueing faster than it consumes), a queued task is performed or dropped.
EachIsServed ==
    []<>(pc \in {"restore", "exit"}) => \A t \in Task : (t \in Queued) ~> (t \notin Queued \/ HasRun(t))
=============================================================================
