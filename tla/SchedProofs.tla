----------------------------- MODULE SchedProofs -----------------------------
(***************************************************************************)
(* Theorems about Sched, for any number of tasks and producers.            *)
(***************************************************************************)
EXTENDS Sched, ListLemmas

\* The initial state satisfies the inductive invariant.
LEMMA InitIInv == Init => IInv
PROOF
<1> SUFFICES ASSUME Init PROVE IInv
  OBVIOUS
<1> USE DEF Init
<1>1. TypeOK
  <2>1. jobs \in Seq(Task) /\ todo \in Seq(Task)
    BY EmptyList
  <2>2. mine \in [Producer -> Task \cup {NoTask}]
    OBVIOUS
  <2>3. type \in [Task -> TaskType] /\ resch \in [Task -> {r \in Int : r >= -1}]
    BY DEF TaskType
  <2> QED BY <2>1, <2>2, <2>3 DEF TypeOK, Outcome
<1>2. InHand = {} /\ Queued = {}
  BY EmptyList DEF InHand, Queued
<1>3. TaskOwnership
  <2>1. \A p \in Producer : mine[p] = NoTask
    OBVIOUS
  <2> QED BY EmptyList, <1>2, <2>1, SchedAssumption DEF TaskOwnership
<1>4. ThreadStates
  BY DEF ThreadStates
<1>5. NoLeakWhileRunning /\ EndedIsEmpty
  BY <1>2 DEF NoLeakWhileRunning, EndedIsEmpty, Leaked
<1> QED BY <1>1, <1>3, <1>4, <1>5 DEF IInv

\* What a thread has in hand, seen from the other threads: a producer that
\* puts its hand on a task, or lets it go, changes InHand by that task alone.
LEMMA HandLemma ==
    ASSUME TypeOK, TaskOwnership, NEW p \in Producer, NEW t \in Task \cup {NoTask},
           mine' = [mine EXCEPT ![p] = t]
    PROVE  /\ mine' \in [Producer -> Task \cup {NoTask}]
           /\ InHand' = (InHand \ {mine[p]}) \cup ({t} \ {NoTask})
PROOF
<1>1. mine \in [Producer -> Task \cup {NoTask}]
  BY DEF TypeOK
<1>2. \A q \in Producer : mine'[q] = IF q = p THEN t ELSE mine[q]
  BY <1>1
<1>3. \A q \in Producer : q # p /\ mine[q] # NoTask => mine[q] # mine[p]
  BY DEF TaskOwnership
<1>4. InHand' = {mine'[q] : q \in Producer} \ {NoTask}
  BY DEF InHand
<1>5. InHand = {mine[q] : q \in Producer} \ {NoTask}
  BY DEF InHand
<1>6. InHand' \subseteq (InHand \ {mine[p]}) \cup ({t} \ {NoTask})
  BY <1>2, <1>3, <1>4, <1>5
<1>7. (InHand \ {mine[p]}) \cup ({t} \ {NoTask}) \subseteq InHand'
  <2>1. ASSUME NEW q \in Producer, mine[q] # NoTask, mine[q] # mine[p]
        PROVE  mine[q] \in InHand'
    BY <2>1, <1>2, <1>4
  <2>2. t # NoTask => t \in InHand'
    BY <1>2, <1>4
  <2> QED BY <2>1, <2>2, <1>5
<1> QED BY <1>1, <1>6, <1>7

\* A producer allocates a task.
LEMMA AllocStep ==
    ASSUME IInv, NEW p \in Producer, NEW t \in Task, NEW ty \in TaskType,
           NEW r \in ReschSet, TaskAlloc(p, t, ty, r)
    PROVE  IInv'
PROOF
<1> USE DEF IInv, TaskAlloc, queues, thread, memory
<1>1. t \notin Queued \cup InHand
  BY DEF TaskOwnership
<1>2. /\ mine' \in [Producer -> Task \cup {NoTask}]
      /\ InHand' = InHand \cup {t}
  <2>1. mine' = [mine EXCEPT ![p] = t] /\ mine[p] = NoTask
    OBVIOUS
  <2>2. /\ mine' \in [Producer -> Task \cup {NoTask}]
        /\ InHand' = (InHand \ {mine[p]}) \cup ({t} \ {NoTask})
    BY <2>1, HandLemma
  <2>3. NoTask \notin InHand /\ t # NoTask
    BY SchedAssumption DEF InHand
  <2> QED BY <2>1, <2>2, <2>3
<1>3. Queued' = Queued
  BY DEF Queued
<1>4. TypeOK'
  <2>1. type' \in [Task -> TaskType] BY DEF TypeOK
  <2>2. r \in Int /\ r >= -1 BY SchedAssumption
  <2>3. resch' \in [Task -> {x \in Int : x >= -1}] BY <2>2 DEF TypeOK
  <2> QED BY <1>2, <2>1, <2>3 DEF TypeOK
<1>5. TaskOwnership'
  <2>1. ASSUME NEW q \in Producer, NEW s \in Producer, mine'[q] = mine'[s], q # s
        PROVE  mine'[q] = NoTask
    <3>1. \A x \in Producer : mine'[x] = IF x = p THEN t ELSE mine[x]
      BY DEF TypeOK
    <3>2. \A x \in Producer : mine[x] # t
      BY <1>1, SchedAssumption DEF InHand
    <3> QED BY <2>1, <3>1, <3>2 DEF TaskOwnership
  <2> QED BY <1>1, <1>2, <1>3, <2>1 DEF TaskOwnership
<1>6. ThreadStates'
  <2>1. pc = "settle" => held \in Task /\ held \in Queued
    BY SchedAssumption DEF TypeOK, ThreadStates, Queued
  <2>2. pc = "settle" => resch'[held] = resch[held]
    BY <2>1, <1>1 DEF TypeOK
  <2>3. lock # Free => mine'[lock] # NoTask
    BY SchedAssumption DEF TypeOK, ThreadStates
  <2>4. ASSUME NEW q \in Producer, mine'[q] # NoTask
        PROVE  resch'[mine'[q]] \in ReschSet
    <3>1. CASE q = p
      BY <3>1 DEF TypeOK
    <3>2. CASE q # p
      <4>1. mine'[q] = mine[q] /\ mine[q] \in InHand
        BY <3>2, <2>4 DEF TypeOK, InHand
      <4>2. mine[q] # t
        BY <4>1, <1>1
      <4> QED BY <4>1, <4>2, <2>4 DEF TypeOK, ThreadStates
    <3> QED BY <3>1, <3>2
  <2> QED BY <2>2, <2>3, <2>4 DEF ThreadStates
<1>7. NoLeakWhileRunning' /\ EndedIsEmpty'
  BY <1>2, <1>3 DEF NoLeakWhileRunning, EndedIsEmpty, Leaked
<1> QED BY <1>4, <1>5, <1>6, <1>7

\* A producer enters the critical section of sched_add_task.
LEMMA EnterStep ==
    ASSUME IInv, NEW p \in Producer, AddEnter(p)
    PROVE  IInv'
PROOF
<1> USE DEF IInv, AddEnter, queues, thread, memory
<1>1. Queued' = Queued /\ InHand' = InHand
  BY DEF Queued, InHand
<1>2. TypeOK'
  BY DEF TypeOK
<1>3. TaskOwnership'
  BY <1>1 DEF TaskOwnership
<1>4. ThreadStates'
  BY DEF ThreadStates
<1>5. NoLeakWhileRunning'
  BY <1>1 DEF NoLeakWhileRunning, Leaked
<1>6. EndedIsEmpty'
  BY DEF EndedIsEmpty, ThreadStates
<1> QED BY <1>2, <1>3, <1>4, <1>5, <1>6

\* A producer is refused.
LEMMA RefusedStep ==
    ASSUME IInv, NEW p \in Producer, AddRefused(p)
    PROVE  IInv'
PROOF
<1> USE DEF IInv, AddRefused, TaskFree, queues, thread, memory
<1>1. /\ mine' \in [Producer -> Task \cup {NoTask}]
      /\ InHand' = InHand \ {mine[p]}
  BY HandLemma
<1>2. Queued' = Queued
  BY DEF Queued
<1>3. \A x \in Producer : mine'[x] = IF x = p THEN NoTask ELSE mine[x]
  BY DEF TypeOK
<1>4. TypeOK'
  <2>1. live' \subseteq live /\ due' \subseteq live'
    BY DEF TypeOK
  <2> QED BY <1>1, <2>1 DEF TypeOK
<1>5. TaskOwnership'
  <2>1. mine[p] \notin Queued
    BY DEF TaskOwnership, InHand
  <2>2. live \ {mine[p]} \subseteq live'
    OBVIOUS
  <2> QED BY <1>1, <1>2, <1>3, <2>1, <2>2 DEF TaskOwnership
<1>6. ThreadStates'
  BY <1>3 DEF ThreadStates
<1>7. NoLeakWhileRunning'
  BY DEF NoLeakWhileRunning
<1>8. EndedIsEmpty'
  BY <1>2 DEF EndedIsEmpty
<1> QED BY <1>4, <1>5, <1>6, <1>7, <1>8

\* A producer queues its task.
LEMMA TailStep ==
    ASSUME IInv, NEW p \in Producer, AddTail(p)
    PROVE  IInv'
PROOF
<1> USE DEF IInv, AddTail, queues, thread, memory
<1>1. /\ mine' \in [Producer -> Task \cup {NoTask}]
      /\ InHand' = InHand \ {mine[p]}
  BY HandLemma
<1>2. mine[p] # NoTask /\ mine[p] \in Task /\ mine[p] \in InHand
  BY SchedAssumption DEF TypeOK, ThreadStates, InHand, Producer
<1>3. mine[p] \notin Queued
  BY <1>2 DEF TaskOwnership
<1>4. /\ jobs' \in Seq(Task)
      /\ ToSet(jobs') = ToSet(jobs) \cup {mine[p]}
      /\ IsInjective(jobs) /\ mine[p] \notin ToSet(jobs) => IsInjective(jobs')
  BY <1>2, AppendLemma DEF TypeOK
<1>5. Queued' = Queued \cup {mine[p]}
  BY <1>4 DEF Queued
<1>6. \A x \in Producer : mine'[x] = IF x = p THEN NoTask ELSE mine[x]
  BY DEF TypeOK
<1>7. TypeOK'
  BY <1>1, <1>4 DEF TypeOK
<1>8. TaskOwnership'
  <2>1. mine[p] \notin ToSet(jobs) /\ mine[p] \notin ToSet(todo) /\ mine[p] # held
    BY <1>2, <1>3 DEF Queued
  <2>2. /\ IsInjective(jobs') /\ IsInjective(todo')
        /\ ToSet(jobs') \cap ToSet(todo') = {}
        /\ held' \notin ToSet(jobs') \cup ToSet(todo')
    BY <1>4, <2>1 DEF TaskOwnership
  <2> QED BY <1>1, <1>2, <1>5, <1>6, <2>2 DEF TaskOwnership
<1>9. ThreadStates'
  BY DEF ThreadStates
<1>10. NoLeakWhileRunning'
  BY <1>1, <1>5 DEF NoLeakWhileRunning, Leaked
<1>11. EndedIsEmpty'
  BY SchedAssumption DEF EndedIsEmpty
<1> QED BY <1>7, <1>8, <1>9, <1>10, <1>11

\* The time of a task comes.
LEMMA ElapseStep ==
    ASSUME IInv, NEW t \in Task, Elapse(t)
    PROVE  IInv'
PROOF
<1> USE DEF IInv, Elapse, queues, thread
<1>1. Queued' = Queued /\ InHand' = InHand
  BY DEF Queued, InHand
<1>2. TypeOK'
  BY DEF TypeOK
<1>3. TaskOwnership'
  BY <1>1 DEF TaskOwnership
<1>4. ThreadStates'
  BY DEF ThreadStates
<1>5. NoLeakWhileRunning' /\ EndedIsEmpty'
  BY <1>1 DEF NoLeakWhileRunning, EndedIsEmpty, Leaked
<1> QED BY <1>2, <1>3, <1>4, <1>5

\* The steps of the scheduler thread that touch neither a list nor a task.
LEMMA QuietStep ==
    ASSUME IInv,
           \/ LoopTest \/ PopNothing \/ ConnectionDown
           \/ PerformTooEarly \/ PerformTask \/ PerformFails
    PROVE  IInv'
PROOF
<1> USE DEF IInv
<1>1. /\ UNCHANGED <<queues, lock, stop, held, mine, memory, ctl>>
      /\ pc # "exit" /\ pc' # "exit"
      /\ pc' \in {"drain", "pop", "restore", "loop", "settle"}
      /\ op' \in Outcome
      /\ pc' = "drain" => stop
      /\ pc \in {"perform", "settle"} <=> pc' \in {"perform", "settle"}
      /\ pc' = "settle" => /\ op' = "CONSUMED" => resch[held] = 0
                           /\ op' = "RESCHEDULE" => resch[held] # 0
  BY DEF LoopTest, PopNothing, ConnectionDown, PerformTooEarly, PerformTask,
         PerformFails, AfterConsumed, Outcome, TypeOK
<1> USE DEF queues, memory
<1>2. Queued' = Queued /\ InHand' = InHand
  BY <1>1 DEF Queued, InHand
<1>3. TypeOK'
  BY <1>1 DEF TypeOK
<1>4. TaskOwnership'
  BY <1>1, <1>2 DEF TaskOwnership
<1>5. ThreadStates'
  BY <1>1 DEF ThreadStates
<1>6. NoLeakWhileRunning' /\ EndedIsEmpty'
  BY <1>1, <1>2 DEF NoLeakWhileRunning, EndedIsEmpty, Leaked
<1> QED BY <1>3, <1>4, <1>5, <1>6

\* The scheduler thread takes the first job.
LEMMA PopStep ==
    ASSUME IInv, Pop
    PROVE  IInv'
PROOF
<1> USE DEF IInv, Pop, memory
<1>1. /\ Head(jobs) \in Task /\ Tail(jobs) \in Seq(Task)
      /\ ToSet(jobs) = ToSet(Tail(jobs)) \cup {Head(jobs)}
      /\ IsInjective(jobs) => IsInjective(Tail(jobs)) /\ Head(jobs) \notin ToSet(Tail(jobs))
  BY TailLemma DEF TypeOK
<1>2. held = NoTask
  BY DEF ThreadStates
<1>3. Queued' = Queued /\ InHand' = InHand
  BY <1>1, <1>2, SchedAssumption DEF Queued, InHand
<1>4. TypeOK'
  BY <1>1 DEF TypeOK
<1>5. TaskOwnership'
  BY <1>1, <1>3 DEF TaskOwnership
<1>6. ThreadStates'
  BY <1>1, SchedAssumption DEF ThreadStates
<1>7. NoLeakWhileRunning' /\ EndedIsEmpty'
  BY <1>3 DEF NoLeakWhileRunning, EndedIsEmpty, Leaked
<1> QED BY <1>4, <1>5, <1>6, <1>7

\* The scheduler thread files its task on todo.
LEMMA FileStep ==
    ASSUME IInv, SettleNotElapsed \/ SettleReschedule
    PROVE  IInv'
PROOF
<1> USE DEF IInv
<1>1. /\ pc = "settle" /\ todo' = <<held>> \o todo
      /\ UNCHANGED <<jobs, lock, stop, mine, live, type, ctl>>
      /\ held' = NoTask /\ op' = "CONSUMED" /\ pc' = "pop"
      /\ due' \subseteq due
  BY DEF SettleNotElapsed, SettleReschedule, memory
<1>2. held \in Task /\ held # NoTask
  BY <1>1 DEF TypeOK, ThreadStates
<1>3. resch' \in [Task -> {r \in Int : r >= -1}]
  <2>1. CASE SettleNotElapsed
    BY <2>1 DEF SettleNotElapsed, memory, TypeOK
  <2>2. CASE SettleReschedule
    <3>1. Credit(resch[held]) \in {r \in Int : r >= -1}
      BY <1>2 DEF Credit, TypeOK
    <3> QED BY <2>2, <3>1, <1>2 DEF SettleReschedule, TypeOK
  <2> QED BY <2>1, <2>2
<1>4. /\ todo' \in Seq(Task)
      /\ ToSet(todo') = ToSet(todo) \cup {held}
      /\ IsInjective(todo) /\ held \notin ToSet(todo) => IsInjective(todo')
  BY <1>1, <1>2, PushLemma DEF TypeOK
<1>5. Queued' = Queued /\ InHand' = InHand
  BY <1>1, <1>2, <1>4 DEF Queued, InHand
<1>6. TypeOK'
  BY <1>1, <1>3, <1>4 DEF TypeOK, Outcome
<1>7. TaskOwnership'
  <2>1. NoTask \notin ToSet(jobs') \cup ToSet(todo')
    BY <1>1, <1>4, <1>6, SchedAssumption, ToSetOver DEF TypeOK
  <2> QED BY <1>1, <1>4, <1>5, <2>1 DEF TaskOwnership
<1>8. ThreadStates'
  <2>1. \A t \in InHand : resch'[t] = resch[t]
    <3>1. held \notin InHand
      BY <1>2 DEF TaskOwnership, Queued
    <3>2. resch' = resch \/ resch' = [resch EXCEPT ![held] = Credit(@)]
      BY DEF SettleNotElapsed, SettleReschedule, memory
    <3>3. \A t \in Task : t # held => resch'[t] = resch[t]
      BY <3>2, <1>2 DEF TypeOK
    <3>4. InHand \subseteq Task
      BY DEF InHand, TypeOK
    <3> QED BY <3>1, <3>3, <3>4
  <2>2. \A p \in Producer : mine[p] # NoTask => mine[p] \in InHand
    BY DEF InHand
  <2> QED BY <1>1, <2>1, <2>2 DEF ThreadStates
<1>9. NoLeakWhileRunning' /\ EndedIsEmpty'
  BY <1>1, <1>5 DEF NoLeakWhileRunning, EndedIsEmpty, Leaked
<1> QED BY <1>6, <1>7, <1>8, <1>9

\* The scheduler thread frees the task it has consumed.
LEMMA ConsumedStep ==
    ASSUME IInv, SettleConsumed
    PROVE  IInv'
PROOF
<1> USE DEF IInv, SettleConsumed, TaskFree, queues
<1>1. held \in Task /\ held # NoTask
  BY DEF TypeOK, ThreadStates
<1>2. held \notin ToSet(jobs) /\ held \notin ToSet(todo) /\ held \notin InHand
  BY <1>1 DEF TaskOwnership, Queued
<1>3. Queued' = Queued \ {held} /\ InHand' = InHand
  BY <1>1, <1>2 DEF Queued, InHand
<1>4. TypeOK'
  BY DEF TypeOK
<1>5. TaskOwnership'
  <2>1. NoTask \notin ToSet(jobs') \cup ToSet(todo')
    BY <1>4, SchedAssumption, ToSetOver DEF TypeOK
  <2> QED BY <1>2, <1>3, <2>1 DEF TaskOwnership
<1>6. ThreadStates'
  BY DEF ThreadStates
<1>7. NoLeakWhileRunning' /\ EndedIsEmpty'
  BY <1>3 DEF NoLeakWhileRunning, EndedIsEmpty, Leaked
<1> QED BY <1>4, <1>5, <1>6, <1>7

\* Everything queued is freed, because of a network error or at the end.
LEMMA FlushStep ==
    ASSUME IInv, SettleNetError \/ Drain
    PROVE  IInv'
PROOF
<1> USE DEF IInv, TaskFree
<1>1. /\ lock = Free /\ UNCHANGED <<lock, stop, mine, type, resch, ctl>>
      /\ live' = live \ Queued /\ due' = due \ Queued
      /\ jobs' = <<>> /\ todo' = <<>> /\ held' = NoTask
      /\ pc' \in {"down", "exit"} /\ op' \in Outcome
      /\ pc' = "exit" => stop
      /\ pc # "exit"
  <2>1. CASE SettleNetError
    BY <2>1 DEF SettleNetError, Outcome
  <2>2. CASE Drain
    <3>1. held = NoTask BY <2>2 DEF Drain, ThreadStates
    <3>2. Queued = ToSet(jobs) \cup ToSet(todo) BY <3>1 DEF Queued
    <3> QED BY <2>2, <3>1, <3>2 DEF Drain, ThreadStates, TypeOK
  <2> QED BY <2>1, <2>2
<1>2. Queued' = {} /\ InHand' = InHand
  BY <1>1, EmptyList DEF Queued, InHand
<1>3. TypeOK'
  BY <1>1, EmptyList DEF TypeOK
<1>4. TaskOwnership'
  BY <1>1, <1>2, EmptyList DEF TaskOwnership
<1>5. ThreadStates'
  BY <1>1 DEF ThreadStates
<1>6. NoLeakWhileRunning' /\ EndedIsEmpty'
  BY <1>1, <1>2 DEF NoLeakWhileRunning, EndedIsEmpty, Leaked
<1> QED BY <1>3, <1>4, <1>5, <1>6

\* The filed tasks become jobs again.
LEMMA RestoreStep ==
    ASSUME IInv, Restore
    PROVE  IInv'
PROOF
<1> USE DEF IInv, Restore, memory
<1>1. /\ Reverse(todo) \in Seq(Task) /\ ToSet(Reverse(todo)) = ToSet(todo)
      /\ IsInjective(todo) => IsInjective(Reverse(todo))
  BY ReverseLemma DEF TypeOK
<1>2. /\ jobs' \in Seq(Task)
      /\ ToSet(jobs') = ToSet(todo) \cup ToSet(jobs)
      /\ IsInjective(jobs')
  BY <1>1, ConcatLemma DEF TypeOK, TaskOwnership, Restored
<1>3. Queued' = Queued /\ InHand' = InHand
  BY <1>2, EmptyList DEF Queued, InHand
<1>4. TypeOK'
  BY <1>2, EmptyList DEF TypeOK
<1>5. TaskOwnership'
  BY <1>2, <1>3, EmptyList DEF TaskOwnership
<1>6. ThreadStates'
  BY DEF ThreadStates
<1>7. NoLeakWhileRunning' /\ EndedIsEmpty'
  BY <1>3 DEF NoLeakWhileRunning, EndedIsEmpty, Leaked
<1> QED BY <1>4, <1>5, <1>6, <1>7

\* The thread that owns the agent starts or ends it.
LEMMA OwnerStep ==
    ASSUME IInv, Owner
    PROVE  IInv'
PROOF
<1> USE DEF IInv
<1>1. /\ UNCHANGED <<queues, lock, thread, mine, memory>>
      /\ stop => stop'
      /\ ctl' \in {"listed", "detached", "joining", "joined", "released"}
      /\ stop' \in BOOLEAN
      /\ stop' <=> ctl' \in {"joining", "joined", "released"}
      /\ ctl' \in {"joined", "released"} => pc = "exit"
  <2>1. stop \in BOOLEAN /\ (stop <=> ctl \in {"joining", "joined", "released"})
    BY DEF TypeOK, ThreadStates
  <2>2. CASE Publish \/ Detach
    BY <2>1, <2>2 DEF Publish, Detach, Control
  <2>3. CASE SchedStop
    BY <2>1, <2>3 DEF SchedStop, Control
  <2>4. CASE SchedJoined \/ NetJoined
    BY <2>1, <2>4 DEF SchedJoined, NetJoined, Control, EndedIsEmpty
  <2> QED BY <2>2, <2>3, <2>4 DEF Owner
<1> USE DEF queues, thread, memory
<1>2. Queued' = Queued /\ InHand' = InHand
  BY <1>1 DEF Queued, InHand
<1>3. TypeOK'
  BY <1>1 DEF TypeOK
<1>4. TaskOwnership'
  BY <1>1, <1>2 DEF TaskOwnership
<1>5. ThreadStates'
  BY <1>1 DEF ThreadStates
<1>6. NoLeakWhileRunning' /\ EndedIsEmpty'
  BY <1>1, <1>2 DEF NoLeakWhileRunning, EndedIsEmpty, Leaked
<1> QED BY <1>3, <1>4, <1>5, <1>6

\* A step that changes nothing.
LEMMA StutterStep ==
    ASSUME IInv, UNCHANGED vars
    PROVE  IInv'
PROOF
<1> USE DEF IInv, vars, queues, thread, memory
<1>1. Queued' = Queued /\ InHand' = InHand
  BY DEF Queued, InHand
<1>2. TypeOK'
  BY DEF TypeOK
<1>3. TaskOwnership'
  BY <1>1 DEF TaskOwnership
<1>4. ThreadStates'
  BY DEF ThreadStates
<1>5. NoLeakWhileRunning' /\ EndedIsEmpty'
  BY <1>1 DEF NoLeakWhileRunning, EndedIsEmpty, Leaked
<1> QED BY <1>2, <1>3, <1>4, <1>5

-----------------------------------------------------------------------------

\* The inductive invariant holds in every reachable state.
THEOREM SchedInvariant == Spec => []IInv
PROOF
<1>1. Init => IInv
  BY InitIInv
<1>2. IInv /\ [Next]_vars => IInv'
  <2> SUFFICES ASSUME IInv, [Next]_vars PROVE IInv'
    OBVIOUS
  <2>1. ASSUME NEW p \in Producer, Produce(p) PROVE IInv'
    <3>1. CASE \E t \in Task, ty \in TaskType, r \in ReschSet : TaskAlloc(p, t, ty, r)
      BY <3>1, AllocStep
    <3>2. CASE AddEnter(p)   BY <3>2, EnterStep
    <3>3. CASE AddRefused(p) BY <3>3, RefusedStep
    <3>4. CASE AddTail(p)    BY <3>4, TailStep
    <3> QED BY <2>1, <3>1, <3>2, <3>3, <3>4 DEF Produce
  <2>2. ASSUME NEW t \in Task, Elapse(t) PROVE IInv'
    BY <2>2, ElapseStep
  <2>3. CASE SchedLoop
    <3>1. CASE Settle
      BY <3>1, FileStep, ConsumedStep, FlushStep DEF Settle
    <3> QED BY <2>3, <3>1, QuietStep, PopStep, RestoreStep, FlushStep DEF SchedLoop
  <2>4. CASE Owner
    BY <2>4, OwnerStep
  <2>5. CASE UNCHANGED vars
    BY <2>5, StutterStep
  <2> QED BY <2>1, <2>2, <2>3, <2>4, <2>5 DEF Next, Released
<1> QED BY <1>1, <1>2, PTL DEF Spec

\* Every variable keeps its type, and no reschedule count falls below -1.
THEOREM SchedTypeOK == Spec => []TypeOK
PROOF
<1>1. IInv => TypeOK
  BY DEF IInv
<1> QED BY <1>1, SchedInvariant, PTL

\* No task is ever on two lists, in two hands, or used after it was freed.
THEOREM SchedOwnership == Spec => []TaskOwnership
PROOF
<1>1. IInv => TaskOwnership
  BY DEF IInv
<1> QED BY <1>1, SchedInvariant, PTL

\* No task is lost while the scheduler runs.
THEOREM SchedNoLeak == Spec => []NoLeakWhileRunning
PROOF
<1>1. IInv => NoLeakWhileRunning
  BY DEF IInv
<1> QED BY <1>1, SchedInvariant, PTL

\* The queue of a scheduler that has ended is empty and stays empty.
THEOREM SchedEnded == Spec => []EndedIsEmpty
PROOF
<1>1. IInv => EndedIsEmpty
  BY DEF IInv
<1> QED BY <1>1, SchedInvariant, PTL

-----------------------------------------------------------------------------
(* The scheduler implements the agenda. *)

\* The agenda holds the queued tasks.
LEMMA PendingLemma ==
    ASSUME TypeOK
    PROVE  Pending \in Seq(Task) /\ ToSet(Pending) = Queued
PROOF
<1> DEFINE h == IF held = NoTask THEN <<>> ELSE <<held>>
           r == Reverse(todo)
<1>1. h \in Seq(Task) /\ ToSet(h) = {held} \ {NoTask}
  <2>1. CASE held = NoTask
    BY <2>1, EmptyList
  <2>2. CASE held # NoTask
    <3>1. <<held>> \in Seq(Task) /\ DOMAIN <<held>> = 1..1 /\ <<held>>[1] = held
      BY <2>2 DEF TypeOK
    <3>2. ToSet(<<held>>) = {held}
      BY <3>1 DEF ToSet
    <3> QED BY <2>2, <3>1, <3>2
  <2> QED BY <2>1, <2>2
<1>2. r \in Seq(Task) /\ ToSet(r) = ToSet(todo)
  BY ReverseLemma DEF TypeOK
<1> HIDE DEF h, r
<1>3. r \o h \in Seq(Task) /\ ToSet(r \o h) = ToSet(todo) \cup ({held} \ {NoTask})
  BY <1>1, <1>2, ConcatLemma
<1>4. /\ (r \o h) \o jobs \in Seq(Task)
      /\ ToSet((r \o h) \o jobs) = (ToSet(todo) \cup ({held} \ {NoTask})) \cup ToSet(jobs)
  <2> DEFINE c == r \o h
  <2>1. c \in Seq(Task) /\ jobs \in Seq(Task)
    BY <1>3 DEF TypeOK
  <2> HIDE DEF c
  <2>2. c \o jobs \in Seq(Task) /\ ToSet(c \o jobs) = ToSet(c) \cup ToSet(jobs)
    BY <2>1, ConcatLemma
  <2> QED BY <2>2, <1>3 DEF c
<1> QED BY <1>4 DEF Pending, Queued, h, r

\* The agenda stutters when neither the lists nor what is left changes.
LEMMA AgendaStutter ==
    ASSUME Pending' = Pending, Left' = Left, (pc' = "exit") <=> (pc = "exit")
    PROVE  UNCHANGED A!vars
PROOF BY DEF A!vars

\* What is left only depends on the queued tasks.
LEMMA LeftLemma ==
    ASSUME Queued' = Queued,
           \A t \in Queued : resch'[t] = resch[t] /\ (HasRun(t)' <=> HasRun(t))
    PROVE  Left' = Left
PROOF
<1> DEFINE L(t, q, has, r) == IF t \notin q THEN 0 ELSE IF has THEN r ELSE RunsOf(r)
<1>1. ASSUME NEW t \in Task
      PROVE  L(t, Queued', HasRun(t)', resch'[t]) = L(t, Queued, HasRun(t), resch[t])
  BY DEF RunsOf
<1>2. Left = [t \in Task |-> L(t, Queued, HasRun(t), resch[t])]
  BY DEF Left
<1>3. Left' = [t \in Task |-> L(t, Queued', HasRun(t)', resch'[t])]
  BY DEF Left, RunsOf
<1> HIDE DEF L
<1> QED BY <1>1, <1>2, <1>3

\* The initial queues are the empty agenda.
LEMMA AgendaInit == Init => A!Init
PROOF
<1> SUFFICES ASSUME Init PROVE A!Init
  OBVIOUS
<1> USE DEF Init
<1>1. Queued = {}
  BY EmptyList DEF Queued
<1>2. Left = [t \in Task |-> 0]
  BY <1>1 DEF Left
<1>3. Pending = <<>>
  <2>1. Reverse(todo) \in Seq(Task) /\ Len(Reverse(todo)) = 0
    BY EmptyList, ReverseLemma
  <2>2. Reverse(todo) = <<>>
    BY <2>1, EmptySeq
  <2> QED BY <2>2, EmptyList, ConcatEmptySeq DEF Pending
<1> QED BY <1>2, <1>3 DEF A!Init

\* A producer queues its task: it is posted.
LEMMA TailPosts ==
    ASSUME IInv, IInv', NEW p \in Producer, AddTail(p)
    PROVE  A!Next
PROOF
<1> DEFINE m == mine[p]
           n == RunsOf(resch[m])
<1> USE DEF AddTail, IInv, queues, thread, memory
<1>1. m # NoTask /\ m \in Task /\ m \in InHand
  BY SchedAssumption DEF TypeOK, ThreadStates, InHand, Producer
<1>2. m \notin Queued
  BY <1>1 DEF TaskOwnership
<1>3. jobs' = Append(jobs, m) /\ ToSet(jobs') = ToSet(jobs) \cup {m}
  BY <1>1, AppendLemma DEF TypeOK
<1>4. Queued' = Queued \cup {m}
  BY <1>3 DEF Queued
<1>5. Pending' = Append(Pending, m)
  <2> DEFINE f == Reverse(todo) \o (IF held = NoTask THEN <<>> ELSE <<held>>)
  <2>1. f \in Seq(Task)
    <3>1. (IF held = NoTask THEN <<>> ELSE <<held>>) \in Seq(Task)
      BY EmptyList DEF TypeOK
    <3>2. Reverse(todo) \in Seq(Task)
      BY ReverseLemma DEF TypeOK
    <3> QED BY <3>1, <3>2, ConcatProperties
  <2>2. Pending = f \o jobs /\ Pending' = f \o Append(jobs, m)
    BY <1>3 DEF Pending
  <2> HIDE DEF f, m
  <2>3. Append(jobs, m) = jobs \o <<m>>
    BY <1>1, AppendIsConcat DEF TypeOK
  <2>4. f \o (jobs \o <<m>>) = (f \o jobs) \o <<m>>
    BY <1>1, <2>1, ConcatAssociative DEF TypeOK
  <2>5. (f \o jobs) \o <<m>> = Append(f \o jobs, m)
    <3>1. f \o jobs \in Seq(Task) BY <2>1, ConcatProperties DEF TypeOK
    <3> QED BY <1>1, <3>1, AppendIsConcat
  <2> QED BY <2>2, <2>3, <2>4, <2>5
<1>6. Left' = [Left EXCEPT ![m] = n]
  <2>1. ASSUME NEW t \in Task
        PROVE  Left'[t] = IF t = m THEN n ELSE Left[t]
    <3>1. HasRun(t)' = HasRun(t) /\ ~HasRun(m)
      <4>1. held # m
        BY <1>1, <1>2 DEF Queued
      <4> QED BY <4>1 DEF HasRun
    <3>2. Left'[t] = IF t \notin Queued' THEN 0
                     ELSE IF HasRun(t)' THEN resch[t] ELSE RunsOf(resch[t])
      BY DEF Left, RunsOf
    <3>3. Left[t] = IF t \notin Queued THEN 0
                    ELSE IF HasRun(t) THEN resch[t] ELSE RunsOf(resch[t])
      BY DEF Left
    <3> QED BY <3>1, <3>2, <3>3, <1>2, <1>4
  <2>2. Left' = [t \in Task |-> Left'[t]] /\ Left = [t \in Task |-> Left[t]]
    BY DEF Left, RunsOf
  <2> HIDE DEF m, n
  <2> QED BY <1>1, <2>1, <2>2
<1>7. resch[m] \in ReschSet
  BY <1>1 DEF ThreadStates
<1>8. A!Post(m, n)
  <2>1. pc # "exit" /\ pc' # "exit"
    BY SchedAssumption DEF EndedIsEmpty
  <2>2. m \notin ToSet(Pending)
    BY <1>2, PendingLemma
  <2> HIDE DEF m, n
  <2> QED BY <1>5, <1>6, <2>1, <2>2 DEF A!Post, A!ToSet, ToSet
<1> QED BY <1>1, <1>7, <1>8 DEF A!Next

\* What the lists do not show: steps that leave the queued tasks where they
\* are, and the counts and the progress of the queued tasks as they are.
LEMMA HiddenStep ==
    ASSUME IInv, UNCHANGED <<jobs, todo, held>>,
           (pc' = "exit") <=> (pc = "exit"),
           \A t \in Queued : resch'[t] = resch[t],
           held # NoTask => (HasRun(held)' <=> HasRun(held))
    PROVE  UNCHANGED A!vars
PROOF
<1>1. Queued' = Queued
  BY DEF Queued
<1>2. Pending' = Pending
  BY DEF Pending
<1>3. ASSUME NEW t \in Queued
      PROVE  HasRun(t)' <=> HasRun(t)
  <2>1. NoTask \notin Queued
    BY SchedAssumption, ToSetOver DEF Queued, IInv, TypeOK
  <2>2. CASE t = held
    BY <2>1, <2>2 DEF HasRun
  <2>3. CASE t # held
    BY <2>3 DEF HasRun
  <2> QED BY <2>2, <2>3
<1>4. Left' = Left
  BY <1>1, <1>3, LeftLemma
<1> QED BY <1>2, <1>4, AgendaStutter

\* The steps of the other threads, apart from AddTail, and the steps of the
\* scheduler thread that perform nothing are hidden.
LEMMA OthersHidden ==
    ASSUME IInv,
           \/ \E p \in Producer : \/ AddEnter(p) \/ AddRefused(p)
                                  \/ \E t \in Task, ty \in TaskType, r \in ReschSet :
                                       TaskAlloc(p, t, ty, r)
           \/ \E t \in Task : Elapse(t)
           \/ Owner
           \/ UNCHANGED vars
    PROVE  UNCHANGED A!vars
PROOF
<1> USE DEF queues, thread, memory
<1>1. UNCHANGED <<jobs, todo, pc, held, op>>
  BY DEF AddEnter, AddRefused, TaskAlloc, Elapse, Owner, Publish, Detach, SchedStop,
         SchedJoined, NetJoined, vars
<1>2. \A t \in Queued : resch'[t] = resch[t]
  <2>1. CASE \E p \in Producer, t \in Task, ty \in TaskType, r \in ReschSet : TaskAlloc(p, t, ty, r)
    <3>1. PICK t \in Task, r \in ReschSet : t \notin live /\ resch' = [resch EXCEPT ![t] = r]
      BY <2>1 DEF TaskAlloc
    <3>2. t \notin Queued
      BY <3>1 DEF IInv, TaskOwnership
    <3> QED BY <3>1, <3>2 DEF IInv, TypeOK, TaskOwnership
  <2>2. CASE ~\E p \in Producer, t \in Task, ty \in TaskType, r \in ReschSet : TaskAlloc(p, t, ty, r)
    BY <2>2 DEF AddEnter, AddRefused, Elapse, Owner, Publish, Detach, SchedStop,
                SchedJoined, NetJoined, vars
  <2> QED BY <2>1, <2>2
<1>3. held # NoTask => (HasRun(held)' <=> HasRun(held))
  BY <1>1, <1>2 DEF HasRun
<1> QED BY <1>1, <1>2, <1>3, HiddenStep

LEMMA QuietHidden ==
    ASSUME IInv, LoopTest \/ PopNothing \/ ConnectionDown \/ PerformTooEarly
    PROVE  UNCHANGED A!vars
PROOF
<1>1. /\ UNCHANGED <<jobs, todo, held, resch>>
      /\ pc # "exit" /\ pc' # "exit"
      /\ pc = "perform" \/ held = NoTask
      /\ pc = "perform" => op' = "NOT_ELAPSED"
  BY DEF LoopTest, PopNothing, ConnectionDown, PerformTooEarly, queues, memory, IInv, ThreadStates
<1>2. held # NoTask => (HasRun(held)' <=> HasRun(held))
  BY <1>1 DEF HasRun
<1> QED BY <1>1, <1>2, HiddenStep

\* Taking a task off the jobs does not take it off the agenda.
LEMMA PopHidden ==
    ASSUME IInv, Pop
    PROVE  UNCHANGED A!vars
PROOF
<1> USE DEF IInv, Pop, memory
<1>1. /\ Head(jobs) \in Task /\ Tail(jobs) \in Seq(Task)
      /\ ToSet(jobs) = ToSet(Tail(jobs)) \cup {Head(jobs)}
      /\ jobs = <<Head(jobs)>> \o Tail(jobs)
  BY TailLemma DEF TypeOK
<1>2. held = NoTask /\ held' = Head(jobs) /\ Head(jobs) # NoTask
  BY <1>1, SchedAssumption DEF ThreadStates
<1>3. Queued' = Queued
  BY <1>1, <1>2, SchedAssumption DEF Queued
<1>4. Pending' = Pending
  <2> DEFINE r == Reverse(todo)
  <2>1. r \in Seq(Task) /\ <<Head(jobs)>> \in Seq(Task)
    BY <1>1, ReverseLemma DEF TypeOK
  <2>2. Pending = (r \o <<>>) \o jobs /\ Pending' = (r \o <<Head(jobs)>>) \o Tail(jobs)
    BY <1>2 DEF Pending
  <2> HIDE DEF r
  <2>3. r \o <<>> = r
    BY <2>1, ConcatEmptySeq
  <2>4. (r \o <<Head(jobs)>>) \o Tail(jobs) = r \o (<<Head(jobs)>> \o Tail(jobs))
    BY <1>1, <2>1, ConcatAssociative
  <2> QED BY <1>1, <2>2, <2>3, <2>4
<1>5. Left' = Left
  <2>1. \A t \in Queued : resch'[t] = resch[t] /\ (HasRun(t)' <=> HasRun(t))
    BY <1>2 DEF HasRun
  <2> QED BY <1>3, <2>1, LeftLemma
<1> QED BY <1>4, <1>5, AgendaStutter

\* Filing a task on todo does not move it in the agenda.
LEMMA FileHidden ==
    ASSUME IInv, SettleNotElapsed \/ SettleReschedule
    PROVE  UNCHANGED A!vars
PROOF
<1> USE DEF IInv
<1>1. /\ pc = "settle" /\ todo' = <<held>> \o todo /\ jobs' = jobs
      /\ held' = NoTask /\ pc' = "pop"
  BY DEF SettleNotElapsed, SettleReschedule, memory
<1>2. held \in Task /\ held # NoTask
  BY <1>1 DEF TypeOK, ThreadStates
<1>3. ToSet(todo') = ToSet(todo) \cup {held}
  BY <1>1, <1>2, PushLemma DEF TypeOK
<1>4. Queued' = Queued
  BY <1>1, <1>2, <1>3 DEF Queued
<1>5. Pending' = Pending
  <2> DEFINE r == Reverse(todo)
  <2>1. Reverse(todo') = r \o <<held>> /\ r \o <<held>> \in Seq(Task)
    <3>1. <<held>> \in Seq(Task) /\ r \in Seq(Task)
      BY <1>2, ReverseLemma DEF TypeOK
    <3>2. r \o <<held>> \in Seq(Task)
      BY <3>1, ConcatProperties
    <3> QED BY <1>1, <1>2, <3>2, ReversePush DEF TypeOK
  <2>2. Pending = (r \o <<held>>) \o jobs /\ Pending' = (Reverse(todo') \o <<>>) \o jobs
    BY <1>1, <1>2 DEF Pending
  <2> HIDE DEF r
  <2>3. (r \o <<held>>) \o <<>> = r \o <<held>>
    BY <2>1, ConcatEmptySeq
  <2> QED BY <2>1, <2>2, <2>3
<1>6. Left' = Left
  <2>1. ASSUME NEW t \in Task
        PROVE  (IF HasRun(t)' THEN resch'[t] ELSE RunsOf(resch'[t]))
               = (IF HasRun(t) THEN resch[t] ELSE RunsOf(resch[t]))
    <3>1. ~HasRun(t)'
      BY <1>1 DEF HasRun
    <3>2. CASE SettleNotElapsed
      BY <3>1, <3>2 DEF SettleNotElapsed, memory, HasRun
    <3>3. CASE SettleReschedule
      <4>1. CASE t = held
        <5>1. HasRun(t) /\ resch[t] # 0 /\ resch[t] \in Int /\ resch[t] >= -1
              /\ resch'[t] = Credit(resch[t])
          BY <3>3, <4>1, <1>2 DEF SettleReschedule, HasRun, ThreadStates, TypeOK
        <5> QED BY <3>1, <5>1 DEF Credit, RunsOf
      <4>2. CASE t # held
        BY <3>1, <3>3, <4>2 DEF SettleReschedule, HasRun, TypeOK
      <4> QED BY <4>1, <4>2
    <3> QED BY <3>2, <3>3
  <2>2. Left = [t \in Task |-> IF t \notin Queued THEN 0
                  ELSE IF HasRun(t) THEN resch[t] ELSE RunsOf(resch[t])]
    BY DEF Left
  <2>3. Left' = [t \in Task |-> IF t \notin Queued' THEN 0
                  ELSE IF HasRun(t)' THEN resch'[t] ELSE RunsOf(resch'[t])]
    BY DEF Left, RunsOf
  <2> QED BY <1>4, <2>1, <2>2, <2>3
<1> QED BY <1>1, <1>5, <1>6, AgendaStutter

\* The filed tasks come back before the jobs, in the order they were taken.
LEMMA RestoreHidden ==
    ASSUME IInv, Restore
    PROVE  UNCHANGED A!vars
PROOF
<1> USE DEF IInv, Restore, memory
<1>1. held = NoTask
  BY DEF ThreadStates
<1> DEFINE r == Reverse(todo)
<1>2. r \in Seq(Task) /\ ToSet(r) = ToSet(todo) /\ jobs \in Seq(Task)
  BY ReverseLemma DEF TypeOK
<1>3. jobs' = r \o jobs /\ todo' = <<>>
  BY DEF Restored
<1>4. Reverse(todo') = <<>>
  BY <1>3, EmptyList, ReverseLemma, EmptySeq
<1>5. Pending = (r \o <<>>) \o jobs /\ Pending' = (<<>> \o <<>>) \o (r \o jobs)
  BY <1>1, <1>3, <1>4 DEF Pending
<1> HIDE DEF r
<1>6. r \o jobs \in Seq(Task) /\ ToSet(r \o jobs) = ToSet(todo) \cup ToSet(jobs)
  BY <1>2, ConcatLemma
<1>7. Pending' = Pending
  <2>1. r \o <<>> = r /\ <<>> \o (r \o jobs) = r \o jobs
    BY <1>2, <1>6, ConcatEmptySeq
  <2>2. <<>> \o <<>> = <<>>
    BY EmptyList, ConcatEmptySeq
  <2> QED BY <1>5, <2>1, <2>2
<1>8. Queued' = Queued
  BY <1>3, <1>6, EmptyList DEF Queued
<1>9. Left' = Left
  <2>1. \A t \in Queued : resch'[t] = resch[t] /\ (HasRun(t)' <=> HasRun(t))
    BY DEF HasRun
  <2> QED BY <1>8, <2>1, LeftLemma
<1> QED BY <1>7, <1>9, AgendaStutter

\* Performing a task uses up one of its runs.
LEMMA PerformRuns ==
    ASSUME IInv, PerformTask \/ PerformFails
    PROVE  A!Next
PROOF
<1> USE DEF IInv
<1>1. /\ UNCHANGED <<jobs, todo, held, resch>>
      /\ pc = "perform" /\ pc' = "settle" /\ op' # "NOT_ELAPSED"
  BY DEF PerformTask, PerformFails, AfterConsumed, queues, memory
<1>2. held \in Task /\ held # NoTask /\ held \in Queued
  BY <1>1 DEF TypeOK, ThreadStates, Queued
<1>3. Pending' = Pending /\ Queued' = Queued
  BY <1>1 DEF Pending, Queued
<1>4. resch[held] \in Int /\ resch[held] >= -1
  BY <1>2 DEF TypeOK
<1>5. Left[held] = RunsOf(resch[held])
  BY <1>1, <1>2 DEF Left, HasRun
<1>6. ASSUME NEW t \in Task
      PROVE  Left'[t] = IF t = held THEN resch[held] ELSE Left[t]
  <2>1. (HasRun(t)' <=> t = held) /\ ~HasRun(t)
    BY <1>1 DEF HasRun
  <2>2. Left'[t] = IF t \notin Queued' THEN 0
                   ELSE IF HasRun(t)' THEN resch'[t] ELSE RunsOf(resch'[t])
    BY DEF Left, RunsOf
  <2>3. Left[t] = IF t \notin Queued THEN 0
                  ELSE IF HasRun(t) THEN resch[t] ELSE RunsOf(resch[t])
    BY DEF Left
  <2> QED BY <1>1, <1>2, <1>3, <2>1, <2>2, <2>3
<1>7. Left' = [t \in Task |-> Left'[t]] /\ Left = [t \in Task |-> Left[t]]
  BY DEF Left, RunsOf
<1>8. (IF Left[held] > 0 THEN Left[held] - 1 ELSE Left[held]) = resch[held]
  BY <1>4, <1>5 DEF RunsOf
<1>9. Left' = [Left EXCEPT ![held] = IF @ > 0 THEN @ - 1 ELSE @]
  BY <1>2, <1>6, <1>7, <1>8
<1>10. held \in ToSet(Pending) /\ Left[held] # 0
  BY <1>2, <1>4, <1>5, PendingLemma DEF RunsOf
<1>11. A!Run(held)
  BY <1>1, <1>3, <1>9, <1>10 DEF A!Run, A!ToSet, ToSet
<1> QED BY <1>2, <1>11 DEF A!Next

\* A consumed task has no run left: it retires.
LEMMA ConsumedRetires ==
    ASSUME IInv, SettleConsumed
    PROVE  A!Next
PROOF
<1> USE DEF IInv, SettleConsumed, TaskFree, queues
<1>1. held \in Task /\ held # NoTask /\ resch[held] = 0
  BY DEF TypeOK, ThreadStates
<1>2. held \notin ToSet(jobs) /\ held \notin ToSet(todo)
  BY DEF TaskOwnership
<1> DEFINE r == Reverse(todo)
           k == Len(r) + 1
<1>3. r \in Seq(Task) /\ jobs \in Seq(Task)
  BY ReverseLemma DEF TypeOK
<1>4. Pending = (r \o <<held>>) \o jobs /\ Pending' = (r \o <<>>) \o jobs
  BY <1>1 DEF Pending
<1> HIDE DEF r
<1>5. k \in DOMAIN Pending /\ Pending[k] = held /\ RemoveAt(Pending, k) = r \o jobs
  <2>1. Pending = (r \o <<held>>) \o jobs /\ held \in Task /\ k = Len(r) + 1
    BY <1>1, <1>4
  <2> HIDE DEF k
  <2>2. k \in DOMAIN Pending
    BY ONLY <2>1, <1>3, MiddlePlace
  <2>3. Pending[k] = held
    BY ONLY <2>1, <1>3, MiddlePlace
  <2>4. RemoveAt(Pending, k) = r \o jobs
    BY ONLY <2>1, <1>3, RemoveMiddle
  <2> QED BY <2>2, <2>3, <2>4
<1>6. Pending' = RemoveAt(Pending, k)
  BY <1>3, <1>4, <1>5, ConcatEmptySeq
<1>7. Left[held] = 0
  <2>1. HasRun(held)
    BY DEF HasRun
  <2> QED BY <1>1, <2>1 DEF Left
<1>8. Left' = Left
  <2>1. Queued' = Queued \ {held}
    BY <1>1, <1>2 DEF Queued
  <2>2. ASSUME NEW t \in Task, t # held
        PROVE  HasRun(t)' = HasRun(t)
    BY <2>2 DEF HasRun
  <2>3. Left' = [t \in Task |-> IF t \notin Queued' THEN 0
                   ELSE IF HasRun(t)' THEN resch'[t] ELSE RunsOf(resch'[t])]
    BY DEF Left, RunsOf
  <2>4. Left = [t \in Task |-> IF t \notin Queued THEN 0
                  ELSE IF HasRun(t) THEN resch[t] ELSE RunsOf(resch[t])]
    BY DEF Left
  <2>5. ASSUME NEW t \in Task PROVE Left'[t] = Left[t]
    <3>1. CASE t = held BY <3>1, <1>1, <1>7, <2>1, <2>3
    <3>2. CASE t # held BY <3>2, <2>1, <2>2, <2>3, <2>4
    <3> QED BY <3>1, <3>2
  <2> QED BY <2>3, <2>4, <2>5
<1>9. A!Retire(held)
  <2> HIDE DEF k
  <2>1. UNCHANGED (pc # "exit")
    OBVIOUS
  <2> QED BY <1>5, <1>6, <1>7, <1>8, <2>1 DEF A!Retire, A!RemoveAt, RemoveAt
<1> QED BY <1>1, <1>9 DEF A!Next

\* The flush empties the agenda; the one at the end closes it.
LEMMA FlushDrops ==
    ASSUME IInv, SettleNetError \/ Drain
    PROVE  A!Next
PROOF
<1>1. jobs' = <<>> /\ todo' = <<>> /\ held' = NoTask /\ pc' \in {"down", "exit"} /\ pc # "exit"
  BY DEF SettleNetError, Drain, IInv, ThreadStates
<1>2. Queued' = {}
  BY <1>1, EmptyList DEF Queued
<1>3. Left' = [t \in Task |-> 0]
  BY <1>2 DEF Left, RunsOf
<1>4. Pending' = <<>>
  <2>1. Reverse(todo') = <<>>
    BY <1>1, EmptyList, ReverseLemma, EmptySeq
  <2>2. Pending' = (<<>> \o <<>>) \o <<>>
    BY <1>1, <2>1 DEF Pending
  <2> QED BY <2>2, EmptyList, ConcatEmptySeq
<1>5. A!Drop
  BY <1>1, <1>3, <1>4 DEF A!Drop
<1> QED BY <1>5 DEF A!Next

\* Every behaviour of the scheduler is, under the mapping of Sched, one of the
\* agenda: tasks keep their order over the rounds, run exactly as often as
\* they were posted for, and leave when they are spent or dropped.
THEOREM SchedImplementsAgenda == Spec => AgendaSpec
PROOF
<1>1. Init => A!Init
  BY AgendaInit
<1>2. IInv /\ IInv' /\ [Next]_vars => [A!Next]_(A!vars)
  <2> SUFFICES ASSUME IInv, IInv', [Next]_vars PROVE A!Next \/ UNCHANGED A!vars
    OBVIOUS
  <2>1. ASSUME NEW p \in Producer, Produce(p) PROVE A!Next \/ UNCHANGED A!vars
    BY <2>1, OthersHidden, TailPosts DEF Produce
  <2>2. ASSUME NEW t \in Task, Elapse(t) PROVE UNCHANGED A!vars
    BY <2>2, OthersHidden
  <2>3. CASE SchedLoop
    BY <2>3, QuietHidden, PopHidden, FileHidden, RestoreHidden, PerformRuns, ConsumedRetires,
       FlushDrops DEF SchedLoop, Settle
  <2>4. CASE Owner \/ UNCHANGED vars
    BY <2>4, OthersHidden
  <2> QED BY <2>1, <2>2, <2>3, <2>4 DEF Next, Released
<1> QED BY <1>1, <1>2, SchedInvariant, PTL DEF Spec, AgendaSpec, A!Spec
=============================================================================
