------------------------------ MODULE Triggers ------------------------------
(***************************************************************************)
(* The triggers of one agent (agent/triggers.c) and the three kinds of     *)
(* thread that use them:                                                   *)
(*   - the network thread adds and removes triggers as the controller asks *)
(*     (net_te_ue_report, net_te_ue_measure, net_te_cell_meas_report) and  *)
(*     queues one task for each trigger it adds;                           *)
(*   - the scheduler thread performs these tasks, which look their trigger *)
(*     up and pass it to the wrapper, and flushes tasks and triggers when  *)
(*     the connection fails (sched_consume);                               *)
(*   - the threads of the wrapper remove triggers (em_del_trigger).        *)
(*                                                                         *)
(* Each operation on the table is one critical section under trctx.lock    *)
(* and one step here.  trig_add and trig_find_by_id give their caller a    *)
(* pointer that outlives the critical section: what is read through it     *)
(* after the trigger was freed is any value of its type.                   *)
(*                                                                         *)
(* The scheduler is running (a refused task: see Sched), and the wrapper   *)
(* implements every callback.  A request need not parse: the network       *)
(* thread makes triggers of it all the same, the scheduler does not.       *)
(***************************************************************************)
EXTENDS Integers, Sequences, SequencesExt

CONSTANTS Act,      \* the triggered requests the controller makes
          Mod,      \* the modules of the controller that make them
          Meas,     \* the ids of UE measurements
          NoMeas,   \* instance 0, that of the requests other than measurements
          Idle,     \* no request
          MaxId     \* bound: the last trigger id that is given out

Ids == 0..MaxId
NoTrig == 0

\* The measurements of one request: at most two, all different.
Measures == {<<m>> : m \in Meas} \cup {s \in Meas \X Meas : s[1] # s[2]}

\* The instances of a request: the triggers it stands for.
InstancesOf(act) == IF act = "UE_MEASURE" THEN Measures ELSE {<<NoMeas>>}

AllInstances == Measures \cup {<<NoMeas>>}

\* The message trig->msg a trigger keeps, and a request of the controller.
\* net_te_ue_measure does not look whether its message parses (net.c:595): the
\* instances of one that does not are what the stack held, any of Measures.
\* That of a UE report is never parsed again, so that nothing tells it apart.
Message == {m \in [act : Act, mod : Mod, insts : AllInstances, parses : BOOLEAN] :
                /\ m.insts \in InstancesOf(m.act)
                /\ m.act = "UE_REPORT" => m.parses}
Request == [op : {"ADD", "REM"}, msg : Message]

ASSUME TriggersAssumption ==
    /\ Act \subseteq {"UE_REPORT", "UE_MEASURE", "CELL_MEASURE"}
    /\ NoMeas \notin Meas
    /\ Idle \notin Request
    /\ MaxId \in Nat

\* The type of a trigger when the network thread adds it, and the type it
\* looks for when it removes it.
AddType(act) == CASE act = "UE_REPORT"  -> "UE_REP"
                  [] act = "UE_MEASURE" -> "UE_MEAS"
                  [] act = "CELL_MEASURE" -> "TASK_TYPE_CELL_MEASURE"

DelType(act) == CASE act = "UE_REPORT"  -> "UE_REP"
                  [] act = "UE_MEASURE" -> "UE_MEAS"
                  [] act = "CELL_MEASURE" -> "MAC_REP"

VARIABLES
    ts,      \* trctx.ts, first entry first
    next,    \* trctx.next
    req,     \* the request the network thread processes, or Idle
    left,    \* the instances of req still to be processed
    added,   \* the trigger it has added and holds a pointer to
    tasks,   \* the queued tasks that name a trigger, oldest first
    spc,     \* where the scheduler thread is
    used,    \* the trigger it has found and holds a pointer to
    calls,   \* the calls of the wrapper it still has to make
    told     \* the triggers the wrapper was called for

net  == <<req, left, added>>
sched == <<spc, used, calls>>
vars == <<ts, next, net, tasks, sched, told>>

\* A trigger: its id, its keys and the message it was made from.
Trigger == [id : Ids, type : {"UE_REP", "UE_MEAS", "TASK_TYPE_CELL_MEASURE"},
            mod : Mod, instance : Meas \cup {NoMeas}, msg : Message]

\* A task that names a trigger.
Task == [act : Act, trig : Ids]

Init == /\ ts = <<>> /\ next = 1
        /\ req = Idle /\ left = <<>> /\ added = NoTrig
        /\ tasks = <<>>
        /\ spc = "idle" /\ used = NoTrig /\ calls = 0
        /\ told = {}

\* The triggers of the table, by id.
Live == {t.id : t \in ToSet(ts)}

\* What is read as the id of a trigger through a pointer to it.
ReadId(i) == IF i \in Live THEN {i} ELSE Ids

-----------------------------------------------------------------------------
(* The table: triggers.c *)

\* Fault: the id is not advanced.
TrigAddSameId(t) ==
    /\ ts' = <<[t EXCEPT !.id = next]>> \o ts
    /\ next' = next

\* trig_add: the next id, at the head of the list.
TrigAdd(t) ==
    /\ ts' = <<[t EXCEPT !.id = next]>> \o ts
    /\ next' = next + 1

\* The first entry that satisfies Test is removed and freed, if there is one.
DeleteFirst(Test(_)) ==
    \/ /\ \A i \in DOMAIN ts : ~Test(ts[i])
       /\ ts' = ts
    \/ \E i \in DOMAIN ts : /\ Test(ts[i])
                            /\ \A j \in 1..(i - 1) : ~Test(ts[j])
                            /\ ts' = RemoveAt(ts, i)

\* trig_del_by_id
TrigDelById(i) == DeleteFirst(LAMBDA t : t.id = i)

\* Fault: the instance is not compared.
TrigDelByKeys(mod, type, instance) ==
    DeleteFirst(LAMBDA t : t.type = type /\ t.mod = mod)

\* trig_del_by_inst
TrigDelByInst(mod, type, instance) ==
    DeleteFirst(LAMBDA t : t.type = type /\ t.mod = mod /\ t.instance = instance)

\* Fault: the ids start again.
TrigFlushRestart == ts' = <<>> /\ next' = 1

\* trig_flush: next goes on.
TrigFlush == ts' = <<>> /\ UNCHANGED next

-----------------------------------------------------------------------------
(* The network thread: net_te_ue_report, net_te_ue_measure,                *)
(* net_te_cell_meas_report                                                 *)

\* A request arrives.
NetRequest(r) ==
    /\ req = Idle
    /\ req' = r /\ left' = r.msg.insts
    /\ UNCHANGED <<ts, next, added, tasks, sched, told>>

\* Fault: the request ends one instance too late.
InstanceDoneLate ==
    /\ left' = Front(left)
    /\ req' = IF left = <<>> THEN Idle ELSE req

\* One more instance is done: they are processed from the last to the first,
\* and the request ends with the first.
InstanceDone ==
    /\ left' = Front(left)
    /\ req' = IF Len(left) = 1 THEN Idle ELSE req

\* The rest of the request is given up.
GiveUp == left' = <<>> /\ req' = Idle

\* trig_alloc and trig_add.
NetAdd ==
    /\ req # Idle /\ req.op = "ADD" /\ added = NoTrig
    /\ next <= MaxId
    /\ TrigAdd([id |-> next, type |-> AddType(req.msg.act), mod |-> req.msg.mod,
                instance |-> Last(left), msg |-> req.msg])
    /\ added' = next
    /\ UNCHANGED <<req, left, tasks, sched, told>>

\* trig_alloc fails.
NetAllocFails ==
    /\ req # Idle /\ req.op = "ADD" /\ added = NoTrig
    /\ GiveUp
    /\ UNCHANGED <<ts, next, added, tasks, sched, told>>

\* A task that names the trigger is queued.
NetSchedule ==
    /\ added # NoTrig
    /\ \E i \in ReadId(added) :
          tasks' = Append(tasks, [act |-> req.msg.act, trig |-> i])
    /\ added' = NoTrig
    /\ InstanceDone
    /\ UNCHANGED <<ts, next, sched, told>>

\* Fault: the trigger without a task stays in the table.
NetTaskFailsKeepsIt ==
    /\ added # NoTrig
    /\ added' = NoTrig
    /\ GiveUp
    /\ UNCHANGED <<ts, next, tasks, sched, told>>

\* task_alloc fails: the trigger is removed again.
NetTaskFails ==
    /\ added # NoTrig
    /\ \E i \in ReadId(added) : TrigDelById(i)
    /\ added' = NoTrig
    /\ GiveUp
    /\ UNCHANGED <<next, tasks, sched, told>>

\* The trigger of one instance is removed.
NetRemove ==
    /\ req # Idle /\ req.op = "REM"
    /\ TrigDelByInst(req.msg.mod, DelType(req.msg.act), Last(left))
    /\ InstanceDone
    /\ UNCHANGED <<next, added, tasks, sched, told>>

NetStep == NetAdd \/ NetAllocFails \/ NetSchedule \/ NetTaskFails \/ NetRemove

-----------------------------------------------------------------------------
(* The scheduler thread *)

\* sched_perform_ue_report: the wrapper is called without a look at the table.
PerformReport ==
    /\ spc = "idle" /\ tasks # <<>> /\ Head(tasks).act = "UE_REPORT"
    /\ told' = told \cup {Head(tasks).trig}
    /\ tasks' = Tail(tasks)
    /\ UNCHANGED <<ts, next, net, sched>>

\* sched_perform_ue_measure, sched_perform_cell_meas: trig_find_by_id.  The
\* task is consumed when there is no such trigger.
Find ==
    /\ spc = "idle" /\ tasks # <<>> /\ Head(tasks).act # "UE_REPORT"
    /\ tasks' = Tail(tasks)
    /\ IF Head(tasks).trig \in Live
       THEN spc' = "found" /\ used' = Head(tasks).trig
       ELSE UNCHANGED <<spc, used>>
    /\ UNCHANGED <<ts, next, net, calls, told>>

\* The trigger with this id.
TriggerOf(i) == CHOOSE t \in ToSet(ts) : t.id = i

\* What is read as the instances of the message of the trigger in use.
ReadInstances == IF used \in Live THEN {TriggerOf(used).msg.insts}
                                  ELSE AllInstances

\* trig->msg is parsed: the wrapper is to be called once for each instance.
Parse ==
    /\ spc = "found" /\ (used \in Live => TriggerOf(used).msg.parses)
    /\ calls' \in {Len(s) : s \in ReadInstances}
    /\ spc' = "calling"
    /\ UNCHANGED <<ts, next, net, tasks, used, told>>

\* trig->msg does not parse, or is what a freed message left: the task is
\* consumed, and a trigger that is in the table stays there.
ParseFails ==
    /\ spc = "found" /\ (used \in Live => ~TriggerOf(used).msg.parses)
    /\ spc' = "idle" /\ used' = NoTrig
    /\ UNCHANGED <<ts, next, net, tasks, calls, told>>

\* The wrapper is called for one of them, with trig->id.
CallWrapper ==
    /\ spc = "calling"
    /\ \E i \in ReadId(used) : told' = told \cup {i}
    /\ calls' = calls - 1
    /\ IF calls = 1 THEN spc' = "idle" /\ used' = NoTrig
                    ELSE UNCHANGED <<spc, used>>
    /\ UNCHANGED <<ts, next, net, tasks>>

\* A message of another task could not be sent: every task is freed ...
NetErrorTasks ==
    /\ spc = "idle"
    /\ tasks' = <<>>
    /\ spc' = "flush"
    /\ UNCHANGED <<ts, next, net, used, calls, told>>

\* Fault: the triggers survive the connection.
NetErrorTriggersKept ==
    /\ spc = "flush"
    /\ spc' = "idle"
    /\ UNCHANGED <<ts, next, net, tasks, used, calls, told>>

\* ... and then, outside the lock of the scheduler, every trigger.
NetErrorTriggers ==
    /\ spc = "flush"
    /\ TrigFlush
    /\ spc' = "idle"
    /\ UNCHANGED <<net, tasks, used, calls, told>>

SchedStep == \/ PerformReport \/ Find \/ Parse \/ ParseFails \/ CallWrapper
             \/ NetErrorTriggers

-----------------------------------------------------------------------------
(* The threads of the wrapper *)

\* em_del_trigger, for a trigger the wrapper was told of.
EmDelTrigger(i) ==
    /\ i \in told
    /\ TrigDelById(i)
    /\ UNCHANGED <<next, net, tasks, sched, told>>

Next == \/ \E r \in Request : NetRequest(r)
        \/ NetStep
        \/ SchedStep \/ NetErrorTasks
        \/ \E i \in Ids : EmDelTrigger(i)

Spec == Init /\ [][Next]_vars

\* Both threads of the agent run; nothing obliges the controller to ask, the
\* connection to fail or the wrapper to remove a trigger.
Fairness == WF_vars(NetStep) /\ WF_vars(SchedStep)

LiveSpec == Spec /\ Fairness

-----------------------------------------------------------------------------
(* Properties *)

\* A thread that is at work knows at what: the network thread has an instance
\* left as long as it has a request, the scheduler thread a trigger as long as
\* it performs a measurement, and an instance to call for.
ThreadLinks ==
    /\ req = Idle <=> left = <<>>
    /\ added # NoTrig => req # Idle /\ req.op = "ADD"
    /\ spc \in {"found", "calling"} <=> used # NoTrig
    /\ spc = "calling" => calls > 0

\* Every variable has its type; a thread that has work left knows for what.
TypeOK == /\ ts \in Seq(Trigger)
          /\ next \in 1..(MaxId + 1)
          /\ req \in Request \cup {Idle}
          /\ left \in Seq(Meas \cup {NoMeas})
          /\ added \in Ids
          /\ tasks \in Seq(Task)
          /\ spc \in {"idle", "found", "calling", "flush"}
          /\ used \in Ids
          /\ calls \in Nat
          /\ told \subseteq Ids
          /\ ThreadLinks

\* The ids of the table are all different, were all given out, and fall from
\* the head of the list to its end: the first match of a search is the newest
\* trigger that matches, whatever was removed between two additions.
NewestFirst ==
    /\ \A i, j \in DOMAIN ts : i < j => ts[i].id > ts[j].id
    /\ \A i \in DOMAIN ts : ts[i].id \in 1..(next - 1)

\* An id that has been given out never comes back for another trigger, not
\* after a removal and not after a flush: the id a wrapper was told stays the
\* name of one request for the life of the agent.  (All ids given out are below
\* next: NewestFirst.)
NeverReused ==
    [][/\ next' >= next
       /\ \A t \in ToSet(ts') \ ToSet(ts) : t.id >= next]_vars

\* The tasks queued for a trigger.
Queued == {t.trig : t \in ToSet(tasks)}

\* The triggers of the table the wrapper can be told of: those whose message
\* parses.  The others stay untold until they are removed or flushed.
Tellable == {t.id : t \in {u \in ToSet(ts) : u.msg.parses}}

\* A trigger of the table whose message parses, and that the wrapper was not
\* told of, has its task on the way: queued, about to be queued, or being
\* performed.  This needs the order in which sched_consume flushes, tasks first
\* and triggers second.
NoOrphan == spc # "flush" => Tellable \subseteq told \cup Queued \cup {added, used}

\* The inductive invariant.
IInv == TypeOK /\ NewestFirst /\ NoOrphan

\* The triggers made for one instance of a request of the controller.
MadeFor(act, mod, m, s) ==
    {t \in ToSet(s) : t.msg.act = act /\ t.mod = mod /\ t.instance = m}

\* One trigger made for the act, module and instance at hand goes, if there is
\* one, and no other trigger.
RemovesOne ==
    LET made(s) == MadeFor(req.msg.act, req.msg.mod, Last(left), s)
    IN  /\ ToSet(ts) \ made(ts) = ToSet(ts') \ made(ts')
        /\ made(ts) = {} \/ \E t \in made(ts) : made(ts') = made(ts) \ {t}

\* A remove request takes one trigger away for each of its instances.
\* Checked for UE requests (trig_del_by_inst, triggers.c:263): a cell measurement
\* is filed under TASK_TYPE_CELL_MEASURE and looked for as TR_TYPE_MAC_REP
\* (net.c:738), so that its removal finds none.
RemoveRemoves == [][NetRemove => RemovesOne]_vars

\* A trigger the controller asked for in a message that parses comes to the
\* wrapper or is removed.
Answered == \A i \in Ids : (i \in Tellable) ~> (i \in told \/ i \notin Live)
=============================================================================
