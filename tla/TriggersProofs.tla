--------------------------- MODULE TriggersProofs ---------------------------
(***************************************************************************)
(* Theorems about Triggers, for any number of modules, measurements and    *)
(* ids.                                                                    *)
(***************************************************************************)
EXTENDS Triggers, ListLemmas

\* A message names at least one instance.
LEMMA InstancesNonEmpty ==
    /\ AllInstances \subseteq Seq(Meas \cup {NoMeas})
    /\ \A s \in AllInstances : s # <<>>
PROOF
<1> SUFFICES ASSUME NEW s \in AllInstances
             PROVE  s \in Seq(Meas \cup {NoMeas}) /\ s # <<>>
  OBVIOUS
<1>1. CASE s = <<NoMeas>>
  BY <1>1
<1>2. CASE \E m \in Meas : s = <<m>>
  BY <1>2
<1>3. CASE s \in Meas \X Meas
  <2>1. PICK x \in Meas, y \in Meas : s = <<x, y>>
    BY <1>3
  <2> QED BY <2>1
<1> QED BY <1>1, <1>2, <1>3 DEF AllInstances, Measures

\* A list in which the ids are given out and fall from the head to the end.
Falling(s, n) ==
    /\ \A i, j \in DOMAIN s : i < j => s[i].id > s[j].id
    /\ \A i \in DOMAIN s : s[i].id \in 1..(n - 1)

\* One entry is removed from a list of triggers: its ids are those that
\* remain, they still fall, and the id removed is gone.
LEMMA RemoveTrigger ==
    ASSUME NEW s \in Seq(Trigger), NEW n \in Nat, Falling(s, n), NEW k \in DOMAIN s,
           NEW r, r = RemoveAt(s, k)
    PROVE  /\ r \in Seq(Trigger)
           /\ Falling(r, n)
           /\ ToSet(r) = ToSet(s) \ {s[k]}
           /\ {t.id : t \in ToSet(r)} = {t.id : t \in ToSet(s)} \ {s[k].id}
PROOF
<1>1. /\ DOMAIN s = 1..Len(s) /\ Len(s) \in Nat /\ k \in 1..Len(s)
      /\ \A i \in DOMAIN s : s[i] \in Trigger
  BY LenProperties
<1>2. /\ r \in Seq(Trigger) /\ Len(r) = Len(s) - 1
      /\ \A i \in 1..Len(r) : r[i] = s[IF i < k THEN i ELSE i + 1]
  <2>1. k \in 1..Len(s) BY <1>1
  <2>2. r \in Seq(Trigger) BY <2>1, RemoveLemma
  <2>3. Len(r) = Len(s) - 1 BY <2>1, RemoveLemma
  <2>4. \A i \in 1..Len(r) : r[i] = s[IF i < k THEN i ELSE i + 1] BY <2>1, RemoveLemma
  <2> QED BY <2>2, <2>3, <2>4
<1>3. DOMAIN r = 1..Len(r)
  BY <1>2, LenProperties
<1> DEFINE g(i) == IF i < k THEN i ELSE i + 1
<1>4. \A i \in DOMAIN r : g(i) \in DOMAIN s \ {k} /\ r[i] = s[g(i)]
  BY <1>1, <1>2, <1>3
<1>5. \A i, j \in DOMAIN r : i < j => g(i) < g(j)
  BY <1>1, <1>2, <1>3
<1>6. \A j \in DOMAIN s \ {k} : \E i \in DOMAIN r : j = g(i)
  <2> SUFFICES ASSUME NEW j \in DOMAIN s \ {k}
               PROVE  \E i \in DOMAIN r : j = g(i)
    OBVIOUS
  <2>1. CASE j < k
    <3>1. j \in DOMAIN r /\ g(j) = j BY <2>1, <1>1, <1>2, <1>3
    <3> QED BY <3>1
  <2>2. CASE ~(j < k)
    <3>1. j - 1 \in DOMAIN r /\ g(j - 1) = j BY <2>2, <1>1, <1>2, <1>3
    <3> QED BY <3>1
  <2> QED BY <2>1, <2>2
<1>7. \A i, j \in DOMAIN s : i # j => s[i].id # s[j].id
  <2> SUFFICES ASSUME NEW i \in DOMAIN s, NEW j \in DOMAIN s, i # j
               PROVE  s[i].id # s[j].id
    OBVIOUS
  <2>1. s[i].id \in Int /\ s[j].id \in Int
    BY DEF Falling
  <2>2. i < j \/ j < i
    BY <1>1
  <2> QED BY <2>1, <2>2 DEF Falling
<1> HIDE DEF g
<1>8. Falling(r, n)
  <2>1. \A i, j \in DOMAIN r : i < j => r[i].id > r[j].id
    BY <1>4, <1>5 DEF Falling
  <2>2. \A i \in DOMAIN r : r[i].id \in 1..(n - 1)
    BY <1>4 DEF Falling
  <2> QED BY <2>1, <2>2 DEF Falling
<1>9. ToSet(r) = {r[i] : i \in DOMAIN r} /\ ToSet(s) = {s[i] : i \in DOMAIN s}
  BY <1>1, <1>3 DEF ToSet
<1>10. ToSet(r) = {s[j] : j \in DOMAIN s \ {k}}
  BY <1>4, <1>6, <1>9
<1>11. \A j \in DOMAIN s \ {k} : s[j] # s[k] /\ s[j].id # s[k].id
  BY <1>7
<1>12. ToSet(r) = ToSet(s) \ {s[k]}
  BY <1>9, <1>10, <1>11
<1>13. {t.id : t \in ToSet(r)} = {t.id : t \in ToSet(s)} \ {s[k].id}
  <2>1. \A t \in ToSet(s) : t = s[k] \/ t.id # s[k].id
    BY <1>9, <1>11
  <2> QED BY <2>1, <1>12
<1> QED BY <1>2, <1>8, <1>12, <1>13

\* Of the triggers that remain in the table, those whose message parses.
LEMMA FewerTellable ==
    ASSUME ToSet(ts') \subseteq ToSet(ts)
    PROVE  Tellable' \subseteq Tellable \cap Live'
PROOF BY DEF Tellable, Live

\* Removal of the trigger with a given id (trig_del_by_id).
LEMMA DelById ==
    ASSUME TypeOK, NewestFirst, NEW i, TrigDelById(i)
    PROVE  /\ ts' \in Seq(Trigger) /\ Falling(ts', next)
           /\ ToSet(ts') \subseteq ToSet(ts)
           /\ Live' = Live \ {i} /\ Tellable' \subseteq Tellable \ {i}
PROOF
<1>1. ts \in Seq(Trigger) /\ Falling(ts, next) /\ next \in Nat
  BY DEF TypeOK, NewestFirst, Falling, TriggersAssumption
<1>2. ToSet(ts) = {ts[k] : k \in DOMAIN ts}
  BY <1>1, LenProperties DEF ToSet
<1>3. CASE /\ \A k \in DOMAIN ts : ts[k].id # i
           /\ ts' = ts
  <2>1. i \notin Live
    BY <1>2, <1>3 DEF Live
  <2>2. Live' = Live
    BY <1>3 DEF Live
  <2> QED BY <1>1, <1>3, <2>1, <2>2, FewerTellable
<1>4. CASE \E k \in DOMAIN ts : ts[k].id = i /\ ts' = RemoveAt(ts, k)
  <2>1. PICK k \in DOMAIN ts : ts[k].id = i /\ ts' = RemoveAt(ts, k)
    BY <1>4
  <2>2. /\ ts' \in Seq(Trigger) /\ Falling(ts', next)
        /\ ToSet(ts') = ToSet(ts) \ {ts[k]}
        /\ {t.id : t \in ToSet(ts')} = {t.id : t \in ToSet(ts)} \ {ts[k].id}
    <3>1. ts' = RemoveAt(ts, k) /\ k \in DOMAIN ts BY <2>1
    <3>2. ts' \in Seq(Trigger) /\ Falling(ts', next) BY <3>1, <1>1, RemoveTrigger
    <3>3. ToSet(ts') = ToSet(ts) \ {ts[k]} BY <3>1, <1>1, RemoveTrigger
    <3>4. {t.id : t \in ToSet(ts')} = {t.id : t \in ToSet(ts)} \ {ts[k].id}
      BY <3>1, <1>1, RemoveTrigger
    <3> QED BY <3>2, <3>3, <3>4
  <2>3. Live' = Live \ {i}
    BY <2>1, <2>2 DEF Live
  <2> QED BY <2>2, <2>3, FewerTellable
<1> QED BY <1>3, <1>4 DEF TrigDelById, DeleteFirst

\* Removal of the first trigger with given keys (trig_del_by_inst).
LEMMA DelByInst ==
    ASSUME TypeOK, NewestFirst, NEW mod, NEW type, NEW instance,
           TrigDelByInst(mod, type, instance)
    PROVE  /\ ts' \in Seq(Trigger) /\ Falling(ts', next)
           /\ ToSet(ts') \subseteq ToSet(ts)
           /\ Tellable' \subseteq Tellable
PROOF
<1>1. ts \in Seq(Trigger) /\ Falling(ts, next) /\ next \in Nat
  BY DEF TypeOK, NewestFirst, Falling
<1>2. CASE ts' = ts
  BY <1>1, <1>2, FewerTellable
<1>3. CASE \E k \in DOMAIN ts : ts' = RemoveAt(ts, k)
  <2>1. PICK k \in DOMAIN ts : ts' = RemoveAt(ts, k)
    BY <1>3
  <2>2. /\ ts' \in Seq(Trigger) /\ Falling(ts', next)
        /\ ToSet(ts') = ToSet(ts) \ {ts[k]}
    BY <2>1, <1>1, RemoveTrigger
  <2> QED BY <2>2, FewerTellable
<1> QED BY <1>2, <1>3 DEF TrigDelByInst, DeleteFirst

\* A trigger is added at the head, with the next id.
LEMMA AddTrigger ==
    ASSUME TypeOK, NewestFirst, next <= MaxId,
           NEW t \in Trigger, t.id = next, TrigAdd(t)
    PROVE  /\ ts' \in Seq(Trigger) /\ next' \in 1..(MaxId + 1)
           /\ NewestFirst'
           /\ ToSet(ts') = ToSet(ts) \cup {t}
           /\ Tellable' \subseteq Tellable \cup {next}
PROOF
<1>1. /\ ts \in Seq(Trigger) /\ next \in Int /\ MaxId \in Nat /\ next >= 1
      /\ ts' = <<t>> \o ts /\ next' = next + 1
  <2>1. [t EXCEPT !.id = next] = t
    BY DEF Trigger
  <2> QED BY <2>1, TriggersAssumption DEF TypeOK, TrigAdd
<1>2. ts' \in Seq(Trigger) /\ ToSet(ts') = ToSet(ts) \cup {t}
  BY <1>1, PushLemma
<1>3. /\ Len(ts) \in Nat /\ DOMAIN ts = 1..Len(ts) /\ DOMAIN ts' = 1..(Len(ts) + 1)
      /\ \A i \in DOMAIN ts' : ts'[i] = IF i = 1 THEN t ELSE ts[i - 1]
  <2>1. <<t>> \in Seq(Trigger) /\ Len(<<t>>) = 1 /\ <<t>>[1] = t
    OBVIOUS
  <2>2. /\ Len(<<t>> \o ts) = 1 + Len(ts)
        /\ \A i \in 1..(1 + Len(ts)) :
              (<<t>> \o ts)[i] = IF i <= 1 THEN <<t>>[i] ELSE ts[i - 1]
    BY <1>1, <2>1, ConcatProperties
  <2>3. /\ Len(ts) \in Nat /\ DOMAIN ts = 1..Len(ts) /\ DOMAIN ts' = 1..Len(ts')
    BY <1>1, <1>2, LenProperties
  <2> QED BY <2>1, <2>2, <2>3, <1>1
<1>4. NewestFirst'
  <2>1. ASSUME NEW i \in DOMAIN ts', NEW j \in DOMAIN ts', i < j
        PROVE  ts'[i].id > ts'[j].id
    <3>1. j # 1 /\ j - 1 \in DOMAIN ts
      BY <2>1, <1>3
    <3>2. ts[j - 1].id \in 1..(next - 1)
      BY <3>1 DEF NewestFirst
    <3>3. i # 1 => i - 1 \in DOMAIN ts /\ i - 1 < j - 1
      BY <2>1, <1>3
    <3> QED BY <3>1, <3>2, <3>3, <1>1, <1>3 DEF NewestFirst
  <2>2. ASSUME NEW i \in DOMAIN ts' PROVE ts'[i].id \in 1..(next' - 1)
    <3>1. i # 1 => i - 1 \in DOMAIN ts
      BY <1>3
    <3>2. i # 1 => ts[i - 1].id \in 1..(next - 1)
      BY <3>1 DEF NewestFirst
    <3> QED BY <3>2, <1>1, <1>3
  <2> QED BY <2>1, <2>2 DEF NewestFirst
<1> QED BY <1>1, <1>2, <1>4 DEF Tellable
-----------------------------------------------------------------------------
(* The inductive invariant *)

LEMMA InitIInv == Init => IInv
PROOF
<1> SUFFICES ASSUME Init PROVE IInv
  OBVIOUS
<1> USE DEF Init
<1>1. ToSet(<<>>) = {} /\ DOMAIN <<>> = {}
  BY EmptySeq DEF ToSet
<1>2. TypeOK
  BY TriggersAssumption DEF TypeOK, ThreadLinks, NoTrig, Ids
<1>3. NewestFirst
  BY <1>1 DEF NewestFirst
<1>4. NoOrphan
  BY <1>1 DEF NoOrphan, Tellable
<1> QED BY <1>2, <1>3, <1>4 DEF IInv

\* What the invariant says of the variables an action leaves alone.
LEMMA SameTable ==
    ASSUME NewestFirst, UNCHANGED <<ts, next>>
    PROVE  NewestFirst' /\ Live' = Live /\ Tellable' = Tellable
PROOF BY DEF NewestFirst, Live, Tellable

\* What is told of is in the table.
LEMMA TellableIsLive == Tellable \subseteq Live
PROOF BY DEF Tellable, Live

\* 0 is not the id of a trigger.
LEMMA NoTrigIsFree == ASSUME TypeOK, NewestFirst PROVE NoTrig \notin Live
PROOF
<1>1. ToSet(ts) = {ts[i] : i \in DOMAIN ts}
  BY LenProperties DEF ToSet, TypeOK
<1>2. \A i \in DOMAIN ts : ts[i].id # 0
  BY DEF NewestFirst
<1> QED BY <1>1, <1>2 DEF Live, NoTrig

\* The request of the network thread after one more instance of it.
LEMMA OneInstanceLess ==
    ASSUME TypeOK, req # Idle, InstanceDone
    PROVE  /\ req' \in Request \cup {Idle}
           /\ left' \in Seq(Meas \cup {NoMeas})
           /\ req' = Idle <=> left' = <<>>
PROOF
<1>1. left \in Seq(Meas \cup {NoMeas}) /\ left # <<>> /\ req \in Request
  BY DEF TypeOK, ThreadLinks
<1>2. Front(left) \in Seq(Meas \cup {NoMeas}) /\ (Len(left) = 1 <=> Front(left) = <<>>)
  BY <1>1, FrontLemma
<1> QED BY <1>1, <1>2, TriggersAssumption DEF InstanceDone

LEMMA RequestStep ==
    ASSUME IInv, NEW r \in Request, NetRequest(r)
    PROVE  IInv'
PROOF
<1> USE DEF IInv, NetRequest, net, sched
<1>1. NewestFirst' /\ Live' = Live /\ Tellable' = Tellable
  BY SameTable
<1>2. TypeOK'
  <2>1. r.msg.insts \in AllInstances
    BY DEF Request, Message
  <2>2. r.msg.insts \in Seq(Meas \cup {NoMeas}) /\ r.msg.insts # <<>>
    BY <2>1, InstancesNonEmpty
  <2>3. r # Idle
    BY TriggersAssumption
  <2> QED BY <2>2, <2>3 DEF TypeOK, ThreadLinks
<1>3. NoOrphan'
  BY <1>1 DEF NoOrphan, Queued
<1> QED BY <1>1, <1>2, <1>3

LEMMA AddStep ==
    ASSUME IInv, NetAdd
    PROVE  IInv'
PROOF
<1> USE DEF IInv, NetAdd, net, sched
<1> DEFINE t == [id |-> next, type |-> AddType(req.msg.act), mod |-> req.msg.mod,
                 instance |-> Last(left), msg |-> req.msg]
<1>1. /\ next \in Ids /\ next # NoTrig
      /\ req \in Request
      /\ Last(left) \in Meas \cup {NoMeas}
  <2>1. left \in Seq(Meas \cup {NoMeas}) /\ left # <<>>
    BY DEF TypeOK, ThreadLinks
  <2>2. Last(left) \in Meas \cup {NoMeas}
    BY <2>1, FrontLemma
  <2> QED BY <2>2, TriggersAssumption DEF TypeOK, Ids, NoTrig
<1>2. t \in Trigger /\ t.id = next
  <2>1. req.msg \in Message /\ req.msg.act \in Act /\ req.msg.mod \in Mod
    BY <1>1 DEF Request, Message
  <2>2. AddType(req.msg.act) \in {"UE_REP", "UE_MEAS", "TASK_TYPE_CELL_MEASURE"}
    BY <2>1, TriggersAssumption DEF AddType
  <2> QED BY <1>1, <2>1, <2>2 DEF Trigger
<1> HIDE DEF t
<1>3. next <= MaxId /\ TrigAdd(t)
  BY DEF t
<1>4. /\ ts' \in Seq(Trigger) /\ next' \in 1..(MaxId + 1)
      /\ NewestFirst' /\ Tellable' \subseteq Tellable \cup {next}
  BY <1>2, <1>3, AddTrigger
<1>5. TypeOK'
  BY <1>1, <1>4 DEF TypeOK, ThreadLinks
<1>6. NoOrphan'
  BY <1>4, NoTrigIsFree, TellableIsLive DEF NoOrphan, Queued
<1> QED BY <1>4, <1>5, <1>6

LEMMA AllocFailsStep ==
    ASSUME IInv, NetAllocFails
    PROVE  IInv'
PROOF
<1> USE DEF IInv, NetAllocFails, GiveUp, net, sched
<1>1. NewestFirst' /\ Live' = Live /\ Tellable' = Tellable
  BY SameTable
<1>2. TypeOK'
  BY DEF TypeOK, ThreadLinks
<1>3. NoOrphan'
  BY <1>1 DEF NoOrphan, Queued
<1> QED BY <1>1, <1>2, <1>3

LEMMA ScheduleStep ==
    ASSUME IInv, NetSchedule
    PROVE  IInv'
PROOF
<1> USE DEF IInv, NetSchedule, net, sched
<1>1. NewestFirst' /\ Live' = Live /\ Tellable' = Tellable
  BY SameTable
<1>2. req # Idle /\ req \in Request
  BY DEF TypeOK, ThreadLinks
<1>3. PICK i \in ReadId(added) :
         tasks' = Append(tasks, [act |-> req.msg.act, trig |-> i])
  OBVIOUS
<1> DEFINE k == [act |-> req.msg.act, trig |-> i]
<1>4. k \in Task /\ k.trig = i
  <2>1. req.msg.act \in Act
    BY <1>2 DEF Request, Message
  <2>2. i \in Ids
    BY DEF ReadId, TypeOK
  <2> QED BY <2>1, <2>2 DEF Task
<1>5. tasks \in Seq(Task) /\ tasks' = Append(tasks, k)
  BY <1>3 DEF TypeOK
<1> HIDE DEF k
<1>6. tasks' \in Seq(Task) /\ ToSet(tasks') = ToSet(tasks) \cup {k}
  BY <1>4, <1>5, AppendLemma
<1>7. /\ req' \in Request \cup {Idle}
      /\ left' \in Seq(Meas \cup {NoMeas})
      /\ req' = Idle <=> left' = <<>>
  BY <1>2, OneInstanceLess
<1>8. TypeOK'
  BY <1>6, <1>7, TriggersAssumption DEF TypeOK, ThreadLinks, Ids, NoTrig
<1>9. NoOrphan'
  <2>1. Queued' = Queued \cup {i}
    BY <1>4, <1>6 DEF Queued
  <2>2. added \in Live => i = added
    BY DEF ReadId
  <2> QED BY <1>1, <2>1, <2>2, NoTrigIsFree, TellableIsLive DEF NoOrphan
<1> QED BY <1>1, <1>8, <1>9

LEMMA TaskFailsStep ==
    ASSUME IInv, NetTaskFails
    PROVE  IInv'
PROOF
<1> USE DEF IInv, NetTaskFails, GiveUp, net, sched
<1>1. PICK i \in ReadId(added) : TrigDelById(i)
  OBVIOUS
<1>2. /\ ts' \in Seq(Trigger) /\ Falling(ts', next)
      /\ Tellable' \subseteq Tellable \ {i}
  BY <1>1, DelById
<1>3. NewestFirst'
  BY <1>2 DEF NewestFirst, Falling
<1>4. TypeOK'
  BY <1>2, TriggersAssumption DEF TypeOK, ThreadLinks, Ids, NoTrig
<1>5. NoOrphan'
  <2>1. added \in Live => i = added
    BY DEF ReadId
  <2> QED BY <1>2, <2>1, TellableIsLive DEF NoOrphan, Queued
<1> QED BY <1>3, <1>4, <1>5

LEMMA RemoveStep ==
    ASSUME IInv, NetRemove
    PROVE  IInv'
PROOF
<1> USE DEF IInv, NetRemove, net, sched
<1>1. /\ ts' \in Seq(Trigger) /\ Falling(ts', next)
      /\ Tellable' \subseteq Tellable
  BY DelByInst
<1>2. NewestFirst'
  BY <1>1 DEF NewestFirst, Falling
<1>3. /\ req' \in Request \cup {Idle}
      /\ left' \in Seq(Meas \cup {NoMeas})
      /\ req' = Idle <=> left' = <<>>
  BY OneInstanceLess
<1>4. TypeOK'
  BY <1>1, <1>3 DEF TypeOK, ThreadLinks
<1>5. NoOrphan'
  BY <1>1 DEF NoOrphan, Queued
<1> QED BY <1>2, <1>4, <1>5
\* The first of the queued tasks is taken off the queue.
LEMMA TakeTask ==
    ASSUME TypeOK, tasks # <<>>, tasks' = Tail(tasks)
    PROVE  /\ tasks' \in Seq(Task) /\ Head(tasks) \in Task
           /\ Queued = Queued' \cup {Head(tasks).trig}
PROOF
<1>1. /\ Head(tasks) \in Task /\ tasks' \in Seq(Task)
      /\ ToSet(tasks) = ToSet(tasks') \cup {Head(tasks)}
  BY TailLemma DEF TypeOK
<1> QED BY <1>1 DEF Queued

LEMMA ReportStep ==
    ASSUME IInv, PerformReport
    PROVE  IInv'
PROOF
<1> USE DEF IInv, PerformReport, net, sched
<1>1. NewestFirst' /\ Live' = Live /\ Tellable' = Tellable
  BY SameTable
<1>2. /\ tasks' \in Seq(Task) /\ Head(tasks) \in Task
      /\ Queued = Queued' \cup {Head(tasks).trig}
  BY TakeTask
<1>3. told' = told \cup {Head(tasks).trig} /\ Head(tasks).trig \in Ids
  BY <1>2 DEF Task
<1>4. TypeOK'
  BY <1>2, <1>3 DEF TypeOK, ThreadLinks
<1>5. NoOrphan'
  BY <1>1, <1>2, <1>3 DEF NoOrphan
<1> QED BY <1>1, <1>4, <1>5

LEMMA FindStep ==
    ASSUME IInv, Find
    PROVE  IInv'
PROOF
<1> USE DEF IInv, Find, net, sched
<1>1. NewestFirst' /\ Live' = Live /\ Tellable' = Tellable
  BY SameTable
<1>2. /\ tasks' \in Seq(Task) /\ Head(tasks) \in Task
      /\ Queued = Queued' \cup {Head(tasks).trig}
  BY TakeTask
<1>3. used = NoTrig
  BY DEF TypeOK, ThreadLinks
<1>4. TypeOK'
  BY <1>2, NoTrigIsFree DEF TypeOK, ThreadLinks, Task
<1>5. NoOrphan'
  BY <1>1, <1>2, <1>3, NoTrigIsFree, TellableIsLive DEF NoOrphan
<1> QED BY <1>1, <1>4, <1>5

LEMMA ParseStep ==
    ASSUME IInv, Parse
    PROVE  IInv'
PROOF
<1> USE DEF IInv, Parse, net
<1>1. NewestFirst' /\ Live' = Live /\ Tellable' = Tellable
  BY SameTable
<1>2. PICK s \in ReadInstances : calls' = Len(s)
  OBVIOUS
<1>3. s \in AllInstances
  <2>1. CASE used \in Live
    <3>1. \E x \in ToSet(ts) : x.id = used
      BY <2>1 DEF Live
    <3>2. TriggerOf(used) \in ToSet(ts)
      BY <3>1 DEF TriggerOf
    <3>3. TriggerOf(used) \in Trigger
      BY <3>2, ToSetOver DEF TypeOK
    <3> QED BY <2>1, <3>3 DEF ReadInstances, Trigger, Message
  <2>2. CASE used \notin Live
    BY <2>2 DEF ReadInstances
  <2> QED BY <2>1, <2>2
<1>4. Len(s) \in Nat /\ Len(s) > 0
  BY <1>3, InstancesNonEmpty, EmptySeq
<1>5. TypeOK'
  BY <1>2, <1>4 DEF TypeOK, ThreadLinks
<1>6. NoOrphan'
  BY <1>1 DEF NoOrphan, Queued
<1> QED BY <1>1, <1>5, <1>6

\* The ids of the table are unique.
LEMMA OneOfEachId ==
    ASSUME TypeOK, NewestFirst,
           NEW t \in ToSet(ts), NEW u \in ToSet(ts), t.id = u.id
    PROVE  t = u
PROOF
<1>1. ToSet(ts) = {ts[i] : i \in DOMAIN ts} /\ DOMAIN ts = 1..Len(ts) /\ Len(ts) \in Nat
  BY LenProperties DEF ToSet, TypeOK
<1>2. PICK i \in DOMAIN ts, j \in DOMAIN ts : t = ts[i] /\ u = ts[j]
  BY <1>1
<1>3. ts[i].id \in Int /\ ts[j].id \in Int
  BY DEF NewestFirst
<1>4. ~(i < j) /\ ~(j < i)
  BY <1>2, <1>3 DEF NewestFirst
<1> QED BY <1>1, <1>2, <1>4

\* A message that does not parse is not one the wrapper can be told of.
LEMMA ParseFailsStep ==
    ASSUME IInv, ParseFails
    PROVE  IInv'
PROOF
<1> USE DEF IInv, ParseFails, net
<1>1. NewestFirst' /\ Live' = Live /\ Tellable' = Tellable
  BY SameTable
<1>2. TypeOK'
  BY TriggersAssumption DEF TypeOK, ThreadLinks, NoTrig, Ids
<1>3. used \notin Tellable
  <2>1. CASE used \notin Live
    BY <2>1, TellableIsLive
  <2>2. CASE used \in Live
    <3>1. PICK t \in ToSet(ts) : t.id = used
      BY <2>2 DEF Live
    <3>2. TriggerOf(used) = t
      BY <3>1, OneOfEachId DEF TriggerOf
    <3>3. \A u \in ToSet(ts) : u.id = used => u = t
      BY <3>1, OneOfEachId
    <3> QED BY <2>2, <3>2, <3>3 DEF Tellable
  <2> QED BY <2>1, <2>2
<1>4. NoOrphan'
  BY <1>1, <1>3 DEF NoOrphan, Queued
<1> QED BY <1>1, <1>2, <1>4

LEMMA CallStep ==
    ASSUME IInv, CallWrapper
    PROVE  IInv'
PROOF
<1> USE DEF IInv, CallWrapper, net
<1>1. NewestFirst' /\ Live' = Live /\ Tellable' = Tellable
  BY SameTable
<1>2. PICK i \in ReadId(used) : told' = told \cup {i}
  OBVIOUS
<1>3. i \in Ids /\ (used \in Live => i = used)
  BY DEF ReadId, TypeOK
<1>4. TypeOK'
  BY <1>2, <1>3, TriggersAssumption DEF TypeOK, ThreadLinks, NoTrig, Ids
<1>5. NoOrphan'
  BY <1>1, <1>2, <1>3, NoTrigIsFree, TellableIsLive DEF NoOrphan, Queued
<1> QED BY <1>1, <1>4, <1>5

\* The connection fails: the queue first, the table second.
LEMMA FlushStep ==
    ASSUME IInv, NetErrorTasks \/ NetErrorTriggers
    PROVE  IInv'
PROOF
<1> USE DEF IInv, net
<1>1. ToSet(<<>>) = {} /\ DOMAIN <<>> = {}
  BY EmptySeq DEF ToSet
<1>2. CASE NetErrorTasks
  <2> USE DEF NetErrorTasks
  <2>1. NewestFirst'
    BY <1>2, SameTable
  <2>2. TypeOK'
    BY <1>2 DEF TypeOK, ThreadLinks
  <2>3. NoOrphan'
    BY <1>2 DEF NoOrphan
  <2> QED BY <2>1, <2>2, <2>3
<1>3. CASE NetErrorTriggers
  <2> USE DEF NetErrorTriggers, TrigFlush
  <2>1. NewestFirst' /\ Tellable' = {}
    BY <1>1, <1>3 DEF NewestFirst, Tellable
  <2>2. TypeOK'
    BY <1>3 DEF TypeOK, ThreadLinks
  <2>3. NoOrphan'
    BY <2>1 DEF NoOrphan
  <2> QED BY <2>1, <2>2, <2>3
<1> QED BY <1>2, <1>3

LEMMA WrapperStep ==
    ASSUME IInv, NEW i \in Ids, EmDelTrigger(i)
    PROVE  IInv'
PROOF
<1> USE DEF IInv, EmDelTrigger, net, sched
<1>1. /\ ts' \in Seq(Trigger) /\ Falling(ts', next)
      /\ Tellable' \subseteq Tellable \ {i}
  BY DelById
<1>2. NewestFirst'
  BY <1>1 DEF NewestFirst, Falling
<1>3. TypeOK'
  BY <1>1 DEF TypeOK, ThreadLinks
<1>4. NoOrphan'
  BY <1>1 DEF NoOrphan, Queued
<1> QED BY <1>2, <1>3, <1>4

LEMMA NextIInv == IInv /\ [Next]_vars => IInv'
PROOF
<1> SUFFICES ASSUME IInv, [Next]_vars PROVE IInv'
  OBVIOUS
<1>1. CASE UNCHANGED vars
  BY <1>1 DEF vars, net, sched, IInv, TypeOK, ThreadLinks, NewestFirst, NoOrphan, Tellable,
              Queued
<1>2. CASE \E r \in Request : NetRequest(r)
  BY <1>2, RequestStep
<1>3. CASE NetStep
  BY <1>3, AddStep, AllocFailsStep, ScheduleStep, TaskFailsStep, RemoveStep DEF NetStep
<1>4. CASE SchedStep \/ NetErrorTasks
  BY <1>4, ReportStep, FindStep, ParseStep, ParseFailsStep, CallStep, FlushStep DEF SchedStep
<1>5. CASE \E i \in Ids : EmDelTrigger(i)
  BY <1>5, WrapperStep
<1> QED BY <1>1, <1>2, <1>3, <1>4, <1>5 DEF Next

-----------------------------------------------------------------------------
(* Theorems *)

\* Whatever the three kinds of thread do to the table, to the queue and
\* through the pointers they keep, the inductive invariant holds.
THEOREM TriggersInvariant == Spec => []IInv
PROOF BY InitIInv, NextIInv, PTL DEF Spec

\* Every variable keeps its type, and a thread that is at work knows at what.
THEOREM TriggersTypeOK == Spec => []TypeOK
PROOF
<1>1. IInv => TypeOK
  BY DEF IInv
<1> QED BY <1>1, TriggersInvariant, PTL

\* A search of the list of triggers (trig_find_by_id, trig_del_by_inst) that
\* stops at its first match stops at the newest one, and ids are unique.
THEOREM TriggersNewestFirst == Spec => []NewestFirst
PROOF
<1>1. IInv => NewestFirst
  BY DEF IInv
<1> QED BY <1>1, TriggersInvariant, PTL

\* No trigger whose message parses is left behind without a task: the flush of
\* sched_consume and the error paths of the network thread never separate the
\* two for good, and the scheduler gives up a task only for a message that does
\* not parse or a trigger that is gone.
THEOREM TriggersNoOrphan == Spec => []NoOrphan
PROOF
<1>1. IInv => NoOrphan
  BY DEF IInv
<1> QED BY <1>1, TriggersInvariant, PTL

\* The trigger the network thread makes of the instance at hand.
NewTrigger == [id |-> next, type |-> AddType(req.msg.act), mod |-> req.msg.mod,
               instance |-> Last(left), msg |-> req.msg]

\* The table keeps some of its triggers, or the network thread adds one.
LEMMA TableStep ==
    ASSUME IInv, Next
    PROVE  \/ ToSet(ts') \subseteq ToSet(ts) /\ next' = next
           \/ /\ ToSet(ts') = ToSet(ts) \cup {NewTrigger}
              /\ next' = next + 1
              /\ req.msg \in Message
PROOF
<1> USE DEF IInv
<1>1. CASE ts' = ts /\ next' = next
  BY <1>1
<1>2. CASE NetAdd
  <2>1. next <= MaxId /\ TrigAdd(NewTrigger)
    BY <1>2 DEF NetAdd, NewTrigger
  <2>2. /\ NewTrigger \in Trigger /\ NewTrigger.id = next
        /\ req.msg \in Message
    <3>1. left \in Seq(Meas \cup {NoMeas}) /\ left # <<>> /\ req \in Request
      BY <1>2 DEF TypeOK, ThreadLinks, NetAdd
    <3>2. Last(left) \in Meas \cup {NoMeas}
      BY <3>1, FrontLemma
    <3>3. req.msg \in Message /\ req.msg.act \in Act /\ req.msg.mod \in Mod
      BY <3>1 DEF Request, Message
    <3>4. AddType(req.msg.act) \in {"UE_REP", "UE_MEAS", "TASK_TYPE_CELL_MEASURE"}
      BY <3>3, TriggersAssumption DEF AddType
    <3>5. next \in Ids
      BY <2>1 DEF TypeOK, Ids
    <3> QED BY <3>2, <3>3, <3>4, <3>5 DEF Trigger, NewTrigger
  <2>3. ToSet(ts') = ToSet(ts) \cup {NewTrigger}
    BY <2>1, <2>2, AddTrigger
  <2>4. next' = next + 1
    BY <2>1 DEF TrigAdd
  <2> QED BY <2>2, <2>3, <2>4
<1>3. CASE NetTaskFails
  BY <1>3, DelById DEF NetTaskFails
<1>4. CASE NetRemove
  BY <1>4, DelByInst DEF NetRemove
<1>5. CASE NetErrorTriggers
  BY <1>5, EmptySeq DEF NetErrorTriggers, TrigFlush, ToSet
<1>6. CASE \E i \in Ids : EmDelTrigger(i)
  BY <1>6, DelById DEF EmDelTrigger
<1> QED
  BY <1>1, <1>2, <1>3, <1>4, <1>5, <1>6
  DEF Next, NetStep, SchedStep, NetRequest, NetAllocFails, NetSchedule, PerformReport,
      Find, Parse, ParseFails, CallWrapper, NetErrorTasks

\* trig_add never gives out an id twice, whatever was removed or flushed.
THEOREM TriggersNeverReused == Spec => NeverReused
PROOF
<1>1. IInv /\ [Next]_vars => [/\ next' >= next
                               /\ \A t \in ToSet(ts') \ ToSet(ts) : t.id >= next]_vars
  <2> SUFFICES ASSUME IInv, Next
               PROVE  /\ next' >= next
                      /\ \A t \in ToSet(ts') \ ToSet(ts) : t.id >= next
    OBVIOUS
  <2>1. next \in Nat
    BY DEF IInv, TypeOK
  <2> QED BY <2>1, TableStep DEF NewTrigger
<1> QED BY <1>1, TriggersInvariant, PTL DEF Spec, NeverReused

\* The keys of a trigger are those of the request it was made from.
WellFiled == \A t \in ToSet(ts) : t.type = AddType(t.msg.act) /\ t.mod = t.msg.mod

LEMMA FiledInit == Init => WellFiled
PROOF BY EmptySeq DEF Init, WellFiled, ToSet

LEMMA FiledStep == ASSUME IInv, WellFiled, [Next]_vars PROVE WellFiled'
PROOF
<1>1. CASE UNCHANGED vars
  BY <1>1 DEF vars, WellFiled
<1>2. CASE Next
  BY <1>2, TableStep DEF WellFiled, NewTrigger
<1> QED BY <1>1, <1>2

\* For UE requests the keys a removal looks for belong to one request only.
LEMMA RemoveTakesOne ==
    ASSUME "CELL_MEASURE" \notin Act, IInv, WellFiled, NetRemove
    PROVE  RemovesOne
PROOF
<1> DEFINE act == req.msg.act
           mod == req.msg.mod
           m == Last(left)
           Test(t) == t.type = DelType(act) /\ t.mod = mod /\ t.instance = m
           made(s) == MadeFor(act, mod, m, s)
<1>1. /\ ts \in Seq(Trigger) /\ Falling(ts, next) /\ next \in Nat
      /\ act \in Act
  BY DEF IInv, TypeOK, NewestFirst, Falling, NetRemove, Request, Message
<1>2. ToSet(ts) = {ts[i] : i \in DOMAIN ts}
  BY <1>1, LenProperties DEF ToSet
<1>3. \A t \in ToSet(ts) : t.msg.act \in Act
  <2>1. \A t \in ToSet(ts) : t \in Trigger
    BY <1>1, <1>2, LenProperties
  <2>2. \A t \in Trigger : t.msg \in Message
    BY DEF Trigger
  <2>3. \A q \in Message : q.act \in Act
    BY DEF Message
  <2> QED BY <2>1, <2>2, <2>3
<1>4. \A a, b \in Act : AddType(a) = DelType(b) <=> a = b
  BY TriggersAssumption DEF AddType, DelType
<1>5. \A t \in ToSet(ts) : Test(t) <=> t \in made(ts)
  BY <1>1, <1>3, <1>4 DEF WellFiled, MadeFor
<1>6. CASE (\A i \in DOMAIN ts : ~Test(ts[i])) /\ ts' = ts
  <2>1. made(ts) = {}
    BY <1>2, <1>5, <1>6 DEF MadeFor
  <2> QED BY <2>1, <1>6 DEF RemovesOne
<1>7. CASE \E i \in DOMAIN ts : Test(ts[i]) /\ ts' = RemoveAt(ts, i)
  <2>1. PICK i \in DOMAIN ts : Test(ts[i]) /\ ts' = RemoveAt(ts, i)
    BY <1>7
  <2>2. ToSet(ts') = ToSet(ts) \ {ts[i]}
    BY <2>1, <1>1, RemoveTrigger
  <2>3. ts[i] \in made(ts)
    BY <2>1, <1>2, <1>5
  <2>4. made(ts') = made(ts) \ {ts[i]}
    BY <2>2 DEF MadeFor
  <2>5. ToSet(ts) \ made(ts) = ToSet(ts') \ made(ts')
    BY <2>2, <2>3, <2>4
  <2> QED BY <2>3, <2>4, <2>5 DEF RemovesOne
<1>8. \/ (\A i \in DOMAIN ts : ~Test(ts[i])) /\ ts' = ts
      \/ \E i \in DOMAIN ts : Test(ts[i]) /\ ts' = RemoveAt(ts, i)
  BY DEF NetRemove, TrigDelByInst, DeleteFirst
<1> QED BY <1>6, <1>7, <1>8

\* As long as the controller makes UE requests only, a removal
\* (trig_del_by_inst) takes away one trigger of the request and instance it
\* names and no other, in whatever order requests are made and removed.
THEOREM TriggersRemoveRemoves ==
    ASSUME "CELL_MEASURE" \notin Act
    PROVE  Spec => RemoveRemoves
PROOF
<1>1. Spec => []WellFiled
  <2>1. IInv /\ WellFiled /\ [Next]_vars => WellFiled'
    BY FiledStep
  <2> QED BY <2>1, FiledInit, TriggersInvariant, PTL DEF Spec
<1>2. IInv /\ WellFiled /\ [Next]_vars => [NetRemove => RemovesOne]_vars
  BY RemoveTakesOne
<1> QED BY <1>1, <1>2, TriggersInvariant, PTL DEF Spec, RemoveRemoves
=============================================================================
