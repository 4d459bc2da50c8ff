# A TLA+ development of the empower eNB agent

The agent is a C library that a base station (the *wrapper*) links to. It keeps one TCP connection
to a controller per agent, receives requests from it, turns them into tasks of a scheduler thread,
and calls the wrapper back for each of them. The answers come through `em_send`. Each agent has two
threads of its own, the network thread and the scheduler thread; the threads of the wrapper call
into the library at any time, and the controller and the network may fail at any time. What is hard
here is what these threads do to each other, and that is what these modules are about.

## 1. Inventory of the code

| component | source | state | operations | interacts with |
|---|---|---|---|---|
| task scheduler | `agent/sched.c`, `sched.h` | lists `jobs` and `todo`, `stop`, a spin lock | `sched_add_task`, `sched_loop`, `sched_consume`, `sched_perform_job` and the performers, `sched_start`, `sched_stop` | gets tasks from the network thread and from `em_send`; calls the wrapper; gives the connection up and flushes the triggers when a send fails |
| tasks | `agent/task.c`, `task.h` | one task: type, interval, count `resch`, trigger id | `task_alloc`, `task_free` | made by the producers, freed by the scheduler |
| trigger table | `agent/triggers.c`, `triggers.h` | list `ts`, counter `next`, a lock | `trig_alloc`, `trig_add`, `trig_del_by_id`, `trig_del_by_inst`, `trig_find_by_id`, `trig_find_by_inst` (unused), `trig_flush` | changed by the network thread, the scheduler thread and `em_del_trigger` |
| network connection | `agent/net.c`, `net.h` | `sockfd`, `status`, `stop`, a receive buffer, `seq` | `net_loop`, `net_connect_to_controller`, `net_connected`, `net_not_connected`, `net_recv`, `net_send`, `net_start`, `net_stop` | queues the Hello; shares the socket with the scheduler thread |
| framing and dispatch | `agent/net.c` | the receive buffer | the two read loops of `net_loop`, `net_process_*`, `net_se_*`, `net_sc_*`, `net_te_*` | queues a task per request, adds and removes triggers |
| agents and library calls | `agent/core.c`, `agent.h`, `include/emage.h` | list `core_agents`, its lock | `em_start`, `em_stop`, `em_terminate_agent`, `em_send`, `em_has_trigger`, `em_del_trigger`, `em_is_connected` | starts and stops everything else |
| interval arithmetic | `agent/sched.c:30-32` | none | `ts_diff_to_ms` | says when a task is due |
| linked lists | `agent/emlist.h` | pointers | `list_add`, `list_add_tail`, `list_del`, the iterators | the two lists, the table, the agents |
| log | `agent/log.c`, `log.h` | the log file | initialise, write, release | everybody |
| types, visibility, build | `emtypes.h`, `visibility.h`, Makefiles | none | none | |
| message library, wrapper | not in the repository | | `epp_*`, `epf_*`, `em_agent_ops` | external |

What makes each of them correct, and where it is hard:

- **Scheduler.** A task has one owner at any time although it is performed outside the lock; tasks keep
  their order over rounds; a bounded task runs as often as it was posted for; nothing is queued after
  the last drain; endless tasks do not keep `sched_stop` from returning.
- **Trigger table.** Ids name one request for the life of the agent; a removal takes away what it
  names; a trigger that stays in the table, and whose message parses, is announced to the wrapper, whatever fails in between.
- **Connection.** Two threads read, write, close and reopen one socket; a loss is noticed although
  `recv() = 0` is tested through a stale `errno`; the agent comes back; `net_stop` returns.
- **Agents.** One agent per identity; a call finds an agent that is not being released; a release waits
  for the threads; whatever crosses has a defined result as long as nobody calls `em_stop`.
- **Framing.** A message is handled whole and once, whatever the pieces it comes in; a request of the controller
  leads to the callback that `emage.h` names for it, or is forgotten with its connection.
- **Time.** A task does not come early, whatever `ts_diff_to_ms` makes of two stamps; what is due is not passed over.
- **Lists.** The pointers stay each other's inverse; a loop whose body frees or moves the entry it is at meets every entry.

`PROJECT.json` lists each hazard with its line and with the properties that would catch it going wrong.

## 2. The modules

| module | what it is |
|---|---|
| `Agenda` | the abstract specification of the scheduler: an ordered agenda of tasks with a number of runs each |
| `Sched` | the scheduler, its producers and the owner of the agent |
| `MCSched` | instances of `Sched` for TLC |
| `ListLemmas` | lemmas about the operators on sequences that `Agenda`, `Sched`, `Triggers` and `EmList` use |
| `SchedProofs` | the theorems about `Sched`, and that it implements `Agenda` |
| `Triggers`, `MCTriggers`, `TriggersProofs` | the trigger table, the threads that use it, instances, theorems |
| `Link`, `LinkProofs` | the connection and the two threads that share it, theorems |
| `Core`, `CoreProofs` | the agents of the process, the calls of the library and the log file, theorems |
| `Orders` | the abstract specification of a request: open until it is carried out or forgotten |
| `Intake`, `MCIntake`, `IntakeProofs` | a request from `recv()` to the callback, instances, theorems, and that it implements `Orders` |
| `Pace`, `MCPace`, `PaceProofs` | the stamps and `ts_diff_to_ms`, instances, theorems |
| `Lists` | the abstract specification of the linked lists: sequences |
| `EmList`, `EmListProofs` | the pointers of `emlist.h` and their loop, theorems, and that they implement `Lists` |

`Agenda`, `Orders` and `Lists` are abstract; the others are translated from the code. `Sched`, `Triggers`, `Link` and
`Core` look at the same threads from four sides. Where one needs what another shows, it says so by name: `Core`
assumes that a thread which is told to stop does so (`StopJoins` of `Sched`, `StopEnds` of `Link`), `Intake` that a
queued task has its turn (`EachIsServed` of `Sched`), and all of them that lists are sequences (`ListsSpec` of `EmList`).

Definitions named `...Untested`, `...Kept`, `...Forgotten` and the like, marked `Fault:` in their comment,
are not part of any specification. Each is the form a definition would take after a plausible mistake in
the code, and stands beside the definition it alters; `PROJECT.json` ("mutants") names the property that
then breaks.

### Sched

One action is one critical section under `ctx->lock`, or one step between two. `sched_stop` sets
`ctx->stop` without the lock, so `sched_add_task`, which tests the flag inside its critical section, is
two steps (`AddEnter`, `AddTail`) with the lock held in between (variable `lock`). The critical sections of
the scheduler thread read and write nothing that others touch without the lock, and are one step each.

| in `Sched` | in the code |
|---|---|
| `jobs`, `todo`, `stop`, `lock` | the fields of `schctx` |
| `held`, `op`, `pc` | the locals of `sched_consume` and where the thread is |
| `mine[p]` | the task a producer has allocated and not yet queued |
| `live`, `due`, `type`, `resch` | the allocated tasks; those whose interval has passed; `task->type`, `task->resch` |
| `TaskAlloc`, `AddEnter`, `AddRefused`, `AddTail` | `task_alloc` and `sched_add_task` with what its callers do about a refusal |
| `LoopTest`, `Pop`, `PerformTooEarly`, `PerformTask`, `PerformFails` | `sched_loop`'s test, the first half of `sched_consume`, `sched_perform_job` |
| `SettleNotElapsed`, `SettleReschedule`, `SettleConsumed`, `SettleNetError`, `ConnectionDown`, `Restore` | the switch on the outcome, what follows a network error, and the end of a round |
| `Drain` | the last flush of `sched_loop` |
| `Publish`, `Detach`, `SchedStop`, `SchedJoined`, `NetJoined` | `em_start`, `em_terminate_agent`, `core_release_agent` seen from the scheduler |

Abstracted: time (a task becomes due at some moment after it was stamped: `Elapse`), what the performers do
(`Triggers` has those that matter), and the nine types of task (three: two that send, and the rest).

### Triggers

One action is one critical section under the lock of the table. `added` and `used` are the pointers that
`trig_add` and `trig_find_by_id` leave in the hands of their callers after the lock is released; what is read
through a pointer to a freed trigger is any value of its type (`ReadId`, `ReadInstances`), and may parse or not.
A request carries whether its message parses (`parses`): the network thread files the trigger in either case, since it
ignores the result or does not parse at all, and the performer that comes to such a message consumes its
task without a call (`ParseFails`; `sched.c:294-296`, `sched.c:351-367`). That trigger stays in the table untold. `Tellable`
are the others. `left` is the list of measurements, `m.rrc`, cut as `m.nof_rrc` is counted down; `calls` counts the same loop on the
scheduler's side. `told` records the triggers the wrapper was called for. `next` is bounded by
`MaxId`; the network thread adds nothing beyond it.

Kept as the code has it: a UE report calls the wrapper without a look at the table; the removal of a cell
measurement looks for `MAC_REP` while the addition files a task type (`AddType`, `DelType`); tasks are flushed
before triggers, in two critical sections. Left out: a refused task (in `Sched`), `trig_flush` at the release,
when no thread is left, tasks that name no trigger, and what the wrapper is told beside the id.

### Link

Nothing protects `sockfd` and `status`, so each access of `net_not_connected` is a step (`NcTest`, `NcClose`,
`NcFd`, `NcStatus`), on either thread. The library is built with `-O2`, without which the compiler reads
`sockfd` again for `close`: `NcClose` allows both. `sock` is the state the kernel has each descriptor in,
`again` is `errno = EAGAIN` in the network thread, which a `recv()` that returns 0 does not reset. The
scheduler is reduced to the number of Hello and SEND tasks it has queued; `pc["sched"]` follows it from a
failed send through the flush and the wrapper's callback to `net_not_connected`. A message of the controller
is one step back to the head of the loop (`ReadMessage`), or gives the connection up (`ReadTooShort`).
`trouble` counts the faults of the environment down from `MaxTrouble`: a loss, a full buffer, a name that is
not resolved, a message out of step, an `em_send`.

### Core

Each critical section of `core_agents_lock` in which an agent is only looked for or moved is one step. A call that uses
an agent under the lock (`em_send` and the like) is two, `UseFind` and `UseDone`, with `lock` held between them: what it
does in between may take as long as it likes, and others wait.

| in `Core` | in the code |
|---|---|
| `inited`, `log` | `core_init`, and what `log_fd` points to |
| `agents`, `mem`, `enb` | the list `core_agents`, the allocated agents, `agent->enb_id` |
| `sched`, `net` | the threads of each agent: started, told (`ctx->stop`), ended |
| `pc`, `want`, `local` | where a thread is in the library, its argument, its local variable |
| `StartCall`, `FindTwin`, `LogTwin`, `AllocAgent`, `SchedStart`, `NetStart`, `InitSucceeds`, `InitFails`, `ListAdd` | `em_start` with `core_initialize` |
| `TerminateCall`, `Detach` | `em_terminate_agent` |
| `ReleaseOps`, `TellSched`, `JoinSched`, `TellNet`, `JoinNet`, `FreeAgent` | `ops->release`, then `core_release_agent` |
| `StopCall`, `StopTest`, `StopDetach`, `StopTakesHead`, `StopLog` | `em_stop` |
| `LogReleased`, `LogTest`, `LogRelease`, `LogClosedTwice` | `log_release` |
| `Writes`, `LogToNothing` | where `log_message` is called, and what it does with a log that is not open |
| `UseCall`, `UseInCallback`, `UseFind`, `UseDone` | the four calls that look an agent up, by the wrapper or by a callback |

An agent's address also names its scheduler thread, on which callbacks run. Any wrapper thread may call anything at any
time, `em_stop` included: its comment (`core.c:623-624`) warns that it "can harm all the running agents" and asks for
nothing. What the code then does is not always defined: `em_stop` may take the head of an emptied list for an agent
(`StopTakesHead`), two of them may close the log twice (`LogClosedTwice`), and a message may go to a log that is not
open (`LogToNothing`), for instance that of a start that follows a stop. Such a step makes `defined` false, and the model
says nothing of what comes after; that it can only come to this with an `em_stop` is `OnlyStopHarms`. The environment is
what the code does not survive in other respects: a callback starts, stops and terminates no agent (it would join
its own thread), `pthread_create` and `fopen` do not fail, `ops` is not null.

### Intake

The stream of a connection is the messages sent on it, end to end; `there` and `taken` are positions in it, and `bread`
is the local variable of that name in `net_loop`. `Recv` takes any number of bytes up to what the code asks for.

| in `Intake` | in the code |
|---|---|
| `Connect`, `Connected`, `GreetFails` | `net_connect_to_controller` and `net_connected` |
| `Collect`, `RecvHeader`, `RecvBody`, `RecvFails`, `Reject` | `net_loop` |
| `Close`, `Closed`; `CloseConn`, `ConnClosed` | `net_not_connected` on the network and on the scheduler thread: socket, then status |
| `Deaf` | `connect()` on a socket that is connected, tried over and over |
| `Process`, `TaskFor` | `net_process_message` and the handlers `net_se_*`, `net_sc_*` |
| `Perform`, `CallbackOf`, `Calls` | `sched_perform_job`, the performers, and the callbacks they look for in `ops` |
| `Flush` | a send that fails in the scheduler thread: tasks first, then the connection |
| `Send`, `Lose` | the controller and the network (external) |

A message is its class, act, direction, operation, announced length, and whether its body can be parsed. `Size` gives a
message that announces less than a header the header it is announced in. The order of tasks is left to `Sched` (any task
may come first), triggered requests to `Triggers`, the stop and what happens between `close()` and `sockfd = -1` to `Link`.
The status is written in a step of its own: a new connection may come in between, and the late write then cuts it
off (`Deaf`). A message may announce any length. `net_loop` does not compare it with `EM_BUF_SIZE`, and once more has been
read than the buffer holds (`npc = "overrun"`) nothing is said of what follows. `calls` counts up to two, enough to tell
once from more often.

### Pace

Time is an integer number of nanoseconds; a second has `Second` milliseconds and a millisecond `Milli` nanoseconds, so
that a small instance has all positions of two stamps in their seconds. A stamp is taken outside the lock (`Stamp`) and
the task filed under it (`AddTask`). `jobs` and `todo` are sets: which task comes first is in `Sched`. `now` is read once
per task (`ReadClock`) and serves both the test and the new stamp of a rescheduled task, as in `sched_consume`.
`SetClock` is what `CLOCK_REALTIME` allows. `owed` and `back` are kept for the properties.

### EmList

`heap` has the two pointers of every head and entry; an operation is one step, since the agent changes its lists under
their owner's lock, and assigns the pointers in the order of the code (`AddBetween`, `DelBetween`, `Splice`, `CutAt`,
`Replace` are the functions of those names with underscores). The plain forms of replace and splice leave
pointers behind that their `_init` forms then mend; they have no other user, and only the `_init` forms are steps.
`loop` is a running `list_for_each_entry_safe` with the three bodies the agent has: look, free (`triggers.c:400`), move
(`sched.c:852`). `OrderOf(h)` is what `list_for_each_entry` meets on its way from the head along the pointers; from it the
sequences of `Lists` are made (`Orders`). An entry is in a set of any size, which only has to be finite
(`EmListAssumption`): the walk is cut off after as many steps as there are entries.

## 3. What is checked

### Runs in which the properties hold

| run | properties | bounds |
|---|---|---|
| `sched` | `TypeOK`, `TaskOwnership`, `NoLeakWhileRunning`, `EndedIsEmpty`, `AgendaSpec` | 3 tasks, one wrapper thread, counts -1, 0, 1; tasks are symmetric; about 240 000 states |
| `sched_live` | `StopJoins`, `EachIsServed` | 2 tasks, counts -1, 0 |
| `triggers` | `TypeOK`, `NewestFirst`, `NoOrphan`, `NeverReused` | ids 1 to 3, all requests, messages that parse and that do not, one module, two measurements; about 1 200 000 states |
| `triggers_live` | `RemoveRemoves`, `Answered` | ids 1 and 2, UE reports and measurements that parse and that do not, two modules, two measurements; about 260 000 states |
| `link` | `TypeOK`, `HelloGuards`, `LossIsNoticed`, `Reconnects`, `StopEnds` | 3 descriptors, 2 faults; about 116 000 states |
| `core` | `TypeOK`, `AgentOwnership`, `NoUseAfterFree`, `OnlyStopHarms`, `CallsReturn` | 2 wrapper threads, 2 agents with callbacks, 1 identity; about 23 000 states |
| `intake` | `TypeOK`, `WholeMessages`, `NoneSkipped`, `OnlyLengthOverruns`, `OrdersSpec`, `EveryRequestEnds` | 2 messages of five kinds, a header of 2 bytes, a buffer of 3, 3 faults; about 114 000 states |
| `pace` | `TypeOK`, `WithinAMilli`, `DueIsServed` | 2 tasks with intervals 1 and 2, a second of 2 ms of 3 ns, 12 ns, the clock set once; several million states |
| `lists` | `TypeOK`, `DoublyLinked`, `InTurn`, `ListsSpec` | 2 lists, 4 entries; about 8 000 states |

Why these are enough. Three tasks let one be in hand, one be filed and one wait, or let the two producers and
the scheduler each have one; 1 is the smallest count of which a credit is consumed, -1 and 0 are those the
code uses. Three triggers let one be in use while one is added and an older one is removed; two modules and two
measurements are what it takes to remove the wrong trigger. Three descriptors and two faults let a
connection be lost while the loss of the one before is still being dealt with. Two agents let one be built while the
other is released, and let the callback of one find the other; with one identity they meet whenever that is possible, and
the theorems cover any number of identities. Two messages let one be read and one be half read or wait behind it when
the connection goes or its status is overwritten, or one be performed while the other is read; three faults let this happen on
more than one connection. The five kinds are those `net_loop` and the performers tell apart (a request that just fills the
buffer, one that is repeated, one no longer than its header, which cannot be parsed, one shorter, one longer than the buffer). Twelve
nanoseconds are two seconds of `Pace`, so that every pair of positions across a second occurs. Four entries on two lists put something before, between and behind
whatever moves.

A run with symmetry checks no liveness. Deadlock is checked in every run but `intake`, in which the
controller falls silent after `MaxSent` messages and everybody waits; an agent that has been released stays so (`Released`,
`Stopped`), and so does a model that has come to an undefined result (`Undefined`).

The properties that say most:

- `TaskOwnership` and `NoLeakWhileRunning`: the window in which `sched_consume` holds a task that is on no list,
  the flush at a network error, and producers that queue meanwhile neither share, lose nor free a task twice.
- `EndedIsEmpty`: although the flag is set without the lock, no producer can queue a task behind the last drain.
- `AgendaSpec`: moving tasks to `todo` and back reverses twice, so the order of posting survives every round.
- `NoOrphan`, `Answered`: a trigger whose message parses has its task on the way until the wrapper has heard of it. It
  needs the order of the two flushes: tasks first. One whose message does not parse has lost its task, and stays untold
  until it is removed or flushed.
- `HelloGuards`, `LossIsNoticed`: `net_loop` can take a closed connection for an idle one, for ever. It is
  the Hello that gets it out, and a Hello is there in every race.
- `Reconnects`: whatever the two threads do to each other's sockets, connections keep coming back. The two can
  chase each other: a Hello performed just when the thread reconnects fails and brings the new connection down. The
  code's 2 s between two Hellos makes long chases unlikely but the model has no clock, so the property is
  "again and again", not "eventually for good"; the case that the races have left every descriptor of the model
  behind (a socket overwritten by -1, below) is excepted.
- `NoUseAfterFree`, `AgentOwnership`: an agent that a call has found stays on the list until the lock is given back, and one
  that is off the list has one releaser, who frees it when both threads have ended. `CallsReturn`: that releaser waits for
  a scheduler thread whose callback may wait for the lock; it holds none while it waits. (An `em_stop` is kept busy as long as
  others go on to add agents, which `CallsReturn` excepts.) `OnlyStopHarms`: until somebody calls `em_stop` no crossing of
  the other calls has an undefined result; `core_stop` shows one that `em_stop` has.
- `WholeMessages`, `NoneSkipped`: wherever `recv()` cuts, and whoever closes the socket in the middle, bytes of two
  messages or of two connections are never joined, and no message is left out on a connection that goes on.
  `OnlyLengthOverruns`: the one way over the end of the buffer is a message that announces more than it holds.
- `EveryRequestEnds`: a request that leads to a callback comes to it or is forgotten with its connection. The exception is the
  late write of the status (`link_status`): a request that was not read yet then waits for as long as that connection stands.
- `OrdersSpec`: from the bytes to the callback a request is carried out at most once (again and again if scheduled), by the
  documented callback, and not after it was forgotten. It joins framing, dispatch, queue and performers.
- `WithinAMilli`: `ts_diff_to_ms` takes the difference of the nanoseconds with its sign and cuts it towards zero. A
  task comes less than a millisecond early, never more. `DueIsServed`: a task that was due when a round began is
  performed in that round, unless the clock was set back meanwhile.
- `ListsSpec`, `InTurn`: the other modules may take the lists for sequences, and the loop that moves `todo` to `jobs` meets
  each entry once although its body pulls the entry out from under it.

### Fairness

- `Sched`: the scheduler thread is not starved of the spin lock and a producer inside `sched_add_task` gets through
  it (a spin lock is not fair by contract; sections are a few instructions long and the threads sleep or
  wait between them); time passes; a join returns when its thread has ended. Nobody has to call the library.
  `EachIsServed` has a premise that the code does not secure, that rounds end: producers that queue faster than
  the thread consumes can keep `sched_consume` in its loop.
- `Triggers`: both threads go on. Nobody has to ask, to fail or to remove.
- `Link`: both threads and the owner go on; a `connect()` that is tried again and again succeeds some time;
  sends on a connection that the peer has closed fail some time (TCP answers the first with a reset). Faults never have to come.

- `Core`: a thread in the library goes on and gets the lock though others take it again and again (strong fairness: the
  lock is a pthread mutex, `core.c:65`, held for a search); a scheduler thread that was told to stop does so between two callbacks
  (`StopJoins`), a network thread does so (`StopEnds`). Nobody has to call.
- `Intake`: the network thread goes on and connections succeed again; a flush is followed by the close and the write of the status; every queued task
  has its turn. Messages, losses and failing sends never have to come. What was sent arrives or the
  connection is lost: `EveryRequestEnds` is about the agent and not about a controller that stops in the middle of a message.
- `Pace` and `EmList` check no liveness.

### Disagreements between code and documentation

Each is a run that checks one statement of a comment and finds it broken by what the code does.

| run | property | what happens |
|---|---|---|
| `core_unique` | `OneAgentPerIdentity` | two `em_start` with one identity both look before either inserts (`core.c:532`, `core.c:537`) |
| `core_stop` | `FirstOfSome` | `em_stop` sees an agent without the lock, `em_terminate_agent` takes it, and `em_stop` takes the first entry of an empty list (`emlist.h:408`) |
| `link_status` | `ConnectionIsReported` | a late write of the status leaves the agent connected, saying it is not, and calling `connect()` for ever (`emage.h:218`) |

More were met while modelling. They have no run: most need one path of the code and no interleaving, the others contradict
no statement that a run could quote.

- The pointers that `trig_find_by_id` and `trig_add` return are used after the lock is released, while a removal,
  `em_del_trigger` or a flush may free the trigger (`sched.c:287`, `net.c:616-624`). No comment says that they may not.
  `Triggers` takes what is read through them for any value.
- A trigger whose message does not parse is filed, never announced, and never reported to the controller
  (`net.c:595`; `sched.c:294-296`, `sched.c:351-367`).
- The announced length is not compared with `EM_BUF_SIZE` before the body is read (`net.c:1107-1127`).
- A UE report names module 0 to the wrapper: `sched.c:423` passes `task->mod`, which nothing sets (`emage.h:145`).
- Of n measurements requested together, each of the n tasks calls the wrapper for all n, under its own trigger
  (`sched.c:301-311`; `triggers.h:53`).
- A cell measurement cannot be removed: it is added under `TASK_TYPE_CELL_MEASURE` and looked for as `TR_TYPE_MAC_REP`
  (`net.c:738`; `triggers.h:24`).
- A loss the network thread notices queues one more endless Hello beside the old one (`net.c:65-74`).
- Of a loss that a read notices the wrapper is not told (`net.c:1100`, `net.c:1136`; `emage.h:118`).
- When both threads give one connection up, the later may overwrite the descriptor of the next one by -1, which is then
  never closed (`net.c:206`; `net.h:39-42`). `Link` allows it: `Reconnects` holds in spite of it.
- `net_loop` ends without a close of its socket (`net.c:1157-1164`; `net.c:1210-1211`).
- The network thread can reset `seq` between the number the scheduler thread has drawn and the send (`net.c:212`).
- A task refused after the stop is freed by nobody but `net_connected` (`core.c:235-236`; `sched.c:643`).
- A task can come up to a millisecond early: "granted to sleep at least for its specified interval" (`sched.c:615-618`) holds
  only up to the rounding. `WithinAMilli` is what does hold.
- A clock that is set back delays every task by as much: stamps are `CLOCK_REALTIME`.
- `core_init` stays 1 after `em_stop`, so that a later `em_start` does not open the log again; `log_message` writes to
  the null stream, as it does for an `em_stop` that comes before any start (`log.c:114`; `log.h:46-48`). `OnlyStopHarms`
  covers everything that happens without an `em_stop`. An `em_start` that is under way when `em_stop` looks at the list survives it: its agent is added later.

## 4. What is proved

The theorems hold for any set of tasks, threads, counts, modules, measurements and descriptors and any bound
that satisfies `SchedAssumption`, `TriggersAssumption`, `LinkAssumption`, `CoreAssumption`, `IntakeAssumption`,
`PaceAssumption` or `EmListAssumption`; these say that sentinels are not ordinary values, that counts are at least -1,
that bounds are natural numbers, that a header fits the buffer, that a second and a
millisecond are not empty, and that heads are no entries, which are finitely many.

- **`SchedProofs`.** `SchedInvariant`: `IInv` is inductive. `TaskOwnership` alone is not: one has to know
  when the scheduler thread holds a task, that whoever is in the critical section came with a task, and that the
  flag is up before the last drain (`ThreadStates`). From it follow `SchedTypeOK`, `SchedOwnership`, `SchedNoLeak` and
  `SchedEnded`. `SchedEnded` rests on the lock: `Drain` needs it free, and a producer that enters afterwards
  sees the flag.
  `SchedImplementsAgenda` uses the refinement mapping at the end of `Sched`: the agenda is what is on `todo` read backwards,
  then the task in hand, then `jobs`. `Pop`, `Restore` and all of `Settle` but the freeing steps map to a
  stutter, `PerformTask` to a run, `AddTail` to a posting. The list algebra behind it is in `ListLemmas`.
- **`TriggersProofs`.** `TriggersInvariant` with `IInv == TypeOK /\ NewestFirst /\ NoOrphan`; the conjuncts as theorems;
  and two action properties. `NoOrphan` holds of any table in which some messages parse and some do not: a flush, a removal or
  a failure of the one kind leaves the others as they were (`FewerTellable`). `TriggersNeverReused`: whatever is new in the table has the id `next` (`TableStep`).
  `TriggersRemoveRemoves`, for UE requests (assumed in the theorem, since cell measurements break it): the keys of a trigger
  are those of its request (`WellFiled`), so that the keys a removal looks for belong to one request only.
- **`LinkProofs`.** `HelloGuards` speaks of the moments in which the network thread reads. The inductive form
  (`SocketIsGuarded`) speaks of the socket: whenever it has been connected, a Hello is queued, or one of the
  threads is about to queue it or to close the socket. `LinkInvariant`, `LinkTypeOK`, `LinkHelloGuards`.
- **`CoreProofs`.** `CoreInvariant`: to the four checked invariants `IInv` adds what the threads of an agent do
  (`ThreadStates`: they run while it is on the list, and stop one after the other in the hands of one releaser), who has
  the lock (`LockHolder`), that the log was opened before there were agents (`LogStates`, `AfterLogInit`), and where an
  `em_stop` is (`StopStates`). `NoUseAfterFree` rests on the order tell, join, free, and holds whatever `em_stop` crosses
  as long as results are defined. `OnlyStopHarms` rests on `AfterLogInit`: whoever writes to the log, but for `em_stop`,
  comes after the start that opened it. From it `CoreTypeOK`, `CoreOwnership`, `CoreNoUseAfterFree`, `CoreOnlyStopHarms`.
- **`IntakeProofs`.** `WholeMessages` says that what is collected begins some message; that it is the *next* one takes
  `Layout` (the messages of a connection lie end to end) and `InPlace` (the thread's place is a message whose predecessors
  were all processed, and none after it). `IntakeInvariant`, `IntakeTypeOK`, `IntakeWholeMessages`, `IntakeNoneSkipped`,
  `IntakeOnlyLengthOverruns`: since the message a read belongs to is known, so is the length it was read up to.
  `IntakeImplementsOrders`: an order is open while it was not read on this connection or is queued; `Send` asks, `Perform`
  carries out or forgets, `Connect`, `Flush` and a `Process` that queues nothing forget, and the rest stutters, the late write of the status
  included: nothing is carried out twice or after it was forgotten because of it.
  `CallsPromised` compares the dispatch tables with the callbacks the header promises.
- **`PaceProofs`.** `PaceInvariant`, `PaceTypeOK`, `PaceWithinAMilli`, `PaceDueIsServed`, for any length of a second and
  a millisecond and thus for 1000 and 1000000. `DiffWithinAMilli` bounds the error of `ts_diff_to_ms`, `DiffMonotone`
  shows that it grows with its second argument across the end of a second, where the nanosecond part jumps back; from that,
  what is due stays due while the clock is not set back (`OwedIsAhead`), the strengthening of `DueIsServed`. Division
  is first reduced to its bounds, since the prover knows `\div` by its definition only.

- **`EmListProofs`.** `DoublyLinked` is not inductive: pointers that are each other's inverse may still form a ring through
  no head, or through two, and `list_splice_init` would then join what it should not. `IInv` says what the pointers
  are (`Represents`): each list is a ring that starts at its head (`Rings`), no entry is at two places (`Apart`), and an entry on
  no list points to itself or is poisoned (`Settled`), but for those in a set `X` that an operation has taken off and not
  yet settled, so that `list_move` and its like can be taken as the two calls they are. To `InTurn` it adds where the
  *saved* entry of a loop is (`LoopHolds`), which is why the body may poison the current one.
  The proof first says what each of `__list_del_entry`, `__list_add`, `__list_splice`, `__list_cut_position` and
  `list_replace` makes of the lists, given those of the old pointers (`DelEntryLemma` to `ReplaceLemma`). Then the walk:
  whatever lists the pointers represent are the ones `OrderOf` finds (`OrderIs`). `OrderOf` is a recursive function, defined as
  the choice of a function that satisfies an equation; the places of the ring satisfy it, and two that do agree, since there
  would be a least step at which they differ (`LeastNumber`). Thus an operation that represents new lists has those
  as its `Orders'` (`NewOrders`), and each is a step of `Lists`. From it `EmListTypeOK`, `EmListDoublyLinked`,
  `EmListInTurn` and `EmListImplementsLists`. The last is what entitles the other modules to take lists for sequences.

Only model-checked: the liveness properties (`StopJoins`, `EachIsServed`, `Answered`, `LossIsNoticed`, `Reconnects`,
`StopEnds`, `CallsReturn`, `EveryRequestEnds`: the prover has no rule for fairness), and the runs that end in a
violation. Every invariant, action property and refinement that a run checks is also a theorem.

## 5. Not modelled, and what is left

- `ctx->seq` and the numbers of messages, and a `send()` that takes part of a message (`net.c:352`): nothing in the agent
  reads either again. A module `Outbox` would need a statement of what the controller's stream should look like.
- The format of messages (`epp_*`, `epf_*`): the message library is not in the repository. Its answers are inputs.
- One composition of `Core`, `Sched`, `Triggers` and `Link` around a release. Each has the release from its own side, and
  they meet in the assumptions named in section 2; the product of their states is beyond a run of minutes.
- `trig_find_by_inst` (no caller) and the hash lists of `emlist.h` (no user).
- What the environment of `Core` excludes: a callback that starts or releases agents, a `pthread_create` or `fopen` that fails.
- What follows an undefined result: an `em_stop` that took the head of the list, a write to a log that is not open, a message
  over the end of the buffer.
- Log texts, types, symbol visibility, build files. The one option that matters, `-O2`, is in `Link`.
