-------------------------------- MODULE Core --------------------------------
(***************************************************************************)
(* The agents of the process and the calls of the library (agent/core.c),  *)
(* with the life of the log file (agent/log.c).                            *)
(*                                                                         *)
(* A wrapper thread starts, terminates and uses agents; an agent has two   *)
(* threads of its own, and the callbacks on its scheduler thread use the   *)
(* library as well: an agent's address also names that thread here.  What  *)
(* the two threads do is in Sched and Link; here they run, are told to     *)
(* stop, and end.                                                          *)
(*                                                                         *)
(* Any wrapper thread may call anything at any time, em_stop included.     *)
(* What the code does then is not always defined: em_stop may take the     *)
(* first entry of an empty list, and a message may be written to a log     *)
(* that is not open.  The model says that this happens, and nothing of     *)
(* what comes after (variable defined).                                    *)
(*                                                                         *)
(* The environment: a callback starts, stops and terminates no agent,      *)
(* pthread_create and fopen do not fail, and ops is not null.              *)
(***************************************************************************)
EXTENDS Integers, Sequences, SequencesExt

CONSTANTS Caller,  \* threads of the wrapper
          Agent,   \* addresses malloc() may return
          EnbId,   \* identities
          None

ASSUME CoreAssumption ==
    Caller \cap Agent = {} /\ None \notin Caller \cup Agent \cup EnbId

Process == Caller \cup Agent

VARIABLES
    inited,    \* core_init
    log,       \* the log file: "none" before log_init, then "open", "closed"
    agents,    \* the list core_agents
    mem,       \* the allocated agents
    enb,       \* the enb_id of each
    sched,     \* the scheduler thread of each
    net,       \* the network thread of each
    lock,      \* who is in a critical section of core_agents_lock
    pc,        \* where each process is in the library
    want,      \* the enb_id it called with
    local,     \* the agent its local variable points to
    stopping,  \* the callers that are in em_stop
    defined    \* FALSE once the code has done what has no defined result

library == <<inited, log>>
threads == <<sched, net>>
call    == <<pc, want, local>>
vars    == <<library, agents, mem, enb, threads, lock, call, stopping, defined>>

Init == /\ inited = FALSE /\ log = "none"
        /\ agents = <<>> /\ mem = {}
        /\ enb = [a \in Agent |-> None]
        /\ sched = [a \in Agent |-> "none"] /\ net = [a \in Agent |-> "none"]
        /\ lock = None
        /\ pc = [p \in Process |-> "out"]
        /\ want = [p \in Process |-> None]
        /\ local = [p \in Process |-> None]
        /\ stopping = {} /\ defined = TRUE

Goto(p, to) == pc' = [pc EXCEPT ![p] = to]
Step(p, from, to) == pc[p] = from /\ Goto(p, to)

\* The process returns from the library.
Leave(p) == /\ Goto(p, "out")
            /\ want' = [want EXCEPT ![p] = None]
            /\ local' = [local EXCEPT ![p] = None]

\* The process goes on with agent a.
Take(p, to, a) == /\ Goto(p, to)
                  /\ local' = [local EXCEPT ![p] = a]
                  /\ want' = [want EXCEPT ![p] = None]

\* A call comes from a wrapper thread.
Calls(c, to, i) == Step(c, "out", to) /\ want' = [want EXCEPT ![c] = i]

\* The place of the agent a search for the identity i finds: the first.
Places(i) == {k \in DOMAIN agents : enb[agents[k]] = i}
IsFirst(k, i) == k \in Places(i) /\ \A j \in Places(i) : k <= j

-----------------------------------------------------------------------------
(* em_start *)

\* Fault: the log is not opened.
StartCallNoLog(c, i) ==
    /\ Calls(c, "s_look", i)
    /\ inited' = TRUE
    /\ UNCHANGED <<log, agents, mem, enb, threads, lock, local, stopping, defined>>

\* core_initialize, under core_main_lock: the log is opened once.
StartCall(c, i) ==
    /\ Calls(c, "s_look", i)
    /\ inited' = TRUE
    /\ log' = IF inited THEN log ELSE "open"
    /\ UNCHANGED <<agents, mem, enb, threads, lock, local, stopping, defined>>

\* The list is searched for the identity, in a critical section of its own.
FindTwin(c) ==
    /\ lock = None
    /\ Step(c, "s_look", IF Places(want[c]) = {} THEN "s_alloc" ELSE "s_twin")
    /\ UNCHANGED <<library, agents, mem, enb, threads, lock, want, local, stopping, defined>>

\* "Agent eNB %d is already running..." is logged, and -1 returned.
LogTwin(c) ==
    /\ pc[c] = "s_twin" /\ log = "open"
    /\ Leave(c)
    /\ UNCHANGED <<library, agents, mem, enb, threads, lock, stopping, defined>>

\* malloc and the initialisation of the fields.
AllocAgent(c) ==
    /\ pc[c] = "s_alloc"
    /\ \E a \in Agent \ mem :
          /\ mem' = mem \cup {a}
          /\ enb' = [enb EXCEPT ![a] = want[c]]
          /\ Take(c, "s_sched", a)
    /\ UNCHANGED <<library, agents, threads, lock, stopping, defined>>

\* Fault: the agent is used although there is none.
AllocUntested(c) ==
    /\ Step(c, "s_alloc", "s_sched")
    /\ want' = [want EXCEPT ![c] = None]
    /\ UNCHANGED <<library, agents, mem, enb, threads, lock, local, stopping, defined>>

AllocFails(c) ==
    /\ pc[c] = "s_alloc"
    /\ Leave(c)
    /\ UNCHANGED <<library, agents, mem, enb, threads, lock, stopping, defined>>

SchedStart(c) ==
    /\ Step(c, "s_sched", "s_net")
    /\ sched' = [sched EXCEPT ![local[c]] = "run"]
    /\ UNCHANGED <<library, agents, mem, enb, net, lock, want, local, stopping, defined>>

NetStart(c) ==
    /\ Step(c, "s_net", "s_init")
    /\ net' = [net EXCEPT ![local[c]] = "run"]
    /\ UNCHANGED <<library, agents, mem, enb, sched, lock, want, local, stopping, defined>>

\* ops->init() succeeds, or is not given ...
InitSucceeds(c) ==
    /\ Step(c, "s_init", "s_add")
    /\ UNCHANGED <<library, agents, mem, enb, threads, lock, want, local, stopping, defined>>

\* ... or fails: the agent is released.
InitFails(c) ==
    /\ Step(c, "s_init", "r_sched")
    /\ UNCHANGED <<library, agents, mem, enb, threads, lock, want, local, stopping, defined>>

\* list_add, in a second critical section.
ListAdd(c) ==
    /\ lock = None
    /\ pc[c] = "s_add"
    /\ agents' = <<local[c]>> \o agents
    /\ Leave(c)
    /\ UNCHANGED <<library, mem, enb, threads, lock, stopping, defined>>

Start(c) == \/ FindTwin(c) \/ LogTwin(c) \/ AllocAgent(c) \/ AllocFails(c)
            \/ SchedStart(c) \/ NetStart(c) \/ InitSucceeds(c) \/ InitFails(c)
            \/ ListAdd(c)

-----------------------------------------------------------------------------
(* em_terminate_agent and core_release_agent *)

TerminateCall(c, i) ==
    /\ Calls(c, "t_lock", i)
    /\ UNCHANGED <<library, agents, mem, enb, threads, lock, local, stopping, defined>>

\* Fault: the agent stays on the list.
DetachKeepsIt(c) ==
    /\ lock = None
    /\ pc[c] = "t_lock"
    /\ \/ Places(want[c]) = {} /\ Leave(c)
       \/ \E k \in DOMAIN agents : IsFirst(k, want[c]) /\ Take(c, "t_ops", agents[k])
    /\ UNCHANGED <<library, agents, mem, enb, threads, lock, stopping, defined>>

\* The first agent with the identity leaves the list, if there is one.
Detach(c) ==
    /\ lock = None
    /\ pc[c] = "t_lock"
    /\ \/ /\ Places(want[c]) = {}
          /\ Leave(c)
          /\ UNCHANGED agents
       \/ \E k \in DOMAIN agents :
             /\ IsFirst(k, want[c])
             /\ Take(c, "t_ops", agents[k])
             /\ agents' = RemoveAt(agents, k)
    /\ UNCHANGED <<library, mem, enb, threads, lock, stopping, defined>>

\* ops->release(), while the threads of the agent still run.
ReleaseOps(c) ==
    /\ Step(c, "t_ops", "r_sched")
    /\ UNCHANGED <<library, agents, mem, enb, threads, lock, want, local, stopping, defined>>

\* Fault: the thread is waited for, but not told.
TellSchedNothing(c) ==
    /\ Step(c, "r_sched", "r_joins")
    /\ UNCHANGED <<library, agents, mem, enb, threads, lock, want, local, stopping, defined>>

\* sched_stop: the flag ...
TellSched(c) ==
    /\ Step(c, "r_sched", "r_joins")
    /\ sched' = [sched EXCEPT ![local[c]] = "told"]
    /\ UNCHANGED <<library, agents, mem, enb, net, lock, want, local, stopping, defined>>

\* Fault: the thread is not waited for.
JoinSchedUntested(c) ==
    /\ Step(c, "r_joins", "r_net")
    /\ UNCHANGED <<library, agents, mem, enb, threads, lock, want, local, stopping, defined>>

\* ... and pthread_join.
JoinSched(c) ==
    /\ Step(c, "r_joins", "r_net")
    /\ sched[local[c]] = "ended"
    /\ UNCHANGED <<library, agents, mem, enb, threads, lock, want, local, stopping, defined>>

\* net_stop: the flag ...
TellNet(c) ==
    /\ Step(c, "r_net", "r_joinn")
    /\ net' = [net EXCEPT ![local[c]] = "told"]
    /\ UNCHANGED <<library, agents, mem, enb, sched, lock, want, local, stopping, defined>>

\* ... and pthread_join.
JoinNet(c) ==
    /\ Step(c, "r_joinn", "r_free")
    /\ net[local[c]] = "ended"
    /\ UNCHANGED <<library, agents, mem, enb, threads, lock, want, local, stopping, defined>>

\* trig_flush and free(agent).  em_stop goes on with its loop.
FreeAgent(c) ==
    /\ pc[c] = "r_free"
    /\ LET a == local[c] IN
          /\ mem' = mem \ {a}
          /\ enb' = [enb EXCEPT ![a] = None]
          /\ sched' = [sched EXCEPT ![a] = "none"]
          /\ net' = [net EXCEPT ![a] = "none"]
    /\ Goto(c, IF c \in stopping THEN "x_test" ELSE "out")
    /\ local' = [local EXCEPT ![c] = None]
    /\ UNCHANGED <<library, agents, lock, want, stopping, defined>>

Release(c) == \/ ReleaseOps(c)
              \/ TellSched(c) \/ JoinSched(c) \/ TellNet(c) \/ JoinNet(c)
              \/ FreeAgent(c)

-----------------------------------------------------------------------------
(* em_stop *)

StopCall(c) ==
    /\ Step(c, "out", "x_test")
    /\ stopping' = stopping \cup {c}
    /\ UNCHANGED <<library, agents, mem, enb, threads, lock, want, local, defined>>

\* list_empty, without the lock.
StopTest(c) ==
    /\ Step(c, "x_test", IF agents = <<>> THEN "x_log" ELSE "x_lock")
    /\ UNCHANGED <<library, agents, mem, enb, threads, lock, want, local, stopping, defined>>

\* list_first_entry and list_del, with it.
StopDetach(c) ==
    /\ lock = None
    /\ pc[c] = "x_lock" /\ agents # <<>>
    /\ Take(c, "t_ops", Head(agents))
    /\ agents' = Tail(agents)
    /\ UNCHANGED <<library, mem, enb, threads, lock, stopping, defined>>

\* In an empty list they take the head of the list for an agent.
StopTakesHead(c) ==
    /\ lock = None
    /\ pc[c] = "x_lock" /\ agents = <<>>
    /\ defined' = FALSE
    /\ UNCHANGED <<library, agents, mem, enb, threads, lock, call, stopping>>

\* "Core shut down" is logged ...
StopLog(c) ==
    /\ log = "open"
    /\ Step(c, "x_log", "x_test_fd")
    /\ UNCHANGED <<library, agents, mem, enb, threads, lock, want, local, stopping, defined>>

\* ... and log_release called, which does nothing if the log is not open ...
LogReleased(c) ==
    /\ pc[c] = "x_test_fd" /\ log # "open"
    /\ Leave(c)
    /\ stopping' = stopping \ {c}
    /\ UNCHANGED <<library, agents, mem, enb, threads, lock, defined>>

LogTest(c) ==
    /\ log = "open"
    /\ Step(c, "x_test_fd", "x_close")
    /\ UNCHANGED <<library, agents, mem, enb, threads, lock, want, local, stopping, defined>>

\* ... and else closes it.
LogRelease(c) ==
    /\ pc[c] = "x_close" /\ log = "open"
    /\ log' = "closed"
    /\ Leave(c)
    /\ stopping' = stopping \ {c}
    /\ UNCHANGED <<inited, agents, mem, enb, threads, lock, defined>>

\* Another em_stop has closed it after the test.
LogClosedTwice(c) ==
    /\ pc[c] = "x_close" /\ log # "open"
    /\ defined' = FALSE
    /\ UNCHANGED <<library, agents, mem, enb, threads, lock, call, stopping>>

Stop(c) == \/ StopTest(c) \/ StopDetach(c) \/ StopTakesHead(c) \/ StopLog(c)
           \/ LogReleased(c) \/ LogTest(c) \/ LogRelease(c) \/ LogClosedTwice(c)

-----------------------------------------------------------------------------
(* em_has_trigger, em_del_trigger, em_is_connected, em_send *)

\* One of them is called by the wrapper ...
UseCall(c, i) ==
    /\ Calls(c, "u_lock", i)
    /\ UNCHANGED <<library, agents, mem, enb, threads, lock, local, stopping, defined>>

\* ... or by a callback on the scheduler thread of agent a.
UseInCallback(a, i) ==
    /\ sched[a] \in {"run", "told"}
    /\ Step(a, "out", "u_lock")
    /\ want' = [want EXCEPT ![a] = i]
    /\ UNCHANGED <<library, agents, mem, enb, threads, lock, local, stopping, defined>>

\* Fault: the lock is given back before the agent is used.
UseFindUnlocked(p) ==
    /\ lock = None
    /\ pc[p] = "u_lock"
    /\ \/ Places(want[p]) = {} /\ Leave(p)
       \/ \E k \in DOMAIN agents : IsFirst(k, want[p]) /\ Take(p, "u_use", agents[k])
    /\ UNCHANGED <<library, agents, mem, enb, threads, lock, stopping, defined>>

\* agents_lock, and the agent is looked for ...
UseFind(p) ==
    /\ lock = None
    /\ pc[p] = "u_lock"
    /\ \/ /\ Places(want[p]) = {}
          /\ Leave(p)
          /\ UNCHANGED lock
       \/ \E k \in DOMAIN agents :
             /\ IsFirst(k, want[p])
             /\ Take(p, "u_use", agents[k])
             /\ lock' = p
    /\ UNCHANGED <<library, agents, mem, enb, threads, stopping, defined>>

\* ... and used (its triggers, its status, its queue); agents_unlock.
UseDone(p) ==
    /\ pc[p] = "u_use"
    /\ lock' = None
    /\ Leave(p)
    /\ UNCHANGED <<library, agents, mem, enb, threads, stopping, defined>>

Use(p) == UseFind(p) \/ UseDone(p)

-----------------------------------------------------------------------------
(* The threads of the agents *)

\* The scheduler thread ends, outside any callback.
SchedEnds(a) ==
    /\ sched[a] = "told" /\ pc[a] = "out"
    /\ sched' = [sched EXCEPT ![a] = "ended"]
    /\ UNCHANGED <<library, agents, mem, enb, net, lock, call, stopping, defined>>

NetEnds(a) ==
    /\ net[a] = "told"
    /\ net' = [net EXCEPT ![a] = "ended"]
    /\ UNCHANGED <<library, agents, mem, enb, sched, lock, call, stopping, defined>>

Running(a) == sched[a] \in {"run", "told"} \/ net[a] \in {"run", "told"}

\* Where log_message is called: by a refused em_start and by em_stop, by a call
\* that has found an agent (core_send), and by the threads of an agent.
Writes(p) == \/ pc[p] \in {"s_twin", "x_log", "u_use"}
             \/ p \in Agent /\ Running(p)

\* log_message does not test log_fd.
LogToNothing(p) ==
    /\ Writes(p) /\ log # "open"
    /\ defined' = FALSE
    /\ UNCHANGED <<library, agents, mem, enb, threads, lock, call, stopping>>

\* What comes after an undefined result is not modelled.
Undefined == ~defined /\ UNCHANGED vars

CallerStep(c) ==
    \/ \E i \in EnbId : StartCall(c, i) \/ TerminateCall(c, i) \/ UseCall(c, i)
    \/ StopCall(c)
    \/ Start(c) \/ Detach(c) \/ Release(c) \/ Stop(c)

AgentStep(a) == \/ \E i \in EnbId : UseInCallback(a, i)
                \/ SchedEnds(a) \/ NetEnds(a)

Next == \/ /\ defined
           /\ \/ \E c \in Caller : CallerStep(c)
              \/ \E a \in Agent : AgentStep(a)
              \/ \E p \in Process : Use(p) \/ LogToNothing(p)
        \/ Undefined

Spec == Init /\ [][Next]_vars

\* A process in the library goes on, and gets the lock though others take it
\* again and again (they hold it for the length of a search).  A scheduler
\* thread that has been told to stop does so between two callbacks: its
\* rounds end (StopJoins of Sched).  A network thread that has been told to
\* stop does so (StopEnds of Link).  Nobody has to call the library.
InLibrary(c) == \/ Start(c) \/ Detach(c) \/ Release(c) \/ Stop(c) \/ Use(c)
                \/ LogToNothing(c)

Fairness == /\ \A c \in Caller : SF_vars(defined /\ InLibrary(c))
            /\ \A a \in Agent : /\ SF_vars(defined /\ Use(a))
                                /\ SF_vars(defined /\ SchedEnds(a))
                                /\ WF_vars(defined /\ NetEnds(a))

LiveSpec == Spec /\ Fairness

-----------------------------------------------------------------------------
(* Properties *)

Building  == {"s_sched", "s_net", "s_init", "s_add"}
Releasing == {"t_ops", "r_sched", "r_joins", "r_net", "r_joinn", "r_free"}
Searching == {"s_look", "s_alloc", "t_lock", "u_lock"}
Stopping  == {"x_test", "x_lock", "x_log", "x_test_fd", "x_close"}

\* A caller that has an agent in hand, which it builds or releases.
Holds(c) == pc[c] \in Building \cup Releasing

\* Every variable has its type; a process knows what it is in the library for;
\* an agent has an identity as long as it exists.
TypeOK ==
    /\ inited \in BOOLEAN /\ log \in {"none", "open", "closed"}
    /\ agents \in Seq(Agent) /\ mem \subseteq Agent
    /\ enb \in [Agent -> EnbId \cup {None}]
    /\ \A a \in Agent : enb[a] # None <=> a \in mem
    /\ sched \in [Agent -> {"none", "run", "told", "ended"}]
    /\ net \in [Agent -> {"none", "run", "told", "ended"}]
    /\ lock \in Process \cup {None} /\ stopping \subseteq Caller /\ defined \in BOOLEAN
    /\ pc \in [Process -> Searching \cup Building \cup Releasing \cup Stopping
                              \cup {"out", "s_twin", "u_use"}]
    /\ want \in [Process -> EnbId \cup {None}]
    /\ local \in [Process -> Agent \cup {None}]
    /\ \A p \in Process :
          /\ local[p] # None <=> pc[p] \in Building \cup Releasing \cup {"u_use"}
          /\ pc[p] \in Searching => want[p] # None
          /\ pc[p] \in Stopping => p \in stopping
    /\ \A a \in Agent : pc[a] \in {"out", "u_lock", "u_use"}

\* An agent that exists is on the list once, or in the hands of one caller
\* that builds or releases it, whatever starts, stops and failures cross; the
\* list holds no agent that was freed.
AgentOwnership ==
    /\ IsInjective(agents)
    /\ \A c, d \in Caller : Holds(c) /\ Holds(d) /\ local[c] = local[d] => c = d
    /\ \A c \in Caller : Holds(c) => local[c] \notin ToSet(agents)
    /\ \A a \in Agent : a \in mem <=> \/ a \in ToSet(agents)
                                     \/ \E c \in Caller : Holds(c) /\ local[c] = a

\* Nobody works on a freed agent: a thread of an agent runs only as long as
\* it exists, a callback is one of such a thread, and a call that has found an
\* agent finds it on the list until it gives the lock back.
NoUseAfterFree ==
    /\ \A a \in Agent : Running(a) => a \in mem
    /\ \A a \in Agent : pc[a] # "out" => sched[a] \in {"run", "told"}
    /\ \A p \in Process : pc[p] = "u_use" => local[p] \in ToSet(agents)

\* Only em_stop "can harm all the running agents" (core.c:623-624): until it is
\* called, whatever starts, terminations, uses and callbacks cross has a defined
\* result.  (The log is closed by an em_stop only.)
OnlyStopHarms == ~defined => stopping # {} \/ log = "closed"

\* What the threads of an agent do follows from where the agent is: they run
\* as long as it is on the list, and stop one after the other in the hands of
\* the caller that releases it.
ThreadStates ==
    /\ \A a \in Agent \ mem : sched[a] = "none" /\ net[a] = "none"
    /\ \A a \in ToSet(agents) : sched[a] = "run" /\ net[a] = "run"
    /\ \A c \in Caller :
          LET s == sched[local[c]]
              n == net[local[c]]
          IN  /\ pc[c] = "s_sched" => s = "none"
              /\ pc[c] \in {"s_sched", "s_net"} => n = "none"
              /\ pc[c] \in {"s_net", "s_init", "s_add", "t_ops", "r_sched"} => s = "run"
              /\ pc[c] \in {"s_init", "s_add", "t_ops", "r_sched", "r_joins", "r_net"} => n = "run"
              /\ pc[c] = "r_joins" => s \in {"told", "ended"}
              /\ pc[c] \in {"r_net", "r_joinn", "r_free"} => s = "ended"
              /\ pc[c] = "r_joinn" => n \in {"told", "ended"}
              /\ pc[c] = "r_free" => n = "ended"

\* The lock is held by the one process that uses an agent.
LockHolder == \A p \in Process : lock = p <=> pc[p] = "u_use"

\* The log is opened by the first start.
LogStates ==
    /\ inited <=> log # "none"
    /\ mem # {} => inited
    /\ \A c \in Caller : pc[c] \in {"s_look", "s_alloc", "s_twin"} => inited

\* Whoever may write to the log, but for an em_stop, does so after log_init: the
\* threads of the agents, a refused em_start, a call that uses an agent.
AfterLogInit ==
    (\E p \in Process : Writes(p) /\ pc[p] # "x_log") => log # "none"

\* em_stop is where it says it is, also while it releases an agent.
StopStates == \A c \in stopping : pc[c] \in Stopping \cup Releasing

\* The inductive invariant.
IInv == /\ TypeOK /\ AgentOwnership /\ NoUseAfterFree /\ OnlyStopHarms
        /\ ThreadStates /\ LockHolder /\ LogStates /\ AfterLogInit /\ StopStates

\* Every call returns, although a release waits for a thread whose callbacks
\* call the library and wait for the same lock.
\* An em_stop is kept busy as long as others go on to add agents, and nothing is
\* said of the time after an undefined result.
CallsReturn ==
    \A c \in Caller :
        pc[c] # "out" ~> \/ pc[c] = "out"
                         \/ ~defined
                         \/ c \in stopping /\ \E d \in Caller : pc[d] = "s_add"

\* There is one agent for an identity ("Find if an agent with the same id is
\* already there", core.c:532).
OneAgentPerIdentity ==
    \A j, k \in DOMAIN agents : enb[agents[j]] = enb[agents[k]] => j = k

\* em_stop takes the first entry of a list that has one ("Note, that list is
\* expected to be not empty", of list_first_entry, emlist.h:408).
FirstOfSome == \A c \in Caller : pc[c] = "x_lock" /\ lock = None => agents # <<>>
=============================================================================
