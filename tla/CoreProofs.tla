----------------------------- MODULE CoreProofs -----------------------------
(***************************************************************************)
(* Theorems about Core, for any wrapper threads, addresses and identities. *)
(***************************************************************************)
EXTENDS Core, ListLemmas

LEMMA InitIInv == Init => IInv
PROOF
<1> SUFFICES ASSUME Init PROVE IInv
  OBVIOUS
<1>1. ToSet(<<>>) = {} /\ IsInjective(<<>>) /\ <<>> \in Seq(Agent)
  BY EmptyList
<1>2. /\ ToSet(agents) = {} /\ IsInjective(agents) /\ agents \in Seq(Agent)
      /\ \A p \in Process : pc[p] = "out"
  BY <1>1 DEF Init
<1> USE CoreAssumption DEF Init, Process
<1>3. TypeOK
  BY <1>2 DEF TypeOK, Building, Releasing, Searching, Stopping
<1>4. AgentOwnership /\ NoUseAfterFree
  BY <1>2 DEF AgentOwnership, NoUseAfterFree, Holds, Building, Releasing, Running
<1>5. AfterLogInit /\ OnlyStopHarms
  BY <1>2 DEF AfterLogInit, Writes, Running, OnlyStopHarms
<1>6. ThreadStates /\ LockHolder /\ LogStates /\ StopStates
  BY <1>2 DEF ThreadStates, LockHolder, LogStates, StopStates, Stopping
<1> QED BY <1>3, <1>4, <1>5, <1>6 DEF IInv

-----------------------------------------------------------------------------
(* Each step keeps the inductive invariant.  An agent moves between malloc, *)
(* the hands of a caller and the list, and its threads with it.             *)

USE CoreAssumption DEF IInv, TypeOK, AgentOwnership, NoUseAfterFree, AfterLogInit, OnlyStopHarms,
    ThreadStates, LockHolder, LogStates, StopStates,
    Holds, Building, Releasing, Searching, Stopping, Running, Writes, Process,
    library, threads, call, Goto, Step, Leave, Take, Calls

\* The code has done what has no defined result: nothing else changes.
LEMMA UndefinedStep ==
    ASSUME IInv, defined' = FALSE, stopping # {} \/ log = "closed",
           UNCHANGED <<library, agents, mem, enb, threads, lock, call, stopping>>
    PROVE  IInv'
PROOF
<1> HIDE DEF IInv, TypeOK, AgentOwnership, NoUseAfterFree, AfterLogInit, OnlyStopHarms,
             ThreadStates, LockHolder, LogStates, StopStates
<1>1. TypeOK'
  BY DEF IInv, TypeOK
<1>2. AgentOwnership' /\ NoUseAfterFree'
  BY DEF IInv, AgentOwnership, NoUseAfterFree
<1>3. AfterLogInit' /\ ThreadStates' /\ OnlyStopHarms'
  BY DEF IInv, AfterLogInit, ThreadStates, OnlyStopHarms
<1>4. LockHolder' /\ LogStates' /\ StopStates'
  BY DEF IInv, LockHolder, LogStates, StopStates
<1> QED BY <1>1, <1>2, <1>3, <1>4 DEF IInv

\* A process returns from the library, and nothing else changes.
LEMMA LeaveStep ==
    ASSUME IInv, NEW p \in Process, pc[p] \in Searching, Leave(p),
           UNCHANGED <<library, agents, mem, enb, threads, lock, stopping, defined>>
    PROVE  IInv'
PROOF
<1> HIDE DEF IInv, AgentOwnership, NoUseAfterFree, AfterLogInit, OnlyStopHarms,
             ThreadStates, LockHolder, LogStates, StopStates
<1>1. TypeOK
  BY DEF IInv
<1>2. TypeOK'
  BY <1>1
<1>3. AgentOwnership' /\ NoUseAfterFree'
  BY <1>1 DEF IInv, AgentOwnership, NoUseAfterFree
<1>4. AfterLogInit' /\ LogStates' /\ OnlyStopHarms'
  BY <1>1 DEF IInv, AfterLogInit, LogStates, OnlyStopHarms
<1>5. ThreadStates'
  BY <1>1 DEF IInv, ThreadStates
<1>6. LockHolder' /\ StopStates'
  BY <1>1 DEF IInv, LockHolder, StopStates
<1> QED BY <1>2, <1>3, <1>4, <1>5, <1>6 DEF IInv

\* A call comes in: it gets its identity, and no agent.
LEMMA CallStep ==
    ASSUME IInv, NEW c \in Caller, NEW i \in EnbId,
           StartCall(c, i) \/ TerminateCall(c, i) \/ UseCall(c, i)
    PROVE  IInv'
PROOF
<1>1. CASE StartCall(c, i) BY <1>1 DEF StartCall
<1>2. CASE TerminateCall(c, i) BY <1>2 DEF TerminateCall
<1>3. CASE UseCall(c, i) BY <1>3 DEF UseCall
<1> QED BY <1>1, <1>2, <1>3

\* em_start: the new agent is in the caller's hands until list_add.
LEMMA StartStep == ASSUME IInv, NEW c \in Caller, Start(c) PROVE IInv'
PROOF
<1>1. CASE FindTwin(c) BY <1>1 DEF FindTwin
<1>2. CASE LogTwin(c) BY <1>2 DEF LogTwin
<1>3. CASE AllocAgent(c) BY <1>3 DEF AllocAgent
<1>4. CASE AllocFails(c) BY <1>4 DEF AllocFails
<1>5. CASE SchedStart(c) BY <1>5 DEF SchedStart
<1>6. CASE NetStart(c) BY <1>6 DEF NetStart
<1>7. CASE InitSucceeds(c) BY <1>7 DEF InitSucceeds
<1>8. CASE InitFails(c) BY <1>8 DEF InitFails
<1>9. CASE ListAdd(c)
  <2>1. /\ agents' \in Seq(Agent) /\ IsInjective(agents')
        /\ ToSet(agents') = ToSet(agents) \cup {local[c]}
    BY <1>9, PushLemma DEF ListAdd
  <2> QED BY <1>9, <2>1 DEF ListAdd
<1> QED BY <1>1, <1>2, <1>3, <1>4, <1>5, <1>6, <1>7, <1>8, <1>9 DEF Start

\* em_terminate_agent: an agent goes from the list to the caller's hands.
LEMMA DetachStep == ASSUME IInv, NEW c \in Caller, Detach(c) PROVE IInv'
PROOF
<1>1. /\ lock = None /\ pc[c] = "t_lock"
      /\ UNCHANGED <<library, mem, enb, threads, lock, stopping, defined>>
  BY DEF Detach
<1>2. CASE Leave(c) /\ UNCHANGED agents
  <2>1. pc[c] \in Searching /\ c \in Process
    BY <1>1
  <2> HIDE DEF IInv, Leave, Searching
  <2> QED BY <1>1, <1>2, <2>1, LeaveStep
<1>3. ASSUME NEW a \in Agent, Take(c, "t_ops", a), a \in ToSet(agents),
             agents' \in Seq(Agent), IsInjective(agents'), ToSet(agents') = ToSet(agents) \ {a}
      PROVE  IInv'
  BY <1>1, <1>3
<1>4. ASSUME NEW k \in DOMAIN agents, Take(c, "t_ops", agents[k]), agents' = RemoveAt(agents, k)
      PROVE  IInv'
  <2>1. agents \in Seq(Agent) /\ IsInjective(agents) /\ agents[k] \in Agent
    OBVIOUS
  <2>2. /\ agents' \in Seq(Agent) /\ IsInjective(agents')
        /\ ToSet(agents') = ToSet(agents) \ {agents[k]}
        /\ agents[k] \in ToSet(agents)
    BY ONLY <1>4, <2>1, DeleteLemma
  <2> HIDE DEF IInv, Take
  <2> QED BY <1>3, <1>4, <2>1, <2>2
<1> HIDE DEF IInv, Take, Leave
<1> QED BY <1>2, <1>4 DEF Detach

\* core_release_agent: the threads end one after the other, then the agent.
LEMMA ReleaseStep == ASSUME IInv, NEW c \in Caller, Release(c) PROVE IInv'
PROOF
<1>1. CASE ReleaseOps(c) BY <1>1 DEF ReleaseOps
<1>2. CASE TellSched(c) BY <1>2 DEF TellSched
<1>3. CASE JoinSched(c) BY <1>3 DEF JoinSched
<1>4. CASE TellNet(c) BY <1>4 DEF TellNet
<1>5. CASE JoinNet(c) BY <1>5 DEF JoinNet
<1>6. CASE FreeAgent(c) BY <1>6 DEF FreeAgent
<1> QED BY <1>1, <1>2, <1>3, <1>4, <1>5, <1>6 DEF Release

\* em_stop: an agent goes from the list to its hands, if there still is one.
LEMMA StopStep == ASSUME IInv, defined, NEW c \in Caller, StopCall(c) \/ Stop(c) PROVE IInv'
PROOF
<1>1. CASE StopCall(c) BY <1>1 DEF StopCall
<1>2. CASE StopTest(c) BY <1>2 DEF StopTest
<1>3. CASE StopDetach(c)
  <2>1. /\ lock = None /\ pc[c] = "x_lock" /\ agents # <<>>
        /\ UNCHANGED <<library, mem, enb, threads, lock, stopping, defined>>
    BY <1>3 DEF StopDetach
  <2>2. PICK a \in Agent : /\ Take(c, "t_ops", a)
                           /\ agents' \in Seq(Agent) /\ IsInjective(agents')
                           /\ ToSet(agents) = ToSet(agents') \cup {a}
                           /\ a \notin ToSet(agents')
    <3>1. agents \in Seq(Agent) /\ IsInjective(agents)
      OBVIOUS
    <3> HIDE DEF IInv, Take
    <3>2. Take(c, "t_ops", Head(agents)) /\ agents' = Tail(agents)
      BY <1>3, <2>1 DEF StopDetach
    <3> QED BY ONLY <2>1, <3>1, <3>2, TailLemma
  <2> QED BY <2>1, <2>2
<1>4. CASE StopLog(c) BY <1>4 DEF StopLog
<1>5. CASE StopTakesHead(c) \/ LogClosedTwice(c)
  <2>1. c \in stopping
    BY <1>5 DEF StopTakesHead, LogClosedTwice
  <2> HIDE DEF IInv
  <2> QED BY <1>5, <2>1, UndefinedStep DEF StopTakesHead, LogClosedTwice
<1>6. CASE LogReleased(c)
  <2> USE <1>6 DEF LogReleased
  <2> HIDE DEF IInv, AgentOwnership, NoUseAfterFree, AfterLogInit, OnlyStopHarms,
               ThreadStates, LockHolder, LogStates, StopStates
  <2>1. TypeOK
    BY DEF IInv
  <2>2. TypeOK'
    BY <2>1
  <2>3. AgentOwnership' /\ NoUseAfterFree'
    BY <2>1 DEF IInv, AgentOwnership, NoUseAfterFree
  <2>4. OnlyStopHarms' /\ AfterLogInit' /\ LogStates'
    BY <2>1 DEF IInv, OnlyStopHarms, AfterLogInit, LogStates
  <2>5. ThreadStates'
    BY <2>1 DEF IInv, ThreadStates
  <2>6. LockHolder' /\ StopStates'
    BY <2>1 DEF IInv, LockHolder, StopStates
  <2> QED BY <2>2, <2>3, <2>4, <2>5, <2>6 DEF IInv
<1>7. CASE LogTest(c) BY <1>7 DEF LogTest
<1>8. CASE LogRelease(c) BY <1>8 DEF LogRelease
<1> QED BY <1>1, <1>2, <1>3, <1>4, <1>5, <1>6, <1>7, <1>8 DEF Stop

\* The calls that use an agent: the lock keeps it on the list.
LEMMA UseStep == ASSUME IInv, NEW p \in Process, Use(p) PROVE IInv'
PROOF
<1>1. CASE UseDone(p) BY <1>1 DEF UseDone
<1>2. CASE UseFind(p)
  <2>1. /\ lock = None /\ pc[p] = "u_lock"
        /\ UNCHANGED <<library, agents, mem, enb, threads, stopping, defined>>
    BY <1>2 DEF UseFind
  <2>2. CASE Leave(p) /\ UNCHANGED lock BY <2>1, <2>2
  <2>3. ASSUME NEW k \in DOMAIN agents, Take(p, "u_use", agents[k]), lock' = p
        PROVE  IInv'
    <3>1. agents[k] \in ToSet(agents) /\ agents[k] \in Agent
      BY DEF ToSet
    <3> QED BY <2>1, <2>3, <3>1
  <2> HIDE DEF IInv, Take, Leave
  <2> QED BY <1>2, <2>2, <2>3 DEF UseFind
<1> QED BY <1>1, <1>2 DEF Use

\* The threads of an agent end when they are told to, outside any call.
LEMMA ThreadStep ==
    ASSUME IInv, NEW a \in Agent,
           (\E i \in EnbId : UseInCallback(a, i)) \/ SchedEnds(a) \/ NetEnds(a)
    PROVE  IInv'
PROOF
<1>1. CASE \E i \in EnbId : UseInCallback(a, i) BY <1>1 DEF UseInCallback
<1>2. CASE SchedEnds(a) BY <1>2 DEF SchedEnds
<1>3. CASE NetEnds(a) BY <1>3 DEF NetEnds
<1> QED BY <1>1, <1>2, <1>3

\* A message to a log that is not open: what follows is undefined.
LEMMA LogStep == ASSUME IInv, NEW p \in Process, LogToNothing(p) PROVE IInv'
PROOF
<1>1. log # "open" /\ (pc[p] = "x_log" => p \in stopping)
  BY DEF LogToNothing
<1>2. pc[p] # "x_log" => log # "none"
  BY DEF LogToNothing
<1>3. stopping # {} \/ log = "closed"
  BY <1>1, <1>2
<1> HIDE DEF IInv
<1> QED BY <1>3, UndefinedStep DEF LogToNothing

LEMMA NextIInv == IInv /\ [Next]_vars => IInv'
PROOF
<1> SUFFICES ASSUME IInv, [Next]_vars PROVE IInv'
  OBVIOUS
<1>1. CASE UNCHANGED vars BY <1>1 DEF vars
<1> HIDE DEF IInv
<1>2. CASE Undefined BY <1>1, <1>2 DEF Undefined
<1>3. ASSUME defined, NEW c \in Caller, CallerStep(c) PROVE IInv'
  BY <1>3, CallStep, StartStep, DetachStep, ReleaseStep, StopStep DEF CallerStep
<1>4. ASSUME NEW a \in Agent, AgentStep(a) PROVE IInv'
  BY <1>4, ThreadStep DEF AgentStep
<1>5. ASSUME NEW p \in Process, Use(p) \/ LogToNothing(p) PROVE IInv'
  BY <1>5, UseStep, LogStep
<1> QED BY <1>1, <1>2, <1>3, <1>4, <1>5 DEF Next

-----------------------------------------------------------------------------
(* Theorems *)

\* The inductive invariant of the library holds for any number of wrapper
\* threads and agents.
THEOREM CoreInvariant == Spec => []IInv
PROOF
<1> HIDE DEF IInv
<1> QED BY InitIInv, NextIInv, PTL DEF Spec

\* Every variable keeps its type, and a process in the library has the agent or
\* the identity its place there needs.
THEOREM CoreTypeOK == Spec => []TypeOK
PROOF
<1>1. IInv => TypeOK
  OBVIOUS
<1> QED BY <1>1, CoreInvariant, PTL

\* An agent is on the list once or in the hands of one caller, and freed once.
THEOREM CoreOwnership == Spec => []AgentOwnership
PROOF
<1>1. IInv => AgentOwnership
  OBVIOUS
<1> QED BY <1>1, CoreInvariant, PTL

\* No thread, callback or call works on an agent that was freed.
THEOREM CoreNoUseAfterFree == Spec => []NoUseAfterFree
PROOF
<1>1. IInv => NoUseAfterFree
  OBVIOUS
<1> QED BY <1>1, CoreInvariant, PTL

\* Until em_stop is called, nothing the code does is undefined: no message goes
\* to a log that is not open, whatever calls and callbacks cross.
THEOREM CoreOnlyStopHarms == Spec => []OnlyStopHarms
PROOF
<1>1. IInv => OnlyStopHarms
  OBVIOUS
<1> QED BY <1>1, CoreInvariant, PTL
=============================================================================
