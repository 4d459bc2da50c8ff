----------------------------- MODULE LinkProofs -----------------------------
(***************************************************************************)
(* Theorems about Link, for any set of descriptors and any number of       *)
(* faults.                                                                 *)
(***************************************************************************)
EXTENDS Link, TLAPS

LEMMA InitIInv == Init => IInv
PROOF
<1> SUFFICES ASSUME Init PROVE IInv
  OBVIOUS
<1>1. TypeOK
  <2> USE DEF Init
  <2>1. pc \in [Thread -> NcPc \cup {"top", "open", "connect", "hello", "connected",
                                     "read", "idle", "failed", "alert", "exit"}]
    BY DEF Thread
  <2>2. pc["net"] = "top" /\ pc["sched"] = "idle"
    OBVIOUS
  <2>3. sock \in [Fd -> {"closed", "fresh", "syn", "up", "eof", "reset"}]
    OBVIOUS
  <2>4. reg \in [Thread -> Fd \cup {None}] /\ \A t \in Thread : reg[t] = None
    OBVIOUS
  <2>5. trouble \in 0..MaxTrouble
    BY LinkAssumption
  <2> QED BY <2>1, <2>2, <2>3, <2>4, <2>5 DEF TypeOK, Thread
<1>2. SocketIsGuarded
  BY DEF Init, SocketIsGuarded, Socket
<1> QED BY <1>1, <1>2 DEF IInv

\* None is not a descriptor.
LEMMA NoneIsNoFd == None \notin Fd
PROOF BY LinkAssumption DEF None

\* Where a thread can be.
Places == NcPc \cup {"top", "open", "connect", "hello", "connected", "read", "idle", "failed",
                     "alert", "exit"}

\* A step of one thread leaves the other where it is.
LEMMA StepLemma ==
    ASSUME TypeOK, NEW t \in Thread, NEW to \in Places, Goto(t, to)
    PROVE  /\ pc' \in [Thread -> Places]
           /\ pc'[t] = to
           /\ \A u \in Thread \ {t} : pc'[u] = pc[u]
PROOF BY DEF TypeOK, Goto, Places

\* What a step of a thread in net_not_connected does to the types.
LEMMA NotConnectedType ==
    ASSUME TypeOK, NEW t \in Thread, NotConnected(t)
    PROVE  TypeOK'
PROOF
<1> USE DEF queue
<1>1. CASE NcTest(t)
  <2>1. Goto(t, IF sockfd = None THEN "nc_status" ELSE "nc_close")
    BY <1>1 DEF NcTest
  <2>2. /\ pc' \in [Thread -> Places] /\ \A u \in Thread \ {t} : pc'[u] = pc[u]
        /\ pc'[t] = IF sockfd = None THEN "nc_status" ELSE "nc_close"
    BY <2>1, StepLemma DEF Places, NcPc
  <2>3. reg' \in [Thread -> Fd \cup {None}] /\ reg'[t] = sockfd
        /\ \A u \in Thread \ {t} : reg'[u] = reg[u]
    BY <1>1 DEF NcTest, TypeOK
  <2> QED BY <1>1, <2>2, <2>3 DEF NcTest, TypeOK, Places, NcPc, Thread
<1>2. CASE NcClose(t)
  <2>1. Goto(t, "nc_fd") /\ pc[t] = "nc_close"
    BY <1>2 DEF NcClose, Step
  <2>2. /\ pc' \in [Thread -> Places] /\ \A u \in Thread \ {t} : pc'[u] = pc[u]
        /\ pc'[t] = "nc_fd"
    BY <2>1, StepLemma DEF Places, NcPc
  <2>3. sock' \in [Fd -> {"closed", "fresh", "syn", "up", "eof", "reset"}] /\ again' \in BOOLEAN
    BY <1>2 DEF NcClose, TypeOK
  <2> QED BY <1>2, <2>1, <2>2, <2>3 DEF NcClose, TypeOK, Places, NcPc, Thread
<1>3. CASE NcFd(t)
  <2>1. Goto(t, "nc_status") /\ pc[t] = "nc_fd"
    BY <1>3 DEF NcFd, Step
  <2>2. /\ pc' \in [Thread -> Places] /\ \A u \in Thread \ {t} : pc'[u] = pc[u]
        /\ pc'[t] = "nc_status"
    BY <2>1, StepLemma DEF Places, NcPc
  <2>3. reg' \in [Thread -> Fd \cup {None}] /\ reg'[t] = None
        /\ \A u \in Thread \ {t} : reg'[u] = reg[u]
    BY <1>3 DEF NcFd, TypeOK
  <2> QED BY <1>3, <2>1, <2>2, <2>3 DEF NcFd, TypeOK, Places, NcPc, Thread
<1>4. CASE NcStatus(t)
  <2>1. Goto(t, IF t = "net" THEN "top" ELSE "idle") /\ pc[t] = "nc_status"
    BY <1>4 DEF NcStatus, Step
  <2>2. /\ pc' \in [Thread -> Places] /\ \A u \in Thread \ {t} : pc'[u] = pc[u]
        /\ pc'[t] = IF t = "net" THEN "top" ELSE "idle"
    BY <2>1, StepLemma DEF Places, NcPc
  <2> QED BY <1>4, <2>1, <2>2 DEF NcStatus, TypeOK, Places, NcPc, Thread
<1> QED BY <1>1, <1>2, <1>3, <1>4 DEF NotConnected

\* ... and to what guards the socket.
LEMMA NotConnectedGuard ==
    ASSUME IInv, NEW t \in Thread, NotConnected(t)
    PROVE  SocketIsGuarded'
PROOF
<1> USE NoneIsNoFd DEF IInv, queue
<1>1. CASE NcTest(t)
  BY <1>1 DEF NcTest, Goto, TypeOK, SocketIsGuarded, Socket, GivingUp, Thread
<1>2. CASE NcClose(t)
  <2>1. sockfd' = sockfd /\ (Socket' = Socket \/ Socket' = "closed")
    <3>1. PICK f \in {reg[t], sockfd} :
             IF f \in Fd /\ sock[f] # "closed" THEN sock' = [sock EXCEPT ![f] = "closed"]
                                                ELSE UNCHANGED sock
      BY <1>2 DEF NcClose
    <3>2. CASE f \in Fd /\ sock[f] # "closed"
      BY <1>2, <3>1, <3>2 DEF NcClose, Socket, TypeOK
    <3>3. CASE ~(f \in Fd /\ sock[f] # "closed")
      BY <1>2, <3>1, <3>3 DEF NcClose, Socket
    <3> QED BY <3>2, <3>3
  <2>2. GivingUp("sched") => GivingUp("sched")'
    BY <1>2 DEF NcClose, Step, Goto, TypeOK, GivingUp, Thread
  <2>3. GivingUp("net") => GivingUp("net")'
    BY <1>2 DEF NcClose, Step, Goto, TypeOK, GivingUp, Thread
  <2>4. pc["net"] = "hello" => pc'["net"] = "hello"
    BY <1>2 DEF NcClose, Step, Goto, TypeOK, Thread
  <2> QED BY <1>2, <2>1, <2>2, <2>3, <2>4 DEF NcClose, SocketIsGuarded
<1>3. CASE NcFd(t)
  BY <1>3 DEF NcFd, SocketIsGuarded, Socket
<1>4. CASE NcStatus(t)
  BY <1>4 DEF NcStatus, Step, Goto, TypeOK, SocketIsGuarded, Socket, GivingUp, Thread
<1> QED BY <1>1, <1>2, <1>3, <1>4 DEF NotConnected

\* The steps of the network thread outside net_not_connected.
NetOwn == \/ Top \/ Open \/ OpenFails
          \/ ConnectStarts \/ ConnectAgain \/ ConnectRefused \/ ConnectFails
          \/ ConnectSucceeds \/ ConnectStopped
          \/ QueueHello \/ HelloFails \/ SetConnected
          \/ ReadStopped \/ ReadNothing \/ ReadMessage \/ ReadFails \/ ReadEof
          \/ ResolveFails \/ ReadTooShort

\* ... and those of the scheduler thread.
SchedOwn == SendSucceeds \/ SendFails \/ SendBlocked \/ Flush \/ Alert \/ SchedExit

\* ... and those of everybody else.
OthersOwn == \/ EmSend \/ StopSched \/ Owner \/ Stopped
             \/ \E f \in Fd, how \in {"eof", "reset"} : Lose(f, how)

\* A step of the network thread outside net_not_connected neither starts from
\* it nor ends in its middle.
LEMMA NetOwnPlaces ==
    ASSUME TypeOK, NetOwn
    PROVE  /\ pc["net"] \in {"top", "open", "connect", "hello", "connected", "read"}
           /\ pc' \in [Thread -> Places]
           /\ pc'["net"] \in {"top", "open", "connect", "hello", "connected", "read", "exit",
                              "nc_test"}
           /\ pc'["sched"] = pc["sched"]
           /\ UNCHANGED reg
PROOF
<1> USE DEF TypeOK, Step, Goto, Thread, Places, NcPc, queue
<1>1. CASE Top \/ Open \/ OpenFails \/ ResolveFails
  BY <1>1 DEF Top, Open, OpenFails, ResolveFails
<1>2. CASE ConnectStarts \/ ConnectAgain \/ ConnectRefused \/ ConnectFails
  BY <1>2 DEF ConnectStarts, ConnectAgain, ConnectRefused, ConnectFails
<1>3. CASE ConnectSucceeds \/ ConnectStopped
  BY <1>3 DEF ConnectSucceeds, ConnectStopped
<1>4. CASE QueueHello \/ HelloFails \/ SetConnected
  BY <1>4 DEF QueueHello, HelloFails, SetConnected
<1>5. CASE ReadStopped \/ ReadNothing \/ ReadMessage \/ ReadTooShort \/ ReadFails \/ ReadEof
  BY <1>5 DEF ReadStopped, ReadNothing, ReadMessage, ReadFails, ReadEof,
      ReadTooShort
<1> QED BY <1>1, <1>2, <1>3, <1>4, <1>5 DEF NetOwn

LEMMA NetOwnType ==
    ASSUME TypeOK, NetOwn
    PROVE  TypeOK'
PROOF
<1> USE DEF queue
<1>1. /\ sock' \in [Fd -> {"closed", "fresh", "syn", "up", "eof", "reset"}]
      /\ sockfd' \in Fd \cup {None}
  <2>1. CASE UNCHANGED <<sock, sockfd>>
    BY <2>1 DEF TypeOK
  <2>2. CASE Open
    BY <2>2 DEF Open, TypeOK
  <2>3. CASE ConnectStarts \/ ConnectRefused \/ ConnectSucceeds
    BY <2>3 DEF ConnectStarts, ConnectRefused, ConnectSucceeds, SetSocket, TypeOK
  <2> QED
    BY <2>1, <2>2, <2>3
    DEF NetOwn, Top, OpenFails, ResolveFails, ConnectAgain, ConnectFails, ConnectStopped,
        QueueHello, HelloFails, SetConnected, ReadStopped, ReadNothing, ReadMessage,
        ReadFails, ReadEof, ReadTooShort
<1>2. /\ status' \in {"CONNECTED", "NOT_CONNECTED"} /\ stop' \in BOOLEAN
      /\ hellos' \in Nat /\ sends' \in Nat
      /\ UNCHANGED ctl
      /\ trouble' \in 0..MaxTrouble
  BY LinkAssumption
  DEF TypeOK, NetOwn, Top, Open, OpenFails, ResolveFails, ConnectStarts, ConnectAgain,
      ConnectRefused, ConnectFails, ConnectSucceeds, ConnectStopped, QueueHello, HelloFails,
      SetConnected, ReadStopped, ReadNothing, ReadMessage, ReadFails, ReadEof,
      ReadTooShort
<1>3. again' \in BOOLEAN
  BY DEF TypeOK, NetOwn, Top, Open, OpenFails, ResolveFails, ConnectStarts, ConnectAgain,
      ConnectRefused, ConnectFails, ConnectSucceeds, ConnectStopped, QueueHello, HelloFails,
      SetConnected, ReadStopped, ReadNothing, ReadMessage, ReadFails, ReadEof,
      ReadTooShort
<1>4. /\ pc["net"] \in {"top", "open", "connect", "hello", "connected", "read"}
      /\ pc' \in [Thread -> Places]
      /\ pc'["net"] \in {"top", "open", "connect", "hello", "connected", "read", "exit",
                         "nc_test"}
      /\ pc'["sched"] = pc["sched"]
      /\ UNCHANGED reg
  BY NetOwnPlaces
<1> QED BY <1>1, <1>2, <1>3, <1>4 DEF TypeOK, Places, NcPc, Thread

\* The network thread opens no connection without a Hello.
LEMMA NetOwnGuard ==
    ASSUME IInv, NetOwn
    PROVE  SocketIsGuarded'
PROOF
<1> USE NoneIsNoFd DEF IInv, queue
<1>1. pc["net"] \notin {"nc_test", "nc_close", "nc_fd", "alert"} /\ pc'["sched"] = pc["sched"]
  BY NetOwnPlaces
<1>2. CASE ConnectSucceeds
  BY <1>2 DEF ConnectSucceeds, Step, Goto, TypeOK, Thread, SocketIsGuarded
<1>3. CASE Open
  <2>1. CASE UNCHANGED <<sock, sockfd>>
    BY <1>1, <1>3, <2>1 DEF Open, Step, SocketIsGuarded, Socket, GivingUp
  <2>2. CASE \E f \in Fd : sock' = [sock EXCEPT ![f] = "fresh"] /\ sockfd' = f
    <3>1. Socket' = "fresh"
      BY <2>2 DEF Socket, TypeOK
    <3> QED BY <3>1 DEF SocketIsGuarded
  <2> QED BY <1>3, <2>1, <2>2 DEF Open
<1>4. CASE ConnectStarts \/ ConnectRefused
  <2>1. Socket' \in {"syn", "fresh"}
    BY <1>4 DEF ConnectStarts, ConnectRefused, SetSocket, Socket, TypeOK
  <2> QED BY <2>1 DEF SocketIsGuarded
<1>5. CASE QueueHello
  BY <1>5 DEF QueueHello, TypeOK, SocketIsGuarded
<1>6. CASE HelloFails
  BY <1>6 DEF HelloFails, Step, Goto, TypeOK, Thread, SocketIsGuarded, GivingUp
<1>7. CASE \/ Top \/ OpenFails \/ ResolveFails \/ ConnectAgain \/ ConnectFails \/ ConnectStopped
           \/ ReadTooShort
           \/ SetConnected \/ ReadStopped \/ ReadNothing \/ ReadMessage \/ ReadFails \/ ReadEof
  <2>1. UNCHANGED <<sock, sockfd, hellos, ctl>> /\ pc["net"] # "hello"
    BY <1>7
    DEF Top, OpenFails, ResolveFails, ConnectAgain, ConnectFails, ConnectStopped, SetConnected,
        ReadStopped, ReadNothing, ReadMessage, ReadFails, ReadEof, ReadTooShort, Step
  <2> QED BY <1>1, <2>1 DEF SocketIsGuarded, Socket, GivingUp
<1> QED BY <1>2, <1>3, <1>4, <1>5, <1>6, <1>7 DEF NetOwn

LEMMA SchedOwnStep ==
    ASSUME IInv, SchedOwn
    PROVE  IInv'
PROOF
<1> USE DEF IInv, queue
<1>1. /\ pc["sched"] \in {"idle", "failed", "alert"}
      /\ pc' \in [Thread -> Places]
      /\ pc'["sched"] \in {"idle", "failed", "alert", "nc_test", "exit"}
      /\ pc'["net"] = pc["net"]
      /\ UNCHANGED <<sock, sockfd, status, stop, reg, again, ctl>>
  BY DEF SchedOwn, SendSucceeds, SendFails, SendBlocked, Flush, Alert, SchedExit, Step, Goto,
         TypeOK, Thread, Places, NcPc
<1>2. /\ hellos' \in Nat /\ sends' \in Nat /\ trouble' \in 0..MaxTrouble
  BY LinkAssumption
  DEF SchedOwn, SendSucceeds, SendFails, SendBlocked, Flush, Alert, SchedExit, TypeOK
<1>3. TypeOK'
  BY <1>1, <1>2 DEF TypeOK, Places, NcPc, Thread
<1>4. SocketIsGuarded'
  <2>1. CASE SendSucceeds \/ SendFails \/ SendBlocked
    BY <1>1, <2>1
    DEF SendSucceeds, SendFails, SendBlocked, Step, SocketIsGuarded, Socket, GivingUp
  <2>2. CASE Flush \/ Alert
    BY <2>2 DEF Flush, Alert, Step, Goto, TypeOK, Thread, SocketIsGuarded, GivingUp
  <2>3. CASE SchedExit
    BY <2>3 DEF SchedExit, SocketIsGuarded
  <2> QED BY <2>1, <2>2, <2>3 DEF SchedOwn
<1> QED BY <1>3, <1>4

LEMMA OthersStep ==
    ASSUME IInv, OthersOwn
    PROVE  IInv'
PROOF
<1> USE LinkAssumption DEF IInv, queue
<1>1. CASE EmSend
  BY <1>1 DEF EmSend, TypeOK, SocketIsGuarded, Socket, GivingUp
<1>2. CASE \E f \in Fd, how \in {"eof", "reset"} : Lose(f, how)
  <2>1. PICK f \in Fd, how \in {"eof", "reset"} : Lose(f, how)
    BY <1>2
  <2>2. TypeOK'
    BY <2>1 DEF Lose, TypeOK
  <2>3. Socket' \in {"up", "eof", "reset"} => Socket \in {"up", "eof", "reset"}
    BY <2>1 DEF Lose, TypeOK, Socket
  <2> QED BY <2>1, <2>2, <2>3 DEF Lose, SocketIsGuarded, GivingUp
<1>3. CASE StopSched \/ StopNet \/ NetJoined
  BY <1>3 DEF StopSched, StopNet, NetJoined, TypeOK, SocketIsGuarded, Socket, GivingUp
<1>4. CASE Stopped
  BY <1>4 DEF Stopped, vars, TypeOK, SocketIsGuarded, Socket, GivingUp
<1> QED BY <1>1, <1>2, <1>3, <1>4 DEF OthersOwn, Owner

LEMMA NextIInv == IInv /\ [Next]_vars => IInv'
PROOF
<1> SUFFICES ASSUME IInv, [Next]_vars PROVE IInv'
  OBVIOUS
<1>1. CASE UNCHANGED vars
  BY <1>1 DEF vars, queue, IInv, TypeOK, SocketIsGuarded, Socket, GivingUp
<1>2. CASE \E t \in Thread : NotConnected(t)
  BY <1>2, NotConnectedType, NotConnectedGuard DEF IInv
<1>3. CASE NetOwn
  BY <1>3, NetOwnType, NetOwnGuard DEF IInv
<1>4. CASE SchedOwn
  BY <1>4, SchedOwnStep
<1>5. CASE OthersOwn
  BY <1>5, OthersStep
<1> QED
  BY <1>1, <1>2, <1>3, <1>4, <1>5
  DEF Next, NetLoop, SchedLoop, NetOwn, SchedOwn, OthersOwn, Thread

-----------------------------------------------------------------------------
(* Theorems *)

\* However the two threads race through net_not_connected, the inductive
\* invariant holds.
THEOREM LinkInvariant == Spec => []IInv
PROOF BY InitIInv, NextIInv, PTL DEF Spec

\* Every variable keeps its type, and descriptors are held only to be closed.
THEOREM LinkTypeOK == Spec => []TypeOK
PROOF
<1>1. IInv => TypeOK
  BY DEF IInv
<1> QED BY <1>1, LinkInvariant, PTL

\* A connection the network thread reads from always has its Hello, or the
\* scheduler thread is about to close it: a loss that recv() does not report
\* is left to the Hello, and the Hello is there.
THEOREM LinkHelloGuards == Spec => []HelloGuards
PROOF
<1>1. IInv => HelloGuards
  BY DEF IInv, SocketIsGuarded, HelloGuards, Reading, GivingUp
<1> QED BY <1>1, LinkInvariant, PTL
=============================================================================
