-------------------------------- MODULE Link --------------------------------
(***************************************************************************)
(* The connection of one agent with its controller (agent/net.c): the      *)
(* network thread opens it, reads from it and gives it up when a read      *)
(* fails; the scheduler thread writes to it and gives it up when a write   *)
(* fails (sched_consume).  Both call net_not_connected, and nothing        *)
(* protects sockfd and status: each access is a step of its own here.      *)
(*                                                                         *)
(* The queue of the scheduler (see Sched) is abstracted to the number of   *)
(* Hello tasks and of SEND tasks in it, a message of the controller to the *)
(* return to the head of net_loop, and the socket to the state in which    *)
(* the kernel has it:                                                      *)
(*   fresh  - not connected           up    - connected                    *)
(*   syn    - the connection is       eof   - the controller has closed it *)
(*            in progress             reset - it is broken                 *)
(***************************************************************************)
EXTENDS Integers, FiniteSets

CONSTANTS Fd,         \* the descriptors socket() may return
          MaxTrouble  \* bound: the faults of the environment in one behaviour

ASSUME LinkAssumption == Fd \subseteq Nat \ {0} /\ MaxTrouble \in Nat

None == -1
Thread == {"net", "sched"}

VARIABLES
    sock,     \* for each descriptor, the state of its socket, or "closed"
    sockfd,   \* ctx->sockfd
    status,   \* ctx->status
    stop,     \* ctx->stop
    hellos,   \* the Hello tasks in the queue of the scheduler
    sends,    \* the SEND tasks in it
    pc,       \* where each thread is
    reg,      \* the descriptor a thread in net_not_connected has read
    again,    \* errno = EAGAIN in the network thread
    ctl,      \* how far the release of the agent has come
    trouble   \* the faults that may still come

queue == <<hellos, sends>>
vars  == <<sock, sockfd, status, stop, queue, pc, reg, again, ctl, trouble>>

Init == /\ sock = [f \in Fd |-> "closed"]
        /\ sockfd = None /\ status = "NOT_CONNECTED"
        /\ stop = FALSE
        /\ hellos = 0 /\ sends = 0
        /\ pc = [net |-> "top", sched |-> "idle"]
        /\ reg = [t \in Thread |-> None]
        /\ again = FALSE
        /\ ctl = "run"
        /\ trouble = MaxTrouble

Goto(t, to) == pc' = [pc EXCEPT ![t] = to]
Step(t, from, to) == pc[t] = from /\ Goto(t, to)

\* The state of the socket ctx->sockfd names.
Socket == IF sockfd = None THEN "closed" ELSE sock[sockfd]

SetSocket(state) == sock' = [sock EXCEPT ![sockfd] = state]

-----------------------------------------------------------------------------
(* net_not_connected, on either thread *)

\* Fault: the descriptor is closed without the test.
NcTestNothing(t) ==
    /\ Step(t, "nc_test", "nc_close")
    /\ reg' = [reg EXCEPT ![t] = sockfd]
    /\ UNCHANGED <<sock, sockfd, status, stop, queue, again, ctl, trouble>>

\* if(ctx->sockfd > 0)
NcTest(t) ==
    /\ pc[t] = "nc_test"
    /\ reg' = [reg EXCEPT ![t] = sockfd]
    /\ Goto(t, IF sockfd = None THEN "nc_status" ELSE "nc_close")
    /\ UNCHANGED <<sock, sockfd, status, stop, queue, again, ctl, trouble>>

\* close(ctx->sockfd), of the value tested or of the one there is now.  The
\* close of a descriptor that is not open fails with EBADF.
NcClose(t) ==
    /\ Step(t, "nc_close", "nc_fd")
    /\ \E f \in {reg[t], sockfd} :
          IF f \in Fd /\ sock[f] # "closed"
          THEN sock' = [sock EXCEPT ![f] = "closed"] /\ UNCHANGED again
          ELSE UNCHANGED sock /\ again' = (again /\ t # "net")
    /\ UNCHANGED <<sockfd, status, stop, queue, reg, ctl, trouble>>

\* Fault: the descriptor stays behind.
NcFdKept(t) ==
    /\ Step(t, "nc_fd", "nc_status")
    /\ reg' = [reg EXCEPT ![t] = None]
    /\ UNCHANGED <<sock, sockfd, status, stop, queue, again, ctl, trouble>>

\* ctx->sockfd = -1
NcFd(t) ==
    /\ Step(t, "nc_fd", "nc_status")
    /\ sockfd' = None
    /\ reg' = [reg EXCEPT ![t] = None]
    /\ UNCHANGED <<sock, status, stop, queue, again, ctl, trouble>>

\* ctx->status = NET_STATUS_NOT_CONNECTED
NcStatus(t) ==
    /\ Step(t, "nc_status", IF t = "net" THEN "top" ELSE "idle")
    /\ status' = "NOT_CONNECTED"
    /\ UNCHANGED <<sock, sockfd, stop, queue, reg, again, ctl, trouble>>

NotConnected(t) == NcTest(t) \/ NcClose(t) \/ NcFd(t) \/ NcStatus(t)

-----------------------------------------------------------------------------
(* The network thread: net_loop, net_connect_to_controller, net_connected *)

\* The head of the loop.
Top ==
    /\ Step("net", "top", IF status = "CONNECTED" THEN "read"
                          ELSE IF stop THEN "exit" ELSE "open")
    /\ UNCHANGED <<sock, sockfd, status, stop, queue, reg, again, ctl, trouble>>

\* The socket of the last attempt is used again; if there is none socket()
\* returns the lowest free descriptor.  The controller's name is resolved.
Open ==
    /\ Step("net", "open", "connect")
    /\ \/ /\ sockfd # None
          /\ UNCHANGED <<sock, sockfd>>
       \/ /\ sockfd = None
          /\ \E f \in Fd : /\ sock[f] = "closed"
                           /\ \A g \in Fd : g < f => sock[g] # "closed"
                           /\ sock' = [sock EXCEPT ![f] = "fresh"]
                           /\ sockfd' = f
    /\ UNCHANGED <<status, stop, queue, reg, again, ctl, trouble>>

\* Every descriptor is in use.
OpenFails ==
    /\ Step("net", "open", "top")
    /\ sockfd = None /\ \A f \in Fd : sock[f] # "closed"
    /\ UNCHANGED <<sock, sockfd, status, stop, queue, reg, again, ctl, trouble>>

\* The name is not resolved; the socket is kept for the next attempt.
ResolveFails ==
    /\ trouble > 0 /\ trouble' = trouble - 1
    /\ Step("net", "open", "top")
    /\ sockfd # None
    /\ UNCHANGED <<sock, sockfd, status, stop, queue, reg, again, ctl>>

\* connect(): the connection is there, and net_connected is called.
ConnectSucceeds ==
    /\ Step("net", "connect", "hello") /\ ~stop
    /\ Socket \in {"fresh", "syn"}
    /\ SetSocket("up")
    /\ UNCHANGED <<sockfd, status, stop, queue, reg, again, ctl, trouble>>

\* connect(): in progress, for the first time (EINPROGRESS).
ConnectStarts ==
    /\ Step("net", "connect", "top") /\ ~stop
    /\ Socket = "fresh"
    /\ SetSocket("syn") /\ again' = FALSE
    /\ UNCHANGED <<sockfd, status, stop, queue, reg, ctl, trouble>>

\* connect(): still in progress (EALREADY); goto again.
ConnectAgain ==
    /\ pc["net"] = "connect" /\ ~stop
    /\ Socket = "syn"
    /\ again' = FALSE
    /\ UNCHANGED <<sock, sockfd, status, stop, queue, pc, reg, ctl, trouble>>

\* connect(): refused.
ConnectRefused ==
    /\ Step("net", "connect", "top") /\ ~stop
    /\ Socket \in {"fresh", "syn"}
    /\ SetSocket("fresh") /\ again' = FALSE
    /\ UNCHANGED <<sockfd, status, stop, queue, reg, ctl, trouble>>

\* connect(): this descriptor is not open (EBADF), or its socket has been
\* connected already (EISCONN).
ConnectFails ==
    /\ Step("net", "connect", "top") /\ ~stop
    /\ Socket \in {"closed", "up", "eof", "reset"}
    /\ again' = FALSE
    /\ UNCHANGED <<sock, sockfd, status, stop, queue, reg, ctl, trouble>>

\* if(ctx->stop)
ConnectStopped ==
    /\ Step("net", "connect", "top") /\ stop
    /\ UNCHANGED <<sock, sockfd, status, stop, queue, reg, again, ctl, trouble>>

\* Fault: the connection is used without a Hello task.
QueueNoHello ==
    /\ Step("net", "hello", "connected")
    /\ ctl = "run"
    /\ UNCHANGED <<sock, sockfd, status, stop, queue, reg, again, ctl, trouble>>

\* net_connected: the Hello is queued ...
QueueHello ==
    /\ Step("net", "hello", "connected")
    /\ ctl = "run"
    /\ hellos' = hellos + 1
    /\ UNCHANGED <<sock, sockfd, status, stop, sends, reg, again, ctl, trouble>>

\* (or the scheduler has stopped and refuses it, or task_alloc fails)
HelloFails ==
    /\ Step("net", "hello", "nc_test")
    /\ \/ ctl # "run" /\ UNCHANGED trouble
       \/ trouble > 0 /\ trouble' = trouble - 1
    /\ UNCHANGED <<sock, sockfd, status, stop, queue, reg, again, ctl>>

\* ... and the status is set.
SetConnected ==
    /\ Step("net", "connected", "read")
    /\ status' = "CONNECTED"
    /\ UNCHANGED <<sock, sockfd, stop, queue, reg, again, ctl, trouble>>

\* Fault: the loops that read do not test ctx->stop.
KeepReadingUntested == TRUE

\* The test of ctx->stop before each recv().
KeepReading == ~stop

\* if(net->stop) goto stop
ReadStopped ==
    /\ Step("net", "read", "exit") /\ ~KeepReading
    /\ UNCHANGED <<sock, sockfd, status, stop, queue, reg, again, ctl, trouble>>

\* recv(): nothing has come (EAGAIN).
ReadNothing ==
    /\ pc["net"] = "read" /\ KeepReading
    /\ Socket = "up"
    /\ again' = TRUE
    /\ UNCHANGED <<sock, sockfd, status, stop, queue, pc, reg, ctl, trouble>>

\* recv() completes a message: it is processed.
ReadMessage ==
    /\ Step("net", "read", "top") /\ KeepReading
    /\ Socket = "up"
    /\ UNCHANGED <<sock, sockfd, status, stop, queue, reg, again, ctl, trouble>>

\* The header announces less than a header: the controller is out of step.
ReadTooShort ==
    /\ trouble > 0 /\ trouble' = trouble - 1
    /\ Step("net", "read", "nc_test") /\ KeepReading
    /\ Socket = "up"
    /\ UNCHANGED <<sock, sockfd, status, stop, queue, reg, again, ctl>>

\* recv() fails (ECONNRESET, EBADF, ENOTCONN).
ReadFails ==
    /\ Step("net", "read", "nc_test") /\ KeepReading
    /\ Socket \in {"closed", "fresh", "syn", "reset"}
    /\ again' = FALSE
    /\ UNCHANGED <<sock, sockfd, status, stop, queue, reg, ctl, trouble>>

\* recv() returns 0 and leaves errno alone.
ReadEof ==
    /\ pc["net"] = "read" /\ KeepReading
    /\ Socket = "eof"
    /\ IF again THEN UNCHANGED pc ELSE Goto("net", "nc_test")
    /\ UNCHANGED <<sock, sockfd, status, stop, queue, reg, again, ctl, trouble>>

NetLoop == \/ Top \/ Open \/ OpenFails
           \/ ConnectStarts \/ ConnectAgain \/ ConnectRefused \/ ConnectFails
           \/ ConnectSucceeds \/ ConnectStopped
           \/ QueueHello \/ HelloFails \/ SetConnected
           \/ ReadStopped \/ ReadNothing \/ ReadMessage \/ ReadFails \/ ReadEof
           \/ NotConnected("net")

-----------------------------------------------------------------------------
(* The scheduler thread: sched_send_msg, sched_consume *)

\* A message is sent: a Hello stays queued, another message does not.  A
\* send on a socket the controller has closed may still succeed.
SendSucceeds ==
    /\ pc["sched"] = "idle"
    /\ Socket \in {"up", "eof"}
    /\ \/ hellos > 0 /\ UNCHANGED sends
       \/ sends > 0 /\ sends' = sends - 1
    /\ UNCHANGED <<sock, sockfd, status, stop, hellos, pc, reg, again, ctl, trouble>>

\* send() fails.
SendFails ==
    /\ Step("sched", "idle", "failed")
    /\ hellos + sends > 0
    /\ Socket # "up"
    /\ UNCHANGED <<sock, sockfd, status, stop, queue, reg, again, ctl, trouble>>

\* send() fails on a connection that works: its buffer is full (EAGAIN).
SendBlocked ==
    /\ trouble > 0 /\ trouble' = trouble - 1
    /\ Step("sched", "idle", "failed")
    /\ hellos + sends > 0
    /\ Socket = "up"
    /\ UNCHANGED <<sock, sockfd, status, stop, queue, reg, again, ctl>>

\* TASK_NET_ERROR: the queue is emptied in one critical section.
Flush ==
    /\ Step("sched", "failed", "alert")
    /\ hellos' = 0 /\ sends' = 0
    /\ UNCHANGED <<sock, sockfd, status, stop, reg, again, ctl, trouble>>

\* Fault: the wrapper is told, and the connection is left as it is.
AlertOnly ==
    /\ Step("sched", "alert", "idle")
    /\ UNCHANGED <<sock, sockfd, status, stop, queue, reg, again, ctl, trouble>>

\* trig_flush and ops->disconnected; net_not_connected is next.
Alert ==
    /\ Step("sched", "alert", "nc_test")
    /\ UNCHANGED <<sock, sockfd, status, stop, queue, reg, again, ctl, trouble>>

\* sched_loop is stopped: it frees its tasks and ends.
SchedExit ==
    /\ Step("sched", "idle", "exit")
    /\ ctl = "sched_stop"
    /\ hellos' = 0 /\ sends' = 0
    /\ UNCHANGED <<sock, sockfd, status, stop, reg, again, ctl, trouble>>

SchedLoop == \/ SendSucceeds \/ SendFails \/ Flush \/ Alert \/ SchedExit
             \/ NotConnected("sched")

-----------------------------------------------------------------------------
(* The wrapper, the controller and the owner of the agent *)

\* em_send queues a message, whether there is a connection or not.
EmSend ==
    /\ trouble > 0 /\ trouble' = trouble - 1
    /\ ctl = "run"
    /\ sends' = sends + 1
    /\ UNCHANGED <<sock, sockfd, status, stop, hellos, pc, reg, again, ctl>>

\* The controller closes a connection, or it breaks.
Lose(f, how) ==
    /\ trouble > 0 /\ trouble' = trouble - 1
    /\ sock[f] = "up"
    /\ sock' = [sock EXCEPT ![f] = how]
    /\ UNCHANGED <<sockfd, status, stop, queue, pc, reg, again, ctl>>

\* core_release_agent: sched_stop, which joins the scheduler thread, ...
StopSched ==
    /\ ctl = "run" /\ ctl' = "sched_stop"
    /\ UNCHANGED <<sock, sockfd, status, stop, queue, pc, reg, again, trouble>>

\* ... then net_stop sets ctx->stop ...
StopNet ==
    /\ ctl = "sched_stop" /\ pc["sched"] = "exit"
    /\ ctl' = "net_stop" /\ stop' = TRUE
    /\ UNCHANGED <<sock, sockfd, status, queue, pc, reg, again, trouble>>

\* ... and joins the network thread.
NetJoined ==
    /\ ctl = "net_stop" /\ pc["net"] = "exit"
    /\ ctl' = "stopped"
    /\ UNCHANGED <<sock, sockfd, status, stop, queue, pc, reg, again, trouble>>

Owner == StopNet \/ NetJoined

\* A released agent is gone.
Stopped == ctl = "stopped" /\ UNCHANGED vars

Next == \/ NetLoop \/ ResolveFails \/ ReadTooShort
        \/ SchedLoop \/ SendBlocked
        \/ EmSend
        \/ \E f \in Fd, how \in {"eof", "reset"} : Lose(f, how)
        \/ StopSched \/ Owner \/ Stopped

Spec == Init /\ [][Next]_vars

\* Both threads and both joins make progress; a controller that is asked over
\* and over accepts the connection; a connection it has closed does not take
\* messages for ever.  Faults are never obliged to come, and no more than
\* MaxTrouble do.
Fairness == /\ WF_vars(NetLoop) /\ WF_vars(SchedLoop)
            /\ SF_vars(ConnectSucceeds) /\ SF_vars(SendFails)
            /\ WF_vars(Owner)

LiveSpec == Spec /\ Fairness

-----------------------------------------------------------------------------
(* Properties *)

NcPc == {"nc_test", "nc_close", "nc_fd", "nc_status"}

\* Every variable has its type; a thread keeps a descriptor exactly while
\* it closes it.
TypeOK == /\ sock \in [Fd -> {"closed", "fresh", "syn", "up", "eof", "reset"}]
          /\ sockfd \in Fd \cup {None}
          /\ status \in {"CONNECTED", "NOT_CONNECTED"}
          /\ stop \in BOOLEAN /\ again \in BOOLEAN
          /\ hellos \in Nat /\ sends \in Nat
          /\ pc \in [Thread -> NcPc \cup {"top", "open", "connect", "hello", "connected",
                                          "read", "idle", "failed", "alert", "exit"}]
          /\ pc["net"] \notin {"idle", "failed", "alert"}
          /\ pc["sched"] \in NcPc \cup {"idle", "failed", "alert", "exit"}
          /\ reg \in [Thread -> Fd \cup {None}]
          /\ \A t \in Thread : reg[t] # None <=> pc[t] \in {"nc_close", "nc_fd"}
          /\ ctl \in {"run", "sched_stop", "net_stop", "stopped"}
          /\ trouble \in 0..MaxTrouble

\* The agent reads from a socket that has been connected.
Reading == pc["net"] = "read" /\ Socket \in {"up", "eof"}

\* A thread has still to close the socket it has found to fail.
GivingUp(t) == pc[t] \in {"alert", "nc_test", "nc_close", "nc_fd"}

\* Only the Hello notices a connection that the controller has closed when
\* errno is stale: while the network thread reads from a socket, a Hello is
\* queued, or the scheduler thread is on its way to give the connection up,
\* however the two threads race between flush, Hello and reconnection.
HelloGuards ==
    Reading /\ ctl = "run" => hellos > 0 \/ GivingUp("sched")

\* The same for the socket, whatever the network thread does: it is about to
\* queue the Hello, or to give the connection up itself.
SocketIsGuarded ==
    ctl = "run" /\ Socket \in {"up", "eof", "reset"}
        => hellos > 0 \/ GivingUp("sched") \/ GivingUp("net") \/ pc["net"] = "hello"

\* The inductive invariant.
IInv == TypeOK /\ SocketIsGuarded

\* A lost connection is given up, though recv() = 0 may go unnoticed.
Lost(f) == sockfd = f /\ sock[f] \in {"eof", "reset"}
LossIsNoticed == \A f \in Fd : Lost(f) ~> (~Lost(f) \/ ctl # "run")

\* The agent always comes back to a connection: once the faults are over no
\* race of the two threads and no message of em_send that was sent too early
\* leaves it without one for ever, unless the races have left every
\* descriptor behind: a thread that writes NcFd after the other has opened a
\* socket forgets that one.
Exhausted == \A f \in Fd : sock[f] # "closed"
Reconnects == []<>(Socket = "up" \/ ctl # "run" \/ Exhausted)

\* net_stop returns (pthread_join): wherever the network thread is, it comes
\* to test ctx->stop.
StopEnds == (ctl = "net_stop") ~> (ctl = "stopped")

\* A connection that lasts comes to be reported by em_is_connected ("Returns 1
\* if the agent is connected to a controller, 0 otherwise", emage.h:218).
ConnectionIsReported ==
    (Socket = "up") ~> (status = "CONNECTED" \/ Socket # "up" \/ ctl # "run")
=============================================================================
