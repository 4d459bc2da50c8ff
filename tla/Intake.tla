------------------------------- MODULE Intake -------------------------------
(***************************************************************************)
(* The requests of the controller on their way to the wrapper: the network *)
(* thread cuts the byte stream of a connection into messages (net_loop of  *)
(* agent/net.c), dispatches them into tasks (net_process_message), and the *)
(* scheduler thread performs these with the callbacks of the wrapper       *)
(* (sched_perform_job of agent/sched.c).                                   *)
(*                                                                         *)
(* A message is its place in sent; the stream of a connection is the       *)
(* messages sent on it, end to end, and a position in it is a number of    *)
(* bytes.  Triggered requests are in Triggers, the order of the tasks in   *)
(* Sched (here any queued task may be performed), the stop of the thread   *)
(* in Link, and also what happens inside connect() and between close() and *)
(* sockfd = -1: here each is one step.  The status is written in a step of *)
(* its own.  Nothing bounds the length a header announces; once a message  *)
(* has run over the buffer the behaviour is undefined, and nothing is said *)
(* of what follows.                                                        *)
(***************************************************************************)
EXTENDS Integers, Sequences

CONSTANTS
    Message,   \* [class, act, req, op, ok, len]; ok: its body can be parsed
    Header,    \* EP_HEADER_SIZE
    BufSize,   \* EM_BUF_SIZE
    Given,     \* the callbacks the wrapper provides
    MaxSent,   \* bound: messages of the controller
    MaxTrouble \* bound: lost connections and failing sends

NoTask == "none"

ASSUME IntakeAssumption ==
    /\ Message \subseteq [class : STRING, act : STRING, req : BOOLEAN, op : STRING,
                          ok : BOOLEAN, len : Nat]
    /\ Header \in Nat \ {0} /\ BufSize \in Nat /\ Header <= BufSize
    /\ Given \subseteq STRING \ {NoTask}
    /\ MaxSent \in Nat /\ MaxTrouble \in Nat

VARIABLES
    sent,    \* all messages: msg, where it starts (at), on what connection
    first,   \* the first message of the present connection
    link,    \* "up", "lost" (the other end is gone), "down"
    status,  \* net->status: "CONNECTED", "NOT_CONNECTED"
    there,   \* bytes of the stream that arrive
    taken,   \* bytes read from the connection
    bread,   \* bytes of the message being collected
    npc,     \* net_loop: "top", "greet" (in net_connected), "read", "status" (in
             \* net_not_connected), or "overrun"
    tasks,   \* the messages whose tasks are queued
    handled, \* the messages given to net_process_message
    calls,   \* the callbacks each message led to, as far as Noted goes
    spc,     \* scheduler: "idle", or "close" after it has flushed its tasks, then
             \* "status"
    trouble

stream == <<link, there, taken>>
vars   == <<sent, first, stream, status, bread, npc, tasks, handled, calls, spc, trouble>>

Init == /\ sent = <<>> /\ calls = <<>>
        /\ first = 1 /\ link = "down" /\ there = 0 /\ taken = 0
        /\ status = "NOT_CONNECTED"
        /\ bread = 0 /\ npc = "top"
        /\ tasks = {} /\ handled = {}
        /\ spc = "idle" /\ trouble = 0

\* The bytes of a message; one that announces less than a header still has one.
Size(q) == IF q.len < Header THEN Header ELSE q.len

-----------------------------------------------------------------------------
(* The tables.                                                              *)

\* The task a message is turned into.
SingleTask == [ECAP |-> "ENB_SETUP", HANDOVER |-> "HO",
               RAN_SETUP |-> "RAN_SETUP", RAN_SLICE |-> "RAN_SLICE"]

TaskFor(q) ==
    IF q.class = "SINGLE" /\ q.req /\ q.act \in DOMAIN SingleTask THEN SingleTask[q.act]
    ELSE IF q.class = "SCHEDULE" /\ q.req /\ q.act = "CELL_MEASURE" THEN "CELL_MEASURE"
    ELSE NoTask

\* The callback its performer comes to; that of RAN_SETUP does not look
\* whether the header can be parsed.
SliceCallback == [UNSPECIFIED |-> "slice_request", ADD |-> "slice_add",
                  REM |-> "slice_rem", SET |-> "slice_conf"]

CallbackOf(q) ==
    CASE TaskFor(q) = "ENB_SETUP"    -> "enb_setup_request"
      [] TaskFor(q) = "HO"           -> "handover_UE"
      [] TaskFor(q) = "CELL_MEASURE" -> "cell_measure"
      [] TaskFor(q) = "RAN_SETUP"    -> "setup_request"
      [] TaskFor(q) = "RAN_SLICE"    ->
            IF q.op \in DOMAIN SliceCallback THEN SliceCallback[q.op] ELSE NoTask
      [] OTHER -> NoTask

Calls(q) == CallbackOf(q) \in Given /\ (q.ok \/ TaskFor(q) = "RAN_SETUP")

Noted(s, callback) == IF Len(s) < 2 THEN Append(s, callback) ELSE s

-----------------------------------------------------------------------------
(* The connection and its other end.                                        *)

Send(q) == /\ link = "up" /\ Len(sent) < MaxSent
           /\ sent' = Append(sent, [msg |-> q, at |-> there, conn |-> first])
           /\ calls' = Append(calls, <<>>)
           /\ there' = there + Size(q)
           /\ UNCHANGED <<first, link, taken, status, bread, npc, tasks, handled, spc, trouble>>

\* The connection is lost, with some of the bytes that were not read yet.
Lose == /\ link = "up" /\ trouble < MaxTrouble
        /\ link' = "lost"
        /\ there' \in taken .. there
        /\ trouble' = trouble + 1
        /\ UNCHANGED <<sent, first, taken, status, bread, npc, tasks, handled, calls, spc>>

-----------------------------------------------------------------------------
(* net_loop.                                                                *)

\* The messages of this connection, and the one that starts where the buffer does.
Here == first .. Len(sent)
Msg(m) == sent[m].msg
Buffered(m) == m \in Here /\ sent[m].at = taken - bread

\* Not connected: net_connect_to_controller succeeds.
Connect == /\ npc = "top" /\ status = "NOT_CONNECTED" /\ link = "down"
           /\ link' = "up" /\ there' = 0 /\ taken' = 0 /\ first' = Len(sent) + 1
           /\ npc' = "greet"
           /\ UNCHANGED <<sent, status, bread, tasks, handled, calls, spc, trouble>>

\* Not connected, while the socket is: connect() fails (EISCONN), and is tried
\* over and over.
Deaf == npc = "top" /\ status = "NOT_CONNECTED" /\ link # "down"

\* Fault: a new connection goes on collecting where the old one stopped.
ConnectedKeepsBuffer ==
    /\ npc = "greet" /\ npc' = "read"
    /\ status' = "CONNECTED"
    /\ UNCHANGED <<sent, first, stream, bread, tasks, handled, calls, spc, trouble>>

\* net_connected, which queues a Hello, comes to set the status.
Connected == /\ npc = "greet" /\ npc' = "read"
             /\ status' = "CONNECTED" /\ bread' = 0
             /\ UNCHANGED <<sent, first, stream, tasks, handled, calls, spc, trouble>>

\* The next message of a connection.
Collect == /\ npc = "top" /\ status = "CONNECTED"
           /\ bread' = 0 /\ npc' = "read"
           /\ UNCHANGED <<sent, first, stream, status, tasks, handled, calls, spc, trouble>>

\* net_recv takes what has arrived, or some of it, up to a total of size bytes.
Recv(size) == /\ npc = "read" /\ link # "down" /\ bread < size
              /\ \E n \in 1 .. (size - bread) : /\ taken + n <= there
                                                /\ taken' = taken + n
                                                /\ bread' = bread + n
              /\ npc' = IF bread' <= BufSize THEN "read" ELSE "overrun"
              /\ UNCHANGED <<sent, first, link, there, status, tasks, handled, calls, spc, trouble>>

RecvHeader == bread < Header /\ Recv(Header)

\* Fault: the body is read up to the size of the buffer, wherever it starts.
RecvBodyAll == \E m \in Here : /\ Buffered(m) /\ Header <= bread /\ bread < Msg(m).len
                               /\ Recv(bread + BufSize)

\* The rest of a message, whose header announces its length.
RecvBody == \E m \in Here : /\ Buffered(m) /\ Header <= bread
                            /\ Recv(Msg(m).len)

\* net_not_connected, called by this thread: first the socket,
Close == /\ link' = "down" /\ npc' = "status"
         /\ UNCHANGED <<sent, first, there, taken, status, bread, tasks, handled, calls, spc>>

\* then the status.
Closed == /\ npc = "status" /\ npc' = "top"
          /\ status' = "NOT_CONNECTED"
          /\ UNCHANGED <<sent, first, stream, bread, tasks, handled, calls, spc, trouble>>

\* The Hello cannot be queued.
GreetFails == /\ npc = "greet"
              /\ trouble < MaxTrouble /\ trouble' = trouble + 1
              /\ Close

\* Fault: a read does not notice that the other thread has closed the socket.
RecvFailsUnnoticed ==
    npc = "read" /\ link = "lost" /\ taken = there /\ Close /\ UNCHANGED trouble

\* More bytes are wanted, and the connection is gone.
RecvFails == /\ npc = "read"
             /\ link = "down" \/ (link = "lost" /\ taken = there)
             /\ bread < Header \/ \E m \in Here : Buffered(m) /\ bread < Msg(m).len
             /\ Close /\ UNCHANGED trouble

\* Fault: a message that announces too short a length is skipped.
RejectSkips == /\ npc = "read" /\ Header <= bread
               /\ \E m \in Here : Buffered(m) /\ bread > Msg(m).len
               /\ npc' = "top"
               /\ UNCHANGED <<sent, first, stream, status, bread, tasks, handled, calls, spc, trouble>>

\* A header that announces less than itself.
Reject == /\ npc = "read" /\ Header <= bread
          /\ \E m \in Here : Buffered(m) /\ bread > Msg(m).len
          /\ Close /\ UNCHANGED trouble

\* net_process_message; task_alloc, which copies the message, may fail.
Process(m) == /\ npc = "read" /\ Header <= bread
              /\ Buffered(m) /\ bread = Msg(m).len
              /\ npc' = "top"
              /\ handled' = handled \cup {m}
              /\ \/ TaskFor(Msg(m)) # NoTask /\ tasks' = tasks \cup {m}
                 \/ UNCHANGED tasks
              /\ UNCHANGED <<sent, first, stream, status, bread, calls, spc, trouble>>

NetLoop == \/ Connect \/ Connected \/ Collect \/ RecvHeader \/ RecvBody
           \/ RecvFails \/ Reject \/ Closed \/ \E m \in Here : Process(m)

-----------------------------------------------------------------------------
(* The scheduler thread.                                                    *)

\* Fault: a task that was performed stays queued.
PerformAgain(m) ==
    /\ spc = "idle" /\ m \in tasks
    /\ calls' = IF Calls(Msg(m))
                THEN [calls EXCEPT ![m] = Noted(@, CallbackOf(Msg(m)))] ELSE calls
    /\ UNCHANGED <<sent, first, stream, status, bread, npc, tasks, handled, spc, trouble>>

\* A task whose interval has elapsed; only cell measurements come again.
Perform(m) == /\ spc = "idle" /\ m \in tasks
              /\ calls' = IF Calls(Msg(m))
                          THEN [calls EXCEPT ![m] = Noted(@, CallbackOf(Msg(m)))]
                          ELSE calls
              /\ tasks' = IF TaskFor(Msg(m)) = "CELL_MEASURE" THEN tasks ELSE tasks \ {m}
              /\ UNCHANGED <<sent, first, stream, status, bread, npc, handled, spc, trouble>>

\* A Hello or a message of the wrapper cannot be sent: first the tasks go,
Flush == /\ spc = "idle"
         /\ trouble < MaxTrouble /\ trouble' = trouble + 1
         /\ tasks' = {} /\ spc' = "close"
         /\ UNCHANGED <<sent, first, stream, status, bread, npc, handled, calls>>

\* then the connection, whichever it is by now,
CloseConn == /\ spc = "close" /\ spc' = "status" /\ link' = "down"
             /\ UNCHANGED <<sent, first, there, taken, status, bread, npc, tasks, handled,
                            calls, trouble>>

\* and last the status, whether there is a new connection or not.
ConnClosed == /\ spc = "status" /\ spc' = "idle" /\ status' = "NOT_CONNECTED"
              /\ UNCHANGED <<sent, first, stream, bread, npc, tasks, handled, calls, trouble>>

SchedLoop == Flush \/ CloseConn \/ ConnClosed \/ \E m \in tasks : Perform(m)

-----------------------------------------------------------------------------
Overrun == npc = "overrun"

Undefined == Overrun /\ UNCHANGED vars

Next == \/ ~ Overrun /\ ( \/ Lose \/ NetLoop \/ GreetFails \/ SchedLoop
                          \/ \E q \in Message : Send(q) )
        \/ Undefined

Spec == Init /\ [][Next]_vars

\* The network thread runs, connections succeed again, and every queued task
\* has its turn (Sched!EachIsServed).
Fairness == /\ WF_vars(~ Overrun /\ NetLoop)
            /\ WF_vars(~ Overrun /\ (CloseConn \/ ConnClosed))
            /\ \A m \in 1 .. MaxSent : WF_vars(~ Overrun /\ Perform(m))

LiveSpec == Spec /\ Fairness

-----------------------------------------------------------------------------
(* What is checked.                                                         *)

\* Types; net_loop counts no bytes as collected that it did not read from the
\* present connection, and reads no further than its stream arrives.
TypeOK ==
    /\ sent \in Seq([msg : Message, at : Nat, conn : Nat]) /\ Len(sent) <= MaxSent
    /\ calls \in Seq(Seq(STRING)) /\ Len(calls) = Len(sent)
    /\ first \in 1 .. Len(sent) + 1
    /\ link \in {"up", "lost", "down"}
    /\ status \in {"CONNECTED", "NOT_CONNECTED"}
    /\ there \in Nat /\ taken \in 0 .. there
    /\ bread \in Nat /\ (npc \in {"read", "overrun"} => bread <= taken)
    /\ npc \in {"top", "greet", "read", "status", "overrun"}
    /\ tasks \subseteq 1 .. Len(sent) /\ handled \subseteq 1 .. Len(sent)
    /\ spc \in {"idle", "close", "status"} /\ trouble \in 0 .. MaxTrouble

\* net_loop compares the announced length with nothing (net.c:1107-1127), and
\* that is all: neither a header, nor a read cut anywhere, nor a message that
\* just fills the buffer, nor two messages in a row, nor a reconnection in the
\* middle of one carries it over the end, only a longer message than the buffer.
OnlyLengthOverruns ==
    Overrun => \E m \in Here : Buffered(m) /\ bread <= Msg(m).len /\ BufSize < Msg(m).len

\* net_loop never joins bytes of two messages, or of two connections: what it
\* has collected is the beginning of one message of this connection, at most
\* all of it, however recv() cuts the stream and whoever closes the socket.
WholeMessages ==
    npc = "read" /\ bread > 0 =>
        \E m \in Here : Buffered(m) /\ bread <= Size(Msg(m))

\* No message is processed after one of the same connection that was not:
\* net_loop gives the connection up rather than lose its place in the stream.
NoneSkipped == \A m \in handled : sent[m].conn .. m \subseteq handled

\* The callback emage.h documents for a request.
Promised(q) ==
    LET asks(class, act) == q.req /\ q.class = class /\ q.act = act
    IN  CASE asks("SINGLE", "ECAP")      -> "enb_setup_request"
          [] asks("SINGLE", "HANDOVER")  -> "handover_UE"
          [] asks("SINGLE", "RAN_SETUP") -> "setup_request"
          [] asks("SINGLE", "RAN_SLICE") /\ q.op = "UNSPECIFIED" -> "slice_request"
          [] asks("SINGLE", "RAN_SLICE") /\ q.op = "ADD" -> "slice_add"
          [] asks("SINGLE", "RAN_SLICE") /\ q.op = "REM" -> "slice_rem"
          [] asks("SINGLE", "RAN_SLICE") /\ q.op = "SET" -> "slice_conf"
          [] asks("SCHEDULE", "CELL_MEASURE") -> "cell_measure"
          [] OTHER -> NoTask

\* The orders that are open: what was not read yet, and what is queued.
Open == (Here \ handled) \cup tasks

Order == INSTANCE Orders
    WITH Request <- Message, None <- NoTask,
         Wants <- [q \in Message |-> Promised(q)],
         Endless <- {q \in Message : q.class = "SCHEDULE"},
         asked <- [m \in DOMAIN sent |-> Msg(m)], open <- Open, calls <- calls

\* Reading, dispatching, queueing and performing carry out what the controller
\* asked: a single request at most once, by the documented callback, and
\* nothing after it was flushed or its connection replaced before it was read.
OrdersSpec == Order!Spec

\* A request that leads to a callback is carried out, or forgotten with its
\* connection: no piece of the way from recv() to the callback holds it back.
\* One that is not yet read may wait for ever in one case (Link!
\* ConnectionIsReported): the scheduler has written the status late, over that
\* of a new connection, which stands and is read no more.
EveryRequestEnds ==
    \A m \in 1 .. MaxSent :
        (m \in Open /\ Calls(Msg(m)))
            ~> (m \notin Open \/ calls[m] # <<>> \/ Overrun \/ [](Deaf /\ m \notin tasks))

-----------------------------------------------------------------------------
(* The inductive invariant.                                                 *)

\* Where message m of this connection starts: the end of the one before it.
After(m) == IF m = first THEN 0 ELSE sent[m - 1].at + Size(Msg(m - 1))

\* The messages of a connection lie end to end, and all of it arrives
\* as long as the connection stands.
Layout == /\ \A m \in Here : sent[m].conn = first /\ sent[m].at = After(m)
          /\ \A m \in Here, k \in first .. Len(sent) + 1 :
                m < k => After(m + 1) <= After(k)
          /\ there <= After(Len(sent) + 1)
          /\ link = "up" => there = After(Len(sent) + 1)

\* The thread's place in the stream: message m is next, or the end, and just
\* the messages before it were processed.
Place(m, start) == /\ start = After(m)
                   /\ npc = "read" => bread <= IF m \in Here THEN Size(Msg(m)) ELSE 0
                   /\ first .. m - 1 \subseteq handled
                   /\ \A k \in handled : k < m

InPlace ==
    /\ npc = "read" => \E m \in first .. Len(sent) + 1 : Place(m, taken - bread)
    /\ npc = "greet" \/ (npc = "top" /\ status = "CONNECTED")
          => \E m \in first .. Len(sent) + 1 : Place(m, taken)

IInv == /\ TypeOK /\ WholeMessages /\ NoneSkipped /\ OnlyLengthOverruns
        /\ Layout /\ InPlace
        /\ tasks \subseteq handled
=============================================================================
