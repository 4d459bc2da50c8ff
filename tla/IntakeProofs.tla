---------------------------- MODULE IntakeProofs ----------------------------
(***************************************************************************)
(* Theorems about Intake, for any messages, header and buffer size.        *)
(***************************************************************************)
EXTENDS Intake, SequenceTheorems, TLAPS

\* Sequences, whatever their elements are.
LEMMA SeqFacts ==
    ASSUME NEW S, NEW s \in Seq(S), NEW x \in S
    PROVE  /\ Len(s) \in Nat /\ \A i \in 1 .. Len(s) : s[i] \in S
           /\ Append(s, x) \in Seq(S) /\ Len(Append(s, x)) = Len(s) + 1
           /\ Append(s, x)[Len(s) + 1] = x
           /\ \A i \in 1 .. Len(s) : Append(s, x)[i] = s[i]
           /\ \A i \in 1 .. Len(s) :
                [s EXCEPT ![i] = x] \in Seq(S) /\ Len([s EXCEPT ![i] = x]) = Len(s)
PROOF OBVIOUS

LEMMA NotLast ==
    ASSUME NEW a \in Nat, NEW b \in Nat, NEW k \in a .. b + 1, k # b + 1
    PROVE  k \in a .. b
PROOF OBVIOUS

LEMMA ElementFacts ==
    ASSUME NEW S, NEW s \in Seq(S)
    PROVE  Len(s) \in Nat /\ \A i \in 1 .. Len(s) : s[i] \in S
PROOF OBVIOUS

SentRecord == [msg : Message, at : Nat, conn : Nat]

LEMMA SizeNat ==
    ASSUME NEW q \in Message
    PROVE  Size(q) \in Nat \ {0} /\ Header <= Size(q) /\ q.len \in Nat /\ q.len <= Size(q)
PROOF BY IntakeAssumption DEF Size

\* The types, message by message.
LEMMA SentTypes ==
    ASSUME TypeOK
    PROVE  /\ Len(sent) \in Nat /\ first \in Nat /\ first > 0 /\ first <= Len(sent) + 1
           /\ \A m \in 1 .. Len(sent) :
                sent[m].at \in Nat /\ sent[m].conn \in Nat /\ Msg(m) \in Message
           /\ \A m \in Here : m \in 1 .. Len(sent) /\ m + 1 \in first .. Len(sent) + 1
PROOF
<1>1. sent \in Seq(SentRecord) /\ first \in 1 .. Len(sent) + 1
  BY DEF TypeOK, SentRecord
<1>2. Len(sent) \in Nat /\ \A m \in 1 .. Len(sent) : sent[m] \in SentRecord
  BY <1>1, ElementFacts
<1>3. \A m \in 1 .. Len(sent) : sent[m].at \in Nat /\ sent[m].conn \in Nat /\ Msg(m) \in Message
  BY <1>2 DEF Msg, SentRecord
<1>4. first \in Nat /\ first > 0 /\ first <= Len(sent) + 1 BY <1>1, <1>2
<1>5. \A m \in Here : m \in 1 .. Len(sent) /\ m + 1 \in first .. Len(sent) + 1
  BY <1>2, <1>4 DEF Here
<1> QED BY <1>2, <1>3, <1>4, <1>5

\* Positions are numbers; each message starts behind the one before it.
LEMMA AfterNat ==
    ASSUME TypeOK, NEW m \in first .. Len(sent) + 1
    PROVE  After(m) \in Nat
PROOF
<1>1. CASE m = first BY <1>1 DEF After
<1>2. CASE m # first
  <2>1. m - 1 \in 1 .. Len(sent) BY <1>2, SentTypes
  <2>2. sent[m - 1].at \in Nat /\ Size(Msg(m - 1)) \in Nat BY <2>1, SentTypes, SizeNat
  <2> QED BY <1>2, <2>2 DEF After
<1> QED BY <1>1, <1>2

LEMMA AfterNext ==
    ASSUME TypeOK, Layout, NEW m \in Here
    PROVE  After(m + 1) = After(m) + Size(Msg(m))
PROOF
<1>1. m + 1 # first /\ (m + 1) - 1 = m BY SentTypes DEF Here
<1>2. sent[m].at = After(m) BY DEF Layout
<1> QED BY <1>1, <1>2 DEF After

\* The place in the stream is unique.
LEMMA PlaceIsBuffered ==
    ASSUME TypeOK, Layout, NEW p \in first .. Len(sent) + 1, NEW m \in Here,
           taken - bread = After(p), Buffered(m)
    PROVE  m = p
PROOF
<1>1. After(m) = After(p) BY DEF Layout, Buffered
<1>2. /\ After(m) \in Nat /\ After(p) \in Nat /\ Msg(m) \in Message
      /\ After(m + 1) \in Nat
  BY AfterNat, SentTypes DEF Here
<1>3. After(m) < After(m + 1) BY <1>2, AfterNext, SizeNat
<1>4. ~ (m < p) BY <1>1, <1>2, <1>3 DEF Layout
<1>5. ASSUME p < m PROVE FALSE
  <2>1. p \in Here /\ Msg(p) \in Message BY <1>5, SentTypes DEF Here
  <2>2. After(p + 1) \in Nat /\ After(p) < After(p + 1)
    BY <2>1, <1>2, AfterNat, AfterNext, SizeNat, SentTypes
  <2>3. After(p + 1) <= After(m) BY <2>1, <1>5 DEF Layout, Here
  <2> QED BY <2>2, <2>3, <1>1, <1>2
<1> QED BY <1>4, <1>5, SentTypes DEF Here

LEMMA InitIInv == Init => IInv
PROOF
<1> SUFFICES ASSUME Init PROVE IInv
  OBVIOUS
<1>1. Here = {} /\ After(1) = 0 BY DEF Init, Here, After
<1>2. TypeOK BY IntakeAssumption DEF Init, TypeOK
<1> QED
  BY <1>1, <1>2
  DEF Init, IInv, WholeMessages, NoneSkipped, OnlyLengthOverruns, Overrun, Layout, InPlace, Here

\* The controller sends one more message, behind all the others.
LEMMA SendStep == ASSUME IInv, ~ Overrun, NEW q \in Message, Send(q) PROVE IInv'
PROOF
<1> SUFFICES ASSUME NEW n, n = Len(sent) + 1 PROVE IInv'
  OBVIOUS
<1> DEFINE r == [msg |-> q, at |-> there, conn |-> first]
<1>1. /\ Len(sent') = n /\ n \in 1 .. MaxSent
      /\ sent'[n] = r /\ sent' \in Seq(SentRecord)
      /\ \A k \in 1 .. Len(sent) : sent'[k] = sent[k]
  <2>1. /\ Len(sent) < MaxSent /\ sent \in Seq(SentRecord)
        /\ sent' = Append(sent, r) /\ r \in SentRecord
    BY SentTypes DEF IInv, TypeOK, Send, SentRecord
  <2>2. Len(sent) \in Nat BY SentTypes DEF IInv
  <2> QED BY <2>1, <2>2, SeqFacts, IntakeAssumption
<1>2. TypeOK'
  <2>1. calls' \in Seq(Seq(STRING)) /\ Len(calls') = Len(sent')
    <3>1. calls \in Seq(Seq(STRING)) /\ Len(calls) = Len(sent)
          /\ calls' = Append(calls, <<>>)
      BY DEF IInv, TypeOK, Send
    <3>2. <<>> \in Seq(STRING) OBVIOUS
    <3> QED BY <3>1, <3>2, SeqFacts, <1>1
  <2>2. there' \in Nat /\ taken' \in 0 .. there'
    <3>1. there \in Nat /\ taken \in 0 .. there BY DEF IInv, TypeOK
    <3>2. there' = there + Size(q) /\ taken' = taken BY DEF Send
    <3>3. Size(q) \in Nat BY SizeNat
    <3> QED BY <3>1, <3>2, <3>3
  <2>3. /\ first' \in 1 .. Len(sent') + 1
        /\ tasks' \subseteq 1 .. Len(sent') /\ handled' \subseteq 1 .. Len(sent')
    <3>1. /\ first \in 1 .. Len(sent) + 1
          /\ tasks \subseteq 1 .. Len(sent) /\ handled \subseteq 1 .. Len(sent)
          /\ UNCHANGED <<first, tasks, handled>>
      BY DEF IInv, TypeOK, Send
    <3>2. Len(sent) \in Nat BY SentTypes DEF IInv
    <3> QED BY <3>1, <3>2, <1>1
  <2> QED BY <2>1, <2>2, <2>3, <1>1, IntakeAssumption DEF IInv, TypeOK, Send, SentRecord
<1>3. Here' = Here \cup {n} /\ n \notin Here BY <1>1, SentTypes DEF IInv, Send, Here
<1>4. \A k \in first .. n : After(k)' = After(k)
  <2> SUFFICES ASSUME NEW k \in first .. n PROVE After(k)' = After(k)
    OBVIOUS
  <2>1. k # first => k - 1 \in 1 .. Len(sent) BY SentTypes DEF IInv
  <2> QED BY <2>1, <1>1 DEF Send, After, Msg, Size
<1>5. there = After(n) /\ After(n + 1)' = After(n) + Size(q)
  <2>1. there = After(n) BY DEF IInv, Layout, Send
  <2>2. n + 1 # first' /\ (n + 1) - 1 = n BY SentTypes DEF IInv, Send
  <2> QED BY <2>1, <2>2, <1>1 DEF After, Msg, Size
<1>6. After(n) \in Nat /\ Size(q) \in Nat BY AfterNat, SizeNat, SentTypes DEF IInv
<1>7. Layout'
  <2>1. ASSUME NEW m \in Here' PROVE sent'[m].conn = first' /\ sent'[m].at = After(m)'
    <3>1. CASE m = n BY <3>1, <1>1, <1>4, <1>5, SentTypes DEF IInv, Send
    <3>2. CASE m # n
      <4>1. m \in Here /\ m \in 1 .. Len(sent) /\ m \in first .. n
        BY <3>2, <1>3, SentTypes DEF IInv, Here
      <4> QED BY <4>1, <1>1, <1>4 DEF IInv, Layout, Send
    <3> QED BY <3>1, <3>2
  <2>2. ASSUME NEW m \in Here', NEW k \in first .. n + 1, m < k
        PROVE  After(m + 1)' <= After(k)'
    <3> USE SentTypes DEF IInv
    <3>1. CASE m = n
      <4>1. k = n + 1 BY <3>1, <2>2
      <4> QED BY <3>1, <4>1, <1>5, <1>6
    <3>2. CASE m # n /\ k # n + 1
      <4>1. m \in Here /\ m + 1 \in first .. n /\ k \in first .. n
        <5>1. m \in Here BY <3>2, <1>3
        <5>2. TypeOK /\ first \in Nat /\ n \in Nat BY SentTypes DEF IInv
        <5>3. m + 1 \in first .. Len(sent) + 1 BY <5>1, <5>2, SentTypes
        <5>4. k \in first .. n BY <5>2, <3>2, NotLast
        <5> QED BY <5>1, <5>3, <5>4
      <4>2. After(m + 1) <= After(k) BY <4>1, <2>2 DEF Layout
      <4> QED BY <4>1, <4>2, <1>4
    <3>3. CASE m # n /\ k = n + 1
      <4>1. m \in Here /\ m + 1 \in first .. n /\ m < n BY <3>3, <1>3 DEF Here
      <4>2. After(m + 1) <= After(n) BY <4>1 DEF Layout
      <4> QED BY <4>1, <4>2, <3>3, <1>4, <1>5, <1>6, AfterNat
    <3> QED BY <3>1, <3>2, <3>3
  <2>3. there' = After(n + 1)' BY <1>5 DEF Send
  <2>4. first' = first /\ there' \in Nat BY <1>2 DEF Send, TypeOK
  <2> QED BY <2>1, <2>2, <2>3, <2>4, <1>1 DEF Layout
<1>8. ASSUME NEW m \in first .. n, NEW start, Place(m, start)
      PROVE  m \in first' .. Len(sent') + 1 /\ Place(m, start)'
  <2>1. start = After(m)' BY <1>8, <1>4 DEF Place
  <2>2. CASE m = n
    <3>1. npc = "read" => bread <= 0 BY <2>2, <1>3, <1>8 DEF Place
    <3>2. Msg(m)' = q /\ Size(Msg(m))' = Size(q) BY <2>2, <1>1 DEF Msg, Size
    <3>3. bread \in Nat BY DEF IInv, TypeOK
    <3>4. (npc = "read" => bread <= IF m \in Here THEN Size(Msg(m)) ELSE 0)'
      BY <3>1, <3>2, <3>3, <2>2, <1>3, <1>6 DEF Send
    <3> QED BY <3>4, <2>1, <1>8, <1>1, SentTypes DEF Place, Send, IInv
  <2>3. CASE m # n
    <3>1. m \in Here /\ m \in 1 .. Len(sent) BY <2>3, SentTypes DEF Here, IInv
    <3>2. m \in Here' /\ Msg(m)' = Msg(m) BY <3>1, <1>1, <1>3 DEF Msg
    <3>3. (npc = "read" => bread <= IF m \in Here THEN Size(Msg(m)) ELSE 0)'
      BY <3>1, <3>2, <1>8 DEF Place, Send, Size
    <3> QED BY <3>3, <2>1, <1>8, <1>1, SentTypes DEF Place, Send, IInv
  <2> QED BY <2>2, <2>3
<1>9. InPlace' BY <1>8 DEF IInv, InPlace, Send
<1>10. WholeMessages'
  <2>1. \A m \in Here : m \in Here' /\ Msg(m)' = Msg(m) /\ sent'[m] = sent[m]
    BY <1>1, <1>3, SentTypes DEF IInv, Msg
  <2> QED BY <2>1 DEF IInv, WholeMessages, Buffered, Send, Size
<1>11. NoneSkipped' BY <1>1 DEF IInv, NoneSkipped, Send, TypeOK
<1>12. OnlyLengthOverruns' BY DEF OnlyLengthOverruns, Overrun, Send
<1> QED BY <1>2, <1>7, <1>9, <1>10, <1>11, <1>12 DEF IInv, Send

\* Steps after which every message is where it was.
LEMMA LayoutKept ==
    ASSUME IInv, UNCHANGED <<sent, first>>
    PROVE  /\ Here' = Here
           /\ \A m \in first .. Len(sent) + 1 : After(m)' = After(m)
           /\ \A m \in Here : Msg(m)' = Msg(m)
           /\ (there' \in Nat /\ there' <= there /\ (link' = "up" => link = "up" /\ there' = there))
              => Layout'
PROOF
<1>1. Here' = Here BY DEF Here
<1>2. \A m \in Here : Msg(m)' = Msg(m) BY DEF Msg
<1>3. \A m : After(m)' = After(m) BY DEF After, Msg, Size
<1>4. Layout /\ Len(sent) + 1 \in first .. Len(sent) + 1 /\ there \in Nat
  BY DEF IInv, TypeOK
<1>5. After(Len(sent) + 1) \in Nat BY <1>4, AfterNat DEF IInv
<1>6. ASSUME there' \in Nat, there' <= there, link' = "up" => link = "up" /\ there' = there
      PROVE  Layout'
  BY <1>1, <1>3, <1>4, <1>5, <1>6 DEF Layout
<1> QED BY <1>1, <1>2, <1>3, <1>6

\* Steps that read nothing keep the place in the stream.
LEMMA PlaceKept ==
    ASSUME IInv, UNCHANGED <<sent, first, taken, bread, handled>>,
           npc' = npc, status' \in {status, "NOT_CONNECTED"}
    PROVE  InPlace' /\ NoneSkipped' /\ WholeMessages' /\ OnlyLengthOverruns'
PROOF
<1>1. \A m \in first .. Len(sent) + 1 : \A start : Place(m, start) => Place(m, start)'
  BY LayoutKept DEF Place
<1>2. InPlace' BY <1>1 DEF IInv, InPlace
<1>3. NoneSkipped' BY DEF IInv, NoneSkipped
<1>4. WholeMessages' BY LayoutKept DEF IInv, WholeMessages, Buffered
<1>5. OnlyLengthOverruns' BY LayoutKept DEF IInv, OnlyLengthOverruns, Overrun, Buffered
<1> QED BY <1>2, <1>3, <1>4, <1>5

LEMMA LoseStep == ASSUME IInv, Lose PROVE IInv'
PROOF
<1>1. TypeOK' BY IntakeAssumption DEF IInv, TypeOK, Lose
<1>2. Layout' BY LayoutKept DEF IInv, TypeOK, Lose
<1>3. InPlace' /\ NoneSkipped' /\ WholeMessages' /\ OnlyLengthOverruns'
  BY PlaceKept DEF Lose
<1> QED BY <1>1, <1>2, <1>3 DEF IInv, Lose

LEMMA SchedStep == ASSUME IInv, SchedLoop PROVE IInv'
PROOF
<1>1. TypeOK'
  <2>1. CASE Flush BY <2>1, IntakeAssumption DEF IInv, TypeOK, Flush, stream
  <2>2. CASE CloseConn BY <2>2 DEF IInv, TypeOK, CloseConn
  <2>4. CASE ConnClosed BY <2>4 DEF IInv, TypeOK, ConnClosed, stream
  <2>3. ASSUME NEW m \in tasks, Perform(m) PROVE TypeOK'
    <3>1. CASE Calls(Msg(m))
      <4>1. m \in 1 .. Len(calls) /\ calls[m] \in Seq(STRING)
        <5>1. calls \in Seq(Seq(STRING)) /\ m \in 1 .. Len(calls) BY <2>3 DEF IInv, TypeOK
        <5> QED BY <5>1, ElementFacts
      <4>2. CallbackOf(Msg(m)) \in STRING
        <5>1. CallbackOf(Msg(m)) \in Given BY <3>1 DEF Calls
        <5> QED BY <5>1, IntakeAssumption
      <4>3. Noted(calls[m], CallbackOf(Msg(m))) \in Seq(STRING)
        <5>1. Append(calls[m], CallbackOf(Msg(m))) \in Seq(STRING) BY <4>1, <4>2, SeqFacts
        <5> QED BY <5>1, <4>1 DEF Noted
      <4>4. calls' = [calls EXCEPT ![m] = Noted(calls[m], CallbackOf(Msg(m)))]
        BY <2>3, <3>1 DEF Perform
      <4>5. calls' \in Seq(Seq(STRING)) /\ Len(calls') = Len(calls)
        BY <4>1, <4>3, <4>4, SeqFacts DEF IInv, TypeOK
      <4> QED BY <4>5, <2>3 DEF IInv, TypeOK, Perform, stream
    <3>2. CASE ~ Calls(Msg(m)) BY <3>2, <2>3 DEF IInv, TypeOK, Perform, stream
    <3> QED BY <3>1, <3>2
  <2> QED BY <2>1, <2>2, <2>3, <2>4 DEF SchedLoop
<1>2. /\ UNCHANGED <<sent, first, taken, bread, handled, there, npc>>
      /\ link' \in {link, "down"} /\ status' \in {status, "NOT_CONNECTED"}
  BY DEF SchedLoop, Flush, CloseConn, ConnClosed, Perform, stream
<1>3. Layout' BY <1>2, LayoutKept DEF IInv, TypeOK
<1>4. InPlace' /\ NoneSkipped' /\ WholeMessages' /\ OnlyLengthOverruns'
  BY <1>2, PlaceKept
<1> QED BY <1>1, <1>3, <1>4 DEF IInv, SchedLoop, Flush, CloseConn, ConnClosed, Perform

-----------------------------------------------------------------------------
(* net_loop                                                                 *)

LEMMA ConnectStep == ASSUME IInv, Connect PROVE IInv'
PROOF
<1>1. TypeOK' BY IntakeAssumption DEF IInv, TypeOK, Connect
<1>2. Here' = {} /\ first' = Len(sent) + 1 /\ After(first)' = 0
  BY SentTypes DEF IInv, Connect, Here, After
<1>3. Layout'
  <2>1. sent' = sent /\ there' = 0 BY DEF Connect
  <2> QED BY <1>2, <2>1 DEF Layout
<1>4. ASSUME NEW f, f = Len(sent) + 1 PROVE f \in first' .. Len(sent') + 1 /\ Place(f, 0)'
  <2>1. f = first' /\ f \in Nat /\ Here' = {} BY <1>2, <1>4, SentTypes DEF IInv
  <2>2. After(f)' = 0 BY <2>1 DEF After
  <2>3. \A k \in handled : k < f BY <1>4, SentTypes DEF IInv, TypeOK
  <2> QED BY <2>1, <2>2, <2>3, <1>4 DEF Place, Connect
<1>5. InPlace' BY <1>2, <1>4 DEF InPlace, Connect
<1>6. NoneSkipped' /\ WholeMessages' /\ OnlyLengthOverruns'
  BY DEF IInv, NoneSkipped, WholeMessages, OnlyLengthOverruns, Overrun, Connect
<1> QED BY <1>1, <1>3, <1>5, <1>6 DEF IInv, Connect

\* A message is begun.
LEMMA CollectStep == ASSUME IInv, Connected \/ Collect PROVE IInv'
PROOF
<1>0. /\ UNCHANGED <<sent, first, link, there, taken, tasks, handled, calls, spc, trouble>>
      /\ status' = "CONNECTED" /\ bread' = 0 /\ npc' = "read"
      /\ npc = "greet" \/ (npc = "top" /\ status = "CONNECTED")
  BY DEF Connected, Collect, stream
<1>1. TypeOK' BY <1>0 DEF IInv, TypeOK
<1>2. Layout' BY <1>0, LayoutKept DEF IInv, TypeOK
<1>3. PICK p \in first .. Len(sent) + 1 : Place(p, taken) BY <1>0 DEF IInv, InPlace
<1>4. p \in Here => 0 <= Size(Msg(p)) BY SizeNat, SentTypes DEF IInv
<1>5. Place(p, taken)' BY <1>0, <1>3, <1>4, LayoutKept DEF Place
<1>6. InPlace' BY <1>0, <1>5 DEF InPlace, IInv, TypeOK
<1>7. NoneSkipped' /\ WholeMessages' /\ OnlyLengthOverruns'
  BY <1>0 DEF IInv, NoneSkipped, WholeMessages, OnlyLengthOverruns, Overrun
<1> QED BY <1>0, <1>1, <1>2, <1>6, <1>7 DEF IInv

\* What is received belongs to the message the thread is at.
LEMMA RecvStep ==
    ASSUME IInv, NEW p \in first .. Len(sent) + 1, Place(p, taken - bread), NEW size,
           size \in Nat, p \in Here => size <= Size(Msg(p)),
           p \in Here /\ BufSize < size => size = Msg(p).len, Recv(size)
    PROVE  IInv'
PROOF
<1>1. PICK n \in 1 .. (size - bread) : /\ taken + n <= there
                                      /\ taken' = taken + n
                                      /\ bread' = bread + n
  BY DEF Recv
<1>2. TypeOK'
  <2>1. taken' \in 0 .. there /\ bread' \in Nat /\ bread' <= taken'
    BY <1>1 DEF IInv, TypeOK, Recv
  <2> QED BY <2>1 DEF IInv, TypeOK, Recv
<1>3. Layout' BY LayoutKept DEF IInv, TypeOK, Recv
<1>4. p \in Here
  <2>1. p # Len(sent) + 1
    <3> SUFFICES ASSUME p = Len(sent) + 1 PROVE FALSE
      OBVIOUS
    <3>1. taken - bread = After(p) /\ bread <= 0 BY DEF Place, Recv, Here
    <3>2. there <= After(p) BY DEF IInv, Layout
    <3> QED BY <3>1, <3>2, <1>1 DEF IInv, TypeOK
  <2> QED BY <2>1, SentTypes DEF Here, IInv
<1>5. Size(Msg(p)) \in Nat /\ bread' <= Size(Msg(p)) /\ taken' - bread' = taken - bread
  <2>1. Msg(p) \in Message BY <1>4, SentTypes DEF IInv
  <2>2. size \in Nat /\ bread \in Nat /\ taken \in Nat /\ bread + n <= size
    BY <1>1 DEF IInv, TypeOK
  <2> QED BY <1>1, <1>4, <2>1, <2>2, SizeNat
<1>6. Place(p, taken - bread)' BY <1>4, <1>5, LayoutKept DEF Place, Recv
<1>7. InPlace' BY <1>6 DEF InPlace, Recv
<1>8. p \in Here' /\ Buffered(p)'
  <2>1. sent[p].at = taken - bread BY <1>4 DEF IInv, Layout, Place
  <2> QED BY <2>1, <1>4, <1>5, LayoutKept DEF Buffered, Recv
<1>9. WholeMessages' BY <1>4, <1>5, <1>8, LayoutKept DEF WholeMessages, Recv, Size
<1>10. NoneSkipped' BY DEF IInv, NoneSkipped, Recv
<1>11. OnlyLengthOverruns'
  <2> SUFFICES ASSUME Overrun' PROVE bread' <= Msg(p).len /\ BufSize < Msg(p).len
    BY <1>4, <1>8, LayoutKept DEF OnlyLengthOverruns, Recv
  <2>1. ~ (bread' <= BufSize) BY DEF Overrun, Recv
  <2>2. bread' \in Nat /\ bread' <= size /\ BufSize \in Nat
    BY <1>1, IntakeAssumption DEF IInv, TypeOK
  <2> QED BY <2>1, <2>2, <1>4
<1> QED BY <1>2, <1>3, <1>7, <1>9, <1>10, <1>11 DEF IInv, Recv

LEMMA ReadStep == ASSUME IInv, RecvHeader \/ RecvBody PROVE IInv'
PROOF
<1>1. npc = "read" BY DEF RecvHeader, RecvBody, Recv
<1>2. PICK p \in first .. Len(sent) + 1 : Place(p, taken - bread)
  BY <1>1 DEF IInv, InPlace
<1>3. CASE RecvHeader
  <2>1. p \in Here => Header <= Size(Msg(p)) BY SizeNat, SentTypes DEF IInv
  <2> QED BY <1>2, <1>3, <2>1, RecvStep, IntakeAssumption DEF RecvHeader
<1>4. CASE RecvBody
  <2>1. PICK m \in Here : Buffered(m) /\ Recv(Msg(m).len) BY <1>4 DEF RecvBody
  <2>2. m = p BY <2>1, <1>2, PlaceIsBuffered DEF IInv, Place
  <2>3. Msg(m) \in Message /\ Msg(m).len \in Nat
    BY SentTypes, IntakeAssumption DEF IInv
  <2>4. Msg(m).len <= Size(Msg(m)) BY <2>3, SizeNat
  <2> QED BY <1>2, <2>1, <2>2, <2>3, <2>4, RecvStep, IntakeAssumption
<1> QED BY <1>3, <1>4

LEMMA CloseStep == ASSUME IInv, Close, trouble' \in 0 .. MaxTrouble PROVE IInv'
PROOF
<1>1. TypeOK' BY DEF IInv, TypeOK, Close
<1>2. Layout' BY LayoutKept DEF IInv, TypeOK, Close
<1>3. InPlace' BY DEF InPlace, Close
<1>4. NoneSkipped' /\ WholeMessages' /\ OnlyLengthOverruns'
  BY DEF IInv, NoneSkipped, WholeMessages, OnlyLengthOverruns, Overrun, Close
<1> QED BY <1>1, <1>2, <1>3, <1>4 DEF IInv, Close

LEMMA ClosedStep == ASSUME IInv, Closed PROVE IInv'
PROOF
<1>1. TypeOK' BY DEF IInv, TypeOK, Closed, stream
<1>2. Layout' BY LayoutKept DEF IInv, TypeOK, Closed, stream
<1>3. InPlace' BY DEF InPlace, Closed
<1>4. NoneSkipped' /\ WholeMessages' /\ OnlyLengthOverruns'
  BY DEF IInv, NoneSkipped, WholeMessages, OnlyLengthOverruns, Overrun, Closed
<1> QED BY <1>1, <1>2, <1>3, <1>4 DEF IInv, Closed

\* The message processed is the one the thread is at; the next one follows.
LEMMA ProcessPlace ==
    ASSUME IInv, NEW m \in Here, Process(m)
    PROVE  Place(m, taken - bread) /\ bread = Size(Msg(m)) /\ taken = After(m + 1)
PROOF
<1>1. PICK p \in first .. Len(sent) + 1 : Place(p, taken - bread)
  BY DEF IInv, InPlace, Process
<1>2. m = p BY <1>1, PlaceIsBuffered DEF IInv, Place, Process
<1>3. Msg(m) \in Message BY SentTypes DEF IInv
<1>4. bread = Size(Msg(m))
  <2>1. Msg(m).len \in Nat /\ Header \in Nat BY <1>3, IntakeAssumption
  <2> QED BY <2>1 DEF Process, Size
<1>5. taken = After(m) + Size(Msg(m)) /\ After(m) \in Nat
  <2>1. taken - bread = After(m) /\ taken \in Nat /\ bread \in Nat
    BY <1>1, <1>2 DEF Place, IInv, TypeOK
  <2>2. After(m) \in Nat BY AfterNat, <1>1, <1>2 DEF IInv
  <2> QED BY <1>4, <2>1, <2>2
<1> QED BY <1>1, <1>2, <1>4, <1>5, AfterNext DEF IInv

LEMMA ProcessStep == ASSUME IInv, NEW m \in Here, Process(m) PROVE IInv'
PROOF
<1>1. m \in 1 .. Len(sent) BY SentTypes DEF IInv
<1>2. TypeOK' BY <1>1 DEF IInv, TypeOK, Process, stream
<1>3. Layout' BY LayoutKept DEF IInv, TypeOK, Process, stream
<1>4. m + 1 \in first .. Len(sent) + 1 BY SentTypes DEF IInv
<1>5. first .. m \subseteq handled' /\ \A k \in handled' : k < m + 1
  <2>1. first .. m - 1 \subseteq handled /\ \A k \in handled : k < m BY ProcessPlace DEF Place
  <2>3. \A k \in handled : k \in Nat BY DEF IInv, TypeOK
  <2>2. handled' = handled \cup {m} /\ m \in Nat /\ first \in Nat
    BY <1>1, SentTypes DEF Process, IInv
  <2> QED BY <2>1, <2>2, <2>3
<1>6. Place(m + 1, taken)'
  <2>1. (m + 1) - 1 = m BY <1>1
  <2> QED BY <1>4, <1>5, <2>1, ProcessPlace, LayoutKept DEF Place, Process, stream
<1>7. InPlace' BY <1>4, <1>6 DEF InPlace, Process, stream
<1>8. NoneSkipped'
  <2>1. sent[m].conn = first BY DEF IInv, Layout
  <2> QED BY <2>1, <1>5 DEF IInv, NoneSkipped, Process
<1>9. WholeMessages' /\ OnlyLengthOverruns'
  BY DEF WholeMessages, OnlyLengthOverruns, Overrun, Process
<1> QED BY <1>2, <1>3, <1>7, <1>8, <1>9 DEF IInv, Process

LEMMA NextIInv == IInv /\ [Next]_vars => IInv'
PROOF
<1> SUFFICES ASSUME IInv, [Next]_vars PROVE IInv'
  OBVIOUS
<1>1. CASE Lose BY <1>1, LoseStep
<1>2. CASE Connect BY <1>2, ConnectStep
<1>3. CASE Connected \/ Collect BY <1>3, CollectStep
<1>4. CASE RecvHeader \/ RecvBody BY <1>4, ReadStep
<1>5. CASE RecvFails \/ Reject \/ GreetFails
  <2>1. Close BY <1>5 DEF RecvFails, Reject, GreetFails
  <2>2. trouble' \in 0 .. MaxTrouble
    BY <1>5, IntakeAssumption DEF RecvFails, Reject, GreetFails, IInv, TypeOK
  <2> QED BY <2>1, <2>2, CloseStep
<1>6. CASE Closed BY <1>6, ClosedStep
<1>7. CASE \E m \in Here : Process(m) BY <1>7, ProcessStep
<1>8. CASE SchedLoop BY <1>8, SchedStep
<1>9. CASE ~ Overrun /\ \E q \in Message : Send(q) BY <1>9, SendStep
<1>10. CASE UNCHANGED vars
  <2>1. UNCHANGED <<sent, first, taken, bread, handled, there, npc, link, status>>
    BY <1>10 DEF vars, stream
  <2>2. TypeOK' BY <1>10 DEF IInv, TypeOK, vars, stream
  <2>3. Layout' BY <2>1, LayoutKept DEF IInv, TypeOK
  <2>4. InPlace' /\ NoneSkipped' /\ WholeMessages' /\ OnlyLengthOverruns' BY <2>1, PlaceKept
  <2> QED BY <1>10, <2>2, <2>3, <2>4 DEF IInv, vars
<1> QED
  BY <1>1, <1>2, <1>3, <1>4, <1>5, <1>6, <1>7, <1>8, <1>9, <1>10
  DEF Next, NetLoop, Undefined

-----------------------------------------------------------------------------
(* The theorems.                                                            *)

\* The inductive invariant: the messages of a connection lie end to end, and
\* net_loop stands at the beginning of the first it has not processed.
THEOREM IntakeInvariant == Spec => []IInv
PROOF BY InitIInv, NextIInv, PTL DEF Spec

\* Type correctness; what net_loop counts as collected was read from the
\* connection that stands.
THEOREM IntakeTypeOK == Spec => []TypeOK
PROOF
<1>1. IInv => TypeOK BY DEF IInv
<1> QED BY <1>1, IntakeInvariant, PTL

\* However recv() cuts the stream and whoever closes the socket, net_loop joins
\* no bytes of two messages or of two connections.
THEOREM IntakeWholeMessages == Spec => []WholeMessages
PROOF
<1>1. IInv => WholeMessages BY DEF IInv
<1> QED BY <1>1, IntakeInvariant, PTL

\* A message is processed only after all the earlier ones of its connection.
THEOREM IntakeNoneSkipped == Spec => []NoneSkipped
PROOF
<1>1. IInv => NoneSkipped BY DEF IInv
<1> QED BY <1>1, IntakeInvariant, PTL

\* Only a message that announces more than the buffer runs over its end,
\* wherever the stream is cut and however many messages follow each other.
THEOREM IntakeOnlyLengthOverruns == Spec => []OnlyLengthOverruns
PROOF
<1>1. IInv => OnlyLengthOverruns BY DEF IInv
<1> QED BY <1>1, IntakeInvariant, PTL
-----------------------------------------------------------------------------
(* Refinement.                                                              *)

\* Dispatch and performer come to the callback that is documented.
LEMMA CallsPromised ==
    ASSUME NEW q \in Message, CallbackOf(q) # NoTask
    PROVE  /\ CallbackOf(q) = Promised(q)
           /\ q.class = "SCHEDULE" <=> TaskFor(q) = "CELL_MEASURE"
PROOF
<1>1. q.req \in BOOLEAN BY IntakeAssumption
<1>2. /\ DOMAIN SingleTask = {"ECAP", "HANDOVER", "RAN_SETUP", "RAN_SLICE"}
      /\ DOMAIN SliceCallback = {"UNSPECIFIED", "ADD", "REM", "SET"}
  BY DEF SingleTask, SliceCallback
<1>3. CASE q.class = "SINGLE" /\ q.req /\ q.act = "ECAP"
  BY <1>2, <1>3 DEF CallbackOf, TaskFor, SingleTask, Promised, NoTask
<1>4. CASE q.class = "SINGLE" /\ q.req /\ q.act = "HANDOVER"
  BY <1>2, <1>4 DEF CallbackOf, TaskFor, SingleTask, Promised, NoTask
<1>5. CASE q.class = "SINGLE" /\ q.req /\ q.act = "RAN_SETUP"
  BY <1>2, <1>5 DEF CallbackOf, TaskFor, SingleTask, Promised, NoTask
<1>6. CASE q.class = "SINGLE" /\ q.req /\ q.act = "RAN_SLICE"
  <2>1. TaskFor(q) = "RAN_SLICE" BY <1>2, <1>6 DEF TaskFor, SingleTask
  <2>2. q.op \in DOMAIN SliceCallback /\ CallbackOf(q) = SliceCallback[q.op]
    BY <2>1 DEF CallbackOf
  <2> QED BY <1>2, <1>6, <2>1, <2>2 DEF SliceCallback, Promised
<1>7. CASE q.class = "SCHEDULE" /\ q.req /\ q.act = "CELL_MEASURE"
  BY <1>7 DEF CallbackOf, TaskFor, Promised, NoTask
<1>8. TaskFor(q) # NoTask BY DEF CallbackOf, NoTask
<1> QED BY <1>2, <1>3, <1>4, <1>5, <1>6, <1>7, <1>8 DEF TaskFor

asked == [m \in DOMAIN sent |-> Msg(m)]

LEMMA AskedKept == ASSUME sent' = sent PROVE asked' = asked
PROOF BY DEF asked, Msg

LEMMA OpenForgets ==
    ASSUME sent' = sent, calls' = calls, Open' \subseteq Open
    PROVE  Order!Forget
PROOF BY AskedKept DEF Order!Forget, asked

LEMMA SendAsks == ASSUME IInv, NEW q \in Message, Send(q) PROVE Order!Ask(q)
PROOF
<1> SUFFICES ASSUME NEW n, n = Len(sent) + 1 PROVE Order!Ask(q)
  OBVIOUS
<1> DEFINE r == [msg |-> q, at |-> there, conn |-> first]
<1>1. /\ sent \in Seq(SentRecord) /\ r \in SentRecord /\ sent' = Append(sent, r)
      /\ Len(sent) \in Nat
  BY SentTypes DEF IInv, TypeOK, Send, SentRecord
<1>2. /\ Len(sent') = n /\ sent'[n] = r /\ sent' \in Seq(SentRecord)
      /\ \A k \in 1 .. Len(sent) : sent'[k] = sent[k]
  BY <1>1, SeqFacts
<1>3. /\ asked \in Seq(Message) /\ Len(asked) = Len(sent)
      /\ \A k \in 1 .. Len(sent) : asked[k] = Msg(k)
  <2>1. DOMAIN sent = 1 .. Len(sent) BY <1>1
  <2>2. asked = [m \in 1 .. Len(sent) |-> Msg(m)] BY <2>1 DEF asked
  <2>3. \A k \in 1 .. Len(sent) : Msg(k) \in Message BY SentTypes DEF IInv
  <2> QED BY <1>1, <2>2, <2>3
<1>4. asked' = [m \in 1 .. n |-> IF m = n THEN q ELSE asked[m]]
  <2>1. DOMAIN sent' = 1 .. n BY <1>2
  <2>2. \A m \in 1 .. n : Msg(m)' = IF m = n THEN q ELSE asked[m]
    BY <1>1, <1>2, <1>3 DEF Msg
  <2> QED BY <2>1, <2>2 DEF asked
<1>5. asked' = Append(asked, q)
  <2>1. /\ Append(asked, q) \in Seq(Message) /\ Len(Append(asked, q)) = n
        /\ Append(asked, q)[n] = q
        /\ \A k \in 1 .. Len(sent) : Append(asked, q)[k] = asked[k]
    BY <1>3, SeqFacts
  <2>2. \A k \in 1 .. n : (IF k = n THEN q ELSE asked[k]) \in Message BY <1>1, <1>3, ElementFacts
  <2>3. asked' \in Seq(Message) /\ Len(asked') = n BY <1>1, <1>4, <2>2
  <2>4. \A k \in 1 .. n : asked'[k] = Append(asked, q)[k] BY <1>1, <1>4, <2>1
  <2> QED BY <2>1, <2>3, <2>4, SeqEqual
<1>6. Here' = Here \cup {n} BY <1>1, <1>2, SentTypes DEF Here, Send, IInv
<1>7. n \notin handled BY SentTypes DEF IInv, TypeOK
<1>8. Open' = Open \cup {n} BY <1>6, <1>7 DEF Open, Send
<1>9. calls' = Append(calls, <<>>) BY DEF Send
<1> QED BY <1>3, <1>5, <1>8, <1>9 DEF Order!Ask, asked

LEMMA PerformCarriesOut ==
    ASSUME IInv, NEW m \in tasks, Perform(m)
    PROVE  Order!Next \/ UNCHANGED Order!vars
PROOF
<1>1. /\ m \in Open /\ m \in 1 .. Len(sent) /\ m \in DOMAIN sent /\ Msg(m) \in Message
      /\ asked[m] = Msg(m)
  <2>1. m \in 1 .. Len(sent) /\ sent \in Seq(SentRecord) BY DEF IInv, TypeOK, SentRecord
  <2>2. m \in DOMAIN sent BY <2>1
  <2> QED BY <2>1, <2>2, SentTypes DEF asked, Open, IInv
<1>2. sent' = sent /\ Here' = Here /\ handled' = handled BY DEF Perform, Here
<1>3. CASE Calls(Msg(m))
  <2>1. CallbackOf(Msg(m)) # NoTask BY <1>3, IntakeAssumption DEF Calls
  <2>2. CallbackOf(Msg(m)) = Promised(Msg(m)) BY <1>1, <2>1, CallsPromised
  <2>3. Msg(m) \in {q \in Message : q.class = "SCHEDULE"} <=> TaskFor(Msg(m)) = "CELL_MEASURE"
    BY <1>1, <2>1, CallsPromised
  <2>4. m \notin Here \ handled BY DEF IInv
  <2>5. Open' = IF TaskFor(Msg(m)) = "CELL_MEASURE" THEN Open ELSE Open \ {m}
    BY <1>2, <2>4 DEF Open, Perform
  <2>6. calls' = [calls EXCEPT ![m] = Order!Noted(@, Promised(Msg(m)))]
    BY <1>3, <2>2 DEF Perform, Noted, Order!Noted
  <2>7. Order!CarryOut(m)
    BY <1>1, <1>2, <2>1, <2>2, <2>3, <2>5, <2>6, AskedKept DEF Order!CarryOut, asked
  <2> QED BY <1>1, <2>7 DEF Order!Next
<1>4. CASE ~ Calls(Msg(m))
  <2>1. Open' \subseteq Open BY <1>2 DEF Open, Perform
  <2> QED BY <1>2, <1>4, <2>1, OpenForgets DEF Perform, Order!Next
<1> QED BY <1>3, <1>4

\* Every other step forgets orders, or nothing.
LEMMA StepImplements ==
    ASSUME IInv, [Next]_vars
    PROVE  Order!Next \/ UNCHANGED Order!vars
PROOF
<1>1. CASE Lose BY <1>1, OpenForgets DEF Lose, Open, Here, Order!Next
<1>2. CASE Connect
  <2>1. Here' = {} BY <1>2, SentTypes DEF Here, Connect, IInv
  <2> QED BY <1>2, <2>1, OpenForgets DEF Connect, Open, Order!Next
<1>3. CASE Connected \/ Collect \/ Closed \/ ConnClosed
  BY <1>3, OpenForgets DEF Connected, Collect, Closed, ConnClosed, Open, Here, Order!Next
<1>4. CASE RecvHeader BY <1>4, OpenForgets DEF RecvHeader, Recv, Open, Here, Order!Next
<1>5. CASE RecvBody BY <1>5, OpenForgets DEF RecvBody, Recv, Open, Here, Order!Next
<1>6. CASE RecvFails \/ Reject \/ GreetFails
  BY <1>6, OpenForgets DEF RecvFails, Reject, GreetFails, Close, Open, Here, Order!Next
<1>7. ASSUME NEW m \in Here, Process(m) PROVE Order!Next
  <2>1. m \notin handled BY <1>7, ProcessPlace, SentTypes DEF Place, IInv
  <2>2. Open' \subseteq Open BY <1>7, <2>1 DEF Process, Open, Here
  <2> QED BY <1>7, <2>2, OpenForgets DEF Process, Order!Next
<1>8. CASE Flush BY <1>8, OpenForgets DEF Flush, Open, Here, Order!Next
<1>9. CASE CloseConn BY <1>9, OpenForgets DEF CloseConn, Open, Here, Order!Next
<1>10. ASSUME NEW m \in tasks, Perform(m) PROVE Order!Next \/ UNCHANGED Order!vars
  BY <1>10, PerformCarriesOut
<1>11. ASSUME NEW q \in Message, Send(q) PROVE Order!Next
  BY <1>11, SendAsks DEF Order!Next
<1>12. CASE UNCHANGED vars BY <1>12, OpenForgets DEF vars, Open, Here, Order!Next
<1> QED
  BY <1>1, <1>2, <1>3, <1>4, <1>5, <1>6, <1>7, <1>8, <1>9, <1>10, <1>11, <1>12
  DEF Next, NetLoop, SchedLoop, Undefined

LEMMA InitImplements == Init => Order!Init
PROOF
<1> SUFFICES ASSUME Init PROVE Order!Init
  OBVIOUS
<1>1. DOMAIN sent = {} BY DEF Init
<1>2. asked = <<>> BY <1>1 DEF asked
<1>3. Open = {} BY DEF Init, Open, Here
<1> QED BY <1>2, <1>3 DEF Init, Order!Init, asked

\* What lies between recv() and the callbacks carries out the orders of the
\* controller: single ones at most once, by the documented callback.
THEOREM IntakeImplementsOrders == Spec => OrdersSpec
PROOF
<1>1. IInv /\ [Next]_vars => [Order!Next]_(Order!vars) BY StepImplements
<1> QED BY <1>1, InitImplements, IntakeInvariant, PTL DEF Spec, OrdersSpec, Order!Spec
=============================================================================
