----------------------------- MODULE PaceProofs -----------------------------
(***************************************************************************)
(* Theorems about Pace: for every length of the second and of the milli-   *)
(* second, every set of tasks and every interval, ts_diff_to_ms is off by  *)
(* less than a millisecond, it grows with the clock, and the scheduler     *)
(* performs what is due when it is due.                                    *)
(***************************************************************************)
EXTENDS Pace, TLAPS

-----------------------------------------------------------------------------
(* Division.                                                                *)

\* The division of TLA+ rounds down.
LEMMA DivBounds ==
    ASSUME NEW d \in Int, NEW n \in Int, n > 0
    PROVE  /\ d \div n \in Int
           /\ (d \div n) * n <= d
           /\ d < (d \div n) * n + n
BY SMT

\* Quotient and remainder make up the number.
LEMMA DivMod ==
    ASSUME NEW d \in Int, NEW n \in Int, n > 0
    PROVE  /\ d % n \in 0 .. n - 1
           /\ d = n * (d \div n) + (d % n)
<1>1. d % n \in 0 .. n - 1
  BY SMT
<1>2. d = n * (d \div n) + (d % n)
  BY Z3
<1> QED BY <1>1, <1>2

LEMMA DivMonotone ==
    ASSUME NEW d \in Int, NEW e \in Int, NEW n \in Int, n > 0, d <= e
    PROVE  d \div n <= e \div n
BY SMT

\* A common positive factor does not change an order.
LEMMA CancelLess ==
    ASSUME NEW x \in Int, NEW y \in Int, NEW n \in Int, n > 0, x * n < y * n
    PROVE  x < y
<1>1. CASE x >= y
  <2>1. (x - y) * n >= 0
    BY <1>1, SMT
  <2> QED BY <2>1, SMT
<1> QED BY <1>1

LEMMA CancelLessEqual ==
    ASSUME NEW x \in Int, NEW y \in Int, NEW n \in Int, n > 0, x * n < y * n + n
    PROVE  x <= y
<1>1. x * n < (y + 1) * n
  BY SMT
<1> QED BY <1>1, CancelLess, SMT

\* The division of C rounds towards zero.
LEMMA QuotientBounds ==
    ASSUME NEW d \in Int, NEW n \in Int, n > 0
    PROVE  /\ Quotient(d, n) \in Int
           /\ d >= 0 => Quotient(d, n) * n <= d /\ d < Quotient(d, n) * n + n
           /\ d <= 0 => Quotient(d, n) * n >= d /\ d > Quotient(d, n) * n - n
<1>1. CASE d > 0
  BY <1>1, DivBounds DEF Quotient
<1>2. CASE d = 0
  <2>1. /\ 0 \div n \in Int
        /\ (0 \div n) * n <= 0
        /\ 0 < (0 \div n) * n + n
    BY DivBounds
  <2>2. 0 \div n = 0
    <3>1. 0 \div n <= 0
      BY <2>1, CancelLessEqual, SMT
    <3>2. 0 <= 0 \div n
      BY <2>1, CancelLessEqual, SMT
    <3> QED BY <2>1, <3>1, <3>2
  <2> QED BY <1>2, <2>2 DEF Quotient
<1>3. CASE d < 0
  <2> DEFINE q == (-d) \div n
  <2>1. q \in Int /\ q * n <= -d /\ -d < q * n + n
    BY DivBounds
  <2>2. Quotient(d, n) = -q
    BY <1>3 DEF Quotient
  <2>3. (-q) * n = -(q * n)
    BY <2>1, SMT
  <2> HIDE DEF q
  <2> QED BY <1>3, <2>1, <2>2, <2>3
<1> QED BY <1>1, <1>2, <1>3

\* ... and so it grows with the number that is divided.
LEMMA QuotientMonotone ==
    ASSUME NEW d \in Int, NEW e \in Int, NEW n \in Int, n > 0, d <= e
    PROVE  Quotient(d, n) <= Quotient(e, n)
<1>1. Quotient(d, n) \in Int /\ Quotient(e, n) \in Int
  BY QuotientBounds
<1>2. CASE d >= 0
  <2>1. Quotient(d, n) * n < Quotient(e, n) * n + n
    <3>1. Quotient(d, n) * n <= d /\ e < Quotient(e, n) * n + n
      BY <1>2, QuotientBounds
    <3>2. Quotient(d, n) * n \in Int /\ Quotient(e, n) * n \in Int
      BY <1>1
    <3> QED BY <3>1, <3>2
  <2> QED BY <1>1, <2>1, CancelLessEqual
<1>3. CASE e <= 0
  <2>1. Quotient(d, n) * n < Quotient(e, n) * n + n
    <3>1. d > Quotient(d, n) * n - n /\ Quotient(e, n) * n >= e
      BY <1>3, QuotientBounds
    <3>2. Quotient(d, n) * n \in Int /\ Quotient(e, n) * n \in Int
      BY <1>1
    <3> QED BY <3>1, <3>2
  <2> QED BY <1>1, <2>1, CancelLessEqual
<1>4. CASE d < 0 /\ e > 0
  <2>1. Quotient(d, n) * n < 0 * n + n
    <3>1. d > Quotient(d, n) * n - n
      BY <1>4, QuotientBounds
    <3>2. Quotient(d, n) * n \in Int /\ 0 * n = 0
      BY <1>1
    <3> QED BY <1>4, <3>1, <3>2
  <2>2. 0 * n < Quotient(e, n) * n + n
    <3>1. e < Quotient(e, n) * n + n
      BY <1>4, QuotientBounds
    <3>2. Quotient(e, n) * n \in Int /\ 0 * n = 0
      BY <1>1
    <3> QED BY <1>4, <3>1, <3>2
  <2>3. Quotient(d, n) <= 0
    BY <1>1, <2>1, CancelLessEqual
  <2>4. 0 <= Quotient(e, n)
    BY <1>1, <2>2, CancelLessEqual
  <2> QED BY <1>1, <2>3, <2>4
<1> QED BY <1>2, <1>3, <1>4

-----------------------------------------------------------------------------
(* struct timespec and ts_diff_to_ms.                                       *)

LEMMA SecondIsPositive == /\ Second \in Int /\ Second > 0
                          /\ Milli \in Int /\ Milli > 0
                          /\ Second * Milli \in Int /\ Second * Milli > 0
<1>1. Second \in Int /\ Second > 0 /\ Milli \in Int /\ Milli > 0
  BY PaceAssumption
<1>2. Second * Milli > 0
  BY <1>1, SMT
<1> QED BY <1>1, <1>2

LEMMA TimespecType ==
    ASSUME NEW t \in Int
    PROVE  Timespec(t) \in Stamps /\ Nanos(Timespec(t)) = t
<1> DEFINE u == Second * Milli
<1>1. u \in Int /\ u > 0
  BY SecondIsPositive
<1>2. t \div u \in Int /\ t % u \in 0 .. u - 1 /\ t = u * (t \div u) + (t % u)
  BY <1>1, DivBounds, DivMod
<1>3. Timespec(t) = [sec |-> t \div u, nsec |-> t % u]
  BY DEF Timespec
<1> HIDE DEF u
<1>4. u * (t \div u) = (t \div u) * u
  BY <1>1, <1>2, SMT
<1>5. Timespec(t).sec * u + Timespec(t).nsec = t
  BY <1>2, <1>3, <1>4
<1>6. Timespec(t) \in [sec : Int, nsec : 0 .. u - 1]
  BY <1>2, <1>3
<1> QED BY <1>5, <1>6 DEF u, Stamps, Nanos

\* The difference is an integer, off by less than a millisecond.
LEMMA DiffWithinAMilli ==
    ASSUME NEW a \in Stamps, NEW b \in Stamps
    PROVE  /\ TsDiffToMs(a, b) \in Int
           /\ Nanos(a) \in Int /\ Nanos(b) \in Int
           /\ TsDiffToMs(a, b) * Milli - Milli < Nanos(b) - Nanos(a)
           /\ Nanos(b) - Nanos(a) < TsDiffToMs(a, b) * Milli + Milli
<1> DEFINE ds == b.sec - a.sec
           dn == b.nsec - a.nsec
           q  == Quotient(dn, Milli)
<1>1. /\ a.sec \in Int /\ b.sec \in Int /\ a.nsec \in Int /\ b.nsec \in Int
  BY SecondIsPositive DEF Stamps
<1>2. ds \in Int /\ dn \in Int
  BY <1>1
<1>3. q \in Int /\ q * Milli - Milli < dn /\ dn < q * Milli + Milli
  <2>1. /\ q \in Int
        /\ dn >= 0 => q * Milli <= dn /\ dn < q * Milli + Milli
        /\ dn <= 0 => q * Milli >= dn /\ dn > q * Milli - Milli
    BY <1>2, SecondIsPositive, QuotientBounds
  <2>2. q * Milli \in Int /\ Milli > 0 /\ Milli \in Int
    BY <2>1, SecondIsPositive
  <2> HIDE DEF q, dn
  <2> QED BY <1>2, <2>1, <2>2
<1>4. TsDiffToMs(a, b) = ds * Second + q
  BY DEF TsDiffToMs
<1>5. Nanos(b) - Nanos(a) = ds * (Second * Milli) + dn
  BY <1>1, SecondIsPositive, SMT DEF Nanos
<1>6. Nanos(a) \in Int /\ Nanos(b) \in Int
  BY <1>1, SecondIsPositive DEF Nanos
<1> HIDE DEF ds, dn, q
<1>7. (ds * Second + q) * Milli = ds * (Second * Milli) + q * Milli
  BY <1>2, <1>3, SecondIsPositive, SMT
<1>8. /\ ds * (Second * Milli) \in Int /\ q * Milli \in Int
      /\ ds * Second + q \in Int
  BY <1>2, <1>3, SecondIsPositive
<1>9. /\ (ds * Second + q) * Milli - Milli < ds * (Second * Milli) + dn
      /\ ds * (Second * Milli) + dn < (ds * Second + q) * Milli + Milli
  BY <1>2, <1>3, <1>7, <1>8, SecondIsPositive
<1> QED BY <1>4, <1>5, <1>6, <1>8, <1>9

\* Within a second of the clock the quotient stays below the next second.
LEMMA QuotientBelowSecond ==
    ASSUME NEW d \in Int, NEW e \in Int,
           d < Second * Milli, e > -(Second * Milli), d - e < Second * Milli
    PROVE  Quotient(d, Milli) <= Second + Quotient(e, Milli)
<1> DEFINE n == Milli
           u == Second * Milli
           x == Quotient(d, n)
           y == Quotient(e, n)
<1>1. n \in Int /\ n > 0 /\ u \in Int /\ Second \in Int
  BY SecondIsPositive
<1>2. /\ x \in Int
      /\ d >= 0 => x * n <= d /\ d < x * n + n
      /\ d <= 0 => x * n >= d /\ d > x * n - n
  BY <1>1, QuotientBounds
<1>3. /\ y \in Int
      /\ e >= 0 => y * n <= e /\ e < y * n + n
      /\ e <= 0 => y * n >= e /\ e > y * n - n
  BY <1>1, QuotientBounds
<1>4. (Second + y) * n = u + y * n
  BY <1>1, <1>3, SMT
<1>5. x * n \in Int /\ y * n \in Int
  BY <1>1, <1>2, <1>3
<1>6. d < u /\ e > -u /\ d - e < u
  OBVIOUS
<1> HIDE DEF n, u, x, y
<1>7. CASE d >= 0 /\ e <= 0
  <2>1. x * n < u + y * n + n
    BY <1>1, <1>2, <1>3, <1>5, <1>6, <1>7
  <2>2. x <= Second + y
    BY <1>1, <1>2, <1>3, <1>4, <2>1, CancelLessEqual
  <2> QED BY <2>2 DEF x, y, n
<1>8. CASE d >= 0 /\ e >= 0
  <2>1. x * n < u + y * n + n
    BY <1>1, <1>2, <1>3, <1>5, <1>6, <1>8
  <2>2. x <= Second + y
    BY <1>1, <1>2, <1>3, <1>4, <2>1, CancelLessEqual
  <2> QED BY <2>2 DEF x, y, n
<1>9. CASE d <= 0
  <2>1. x * n < 0 + n
    BY <1>1, <1>2, <1>5, <1>9
  <2>2. 0 < u + y * n + n
    BY <1>1, <1>3, <1>5, <1>6
  <2>3. 0 * n = 0
    BY <1>1
  <2>4. x <= 0
    BY <1>1, <1>2, <2>1, <2>3, CancelLessEqual
  <2>5. 0 <= Second + y
    BY <1>1, <1>3, <1>4, <2>2, <2>3, CancelLessEqual
  <2>6. x <= Second + y
    BY <1>1, <1>2, <1>3, <2>4, <2>5
  <2> QED BY <2>6 DEF x, y, n
<1> QED BY <1>7, <1>8, <1>9

\* The difference grows with the clock.
LEMMA DiffMonotone ==
    ASSUME NEW a \in Stamps, NEW t \in Int, NEW v \in Int, t <= v
    PROVE  TsDiffToMs(a, Timespec(t)) <= TsDiffToMs(a, Timespec(v))
<1> DEFINE u == Second * Milli
           b == Timespec(t)
           c == Timespec(v)
<1>1. u \in Int /\ u > 0 /\ Second \in Int /\ Second > 0 /\ Milli \in Int /\ Milli > 0
  BY SecondIsPositive
<1>2. b \in Stamps /\ c \in Stamps
  BY TimespecType
<1>3. /\ a.sec \in Int /\ b.sec \in Int /\ c.sec \in Int
      /\ a.nsec \in 0 .. u - 1 /\ b.nsec \in 0 .. u - 1 /\ c.nsec \in 0 .. u - 1
  BY <1>2 DEF Stamps
<1>4. b.sec <= c.sec
  <2>1. b.sec = t \div u /\ c.sec = v \div u
    BY DEF Timespec
  <2> QED BY <1>1, <2>1, DivMonotone
<1>5. b.sec = c.sec => b.nsec <= c.nsec
  <2>1. b.sec * u + b.nsec = t /\ c.sec * u + c.nsec = v
    BY TimespecType DEF Nanos
  <2>2. b.sec * u \in Int
    BY <1>1, <1>3
  <2> HIDE DEF b, c, u
  <2> QED BY <1>1, <1>3, <2>1, <2>2
<1> HIDE DEF b, c
<1> DEFINE x == Quotient(b.nsec - a.nsec, Milli)
           y == Quotient(c.nsec - a.nsec, Milli)
<1>6. x \in Int /\ y \in Int
  <2>1. b.nsec - a.nsec \in Int /\ c.nsec - a.nsec \in Int
    BY <1>1, <1>3
  <2> QED BY <1>1, <2>1, QuotientBounds
<1>7. (b.sec - a.sec) * Second + x <= (c.sec - a.sec) * Second + y
  <2>1. CASE b.sec = c.sec
    <3>1. b.nsec - a.nsec <= c.nsec - a.nsec /\ b.nsec - a.nsec \in Int /\ c.nsec - a.nsec \in Int
      BY <1>1, <1>3, <1>5, <2>1
    <3>2. x <= y
      BY <1>1, <3>1, QuotientMonotone
    <3>3. (b.sec - a.sec) * Second \in Int
      BY <1>1, <1>3
    <3> HIDE DEF x, y
    <3> QED BY <1>6, <2>1, <3>2, <3>3
  <2>2. CASE b.sec < c.sec
    <3>1. /\ b.nsec - a.nsec < Second * Milli
          /\ c.nsec - a.nsec > -(Second * Milli)
          /\ (b.nsec - a.nsec) - (c.nsec - a.nsec) < Second * Milli
          /\ b.nsec - a.nsec \in Int /\ c.nsec - a.nsec \in Int
      BY <1>1, <1>3
    <3>2. x <= Second + y
      BY <3>1, QuotientBelowSecond
    <3>3. (b.sec - a.sec) * Second + Second <= (c.sec - a.sec) * Second
      <4>1. (c.sec - b.sec - 1) * Second >= 0
        BY <1>1, <1>3, <2>2, SMT
      <4> QED BY <1>1, <1>3, <4>1, SMT
    <3>4. (b.sec - a.sec) * Second \in Int /\ (c.sec - a.sec) * Second \in Int
      BY <1>1, <1>3
    <3> HIDE DEF x, y
    <3> QED BY <1>1, <1>6, <3>2, <3>3, <3>4
  <2> QED BY <1>3, <1>4, <2>1, <2>2
<1> QED BY <1>7 DEF TsDiffToMs, b, c

-----------------------------------------------------------------------------
(* The invariant.                                                           *)

LEMMA PaceInit == Init => IInv
<1> SUFFICES ASSUME Init PROVE IInv
  OBVIOUS
<1>1. Timespec(0) \in Stamps
  BY TimespecType
<1> QED BY <1>1, PaceAssumption DEF Init, IInv, TypeOK, WithinAMilli, OwedIsAhead

\* A due task is still due at any later time.
LEMMA DueLater ==
    ASSUME TypeOK, NEW t \in Task, NEW c \in Nat, clock <= c, Due(t, Timespec(clock))
    PROVE  Due(t, Timespec(c))
<1>1. issued[t] \in Stamps /\ clock \in Int /\ c \in Int
  BY DEF TypeOK
<1>2. /\ TsDiffToMs(issued[t], Timespec(clock)) <= TsDiffToMs(issued[t], Timespec(c))
      /\ TsDiffToMs(issued[t], Timespec(clock)) \in Int
      /\ TsDiffToMs(issued[t], Timespec(c)) \in Int
  BY <1>1, DiffMonotone, DiffWithinAMilli, TimespecType
<1>3. Elapse[t] \in Int
  BY PaceAssumption
<1> QED BY <1>2, <1>3 DEF Due

\* What the test of sched_perform_job says of the time the task has slept.
LEMMA DueMeans ==
    ASSUME TypeOK, NEW t \in Task
    PROVE  IF Due(t, now) THEN Nanos(now) - Nanos(issued[t]) > (Elapse[t] - 1) * Milli
                          ELSE Nanos(now) - Nanos(issued[t]) < Elapse[t] * Milli
<1> DEFINE d == TsDiffToMs(issued[t], now)
           s == Nanos(now) - Nanos(issued[t])
           e == Elapse[t]
<1>1. issued[t] \in Stamps /\ now \in Stamps /\ e \in Int
  BY PaceAssumption DEF TypeOK
<1>2. /\ d \in Int /\ s \in Int
      /\ d * Milli - Milli < s /\ s < d * Milli + Milli
  BY <1>1, DiffWithinAMilli
<1>3. Milli \in Int /\ Milli > 0
  BY SecondIsPositive
<1>4. Due(t, now) <=> d >= e
  BY DEF Due
<1> HIDE DEF d, s, e
<1>5. d * Milli \in Int /\ e * Milli \in Int /\ (e - 1) * Milli = e * Milli - Milli
  BY <1>1, <1>2, <1>3, SMT
<1>6. CASE d >= e
  <2>1. d * Milli >= e * Milli
    <3>1. (d - e) * Milli >= 0
      BY <1>1, <1>2, <1>3, <1>6, SMT
    <3> QED BY <1>1, <1>2, <1>3, <3>1, SMT
  <2>2. s > (e - 1) * Milli
    BY <1>2, <1>3, <1>5, <2>1
  <2> QED BY <1>4, <1>6, <2>2 DEF s, e
<1>7. CASE d < e
  <2>1. d * Milli + Milli <= e * Milli
    <3>1. (e - d - 1) * Milli >= 0
      BY <1>1, <1>2, <1>3, <1>7, SMT
    <3> QED BY <1>1, <1>2, <1>3, <3>1, SMT
  <2>2. s < e * Milli
    BY <1>2, <1>3, <1>5, <2>1
  <2>3. ~ Due(t, now)
    BY <1>1, <1>2, <1>4, <1>7
  <2> QED BY <2>2, <2>3 DEF s, e
<1> QED BY <1>1, <1>2, <1>6, <1>7

\* The clock goes on, or is set.
LEMMA ClockPreserves ==
    ASSUME IInv, NEW c \in Nat, clock' = c, sets' \in Nat, back' \in BOOLEAN,
           ~ back' => ~ back /\ clock <= c,
           UNCHANGED <<issued, stamped, jobs, todo, pc, hand, op, now, owed>>
    PROVE  IInv'
<1>1. TypeOK'
  BY DEF IInv, TypeOK
<1>2. WithinAMilli'
  BY DEF IInv, WithinAMilli, Slept
<1>3. OwedIsAhead'
  <2> SUFFICES ASSUME ~ back', NEW t \in owed
               PROVE  /\ pc # "sleep"
                      /\ t \in jobs \/ (t = hand /\ pc \in {"read", "perform"})
                      /\ Due(t, Timespec(clock))'
                      /\ t = hand /\ pc = "perform" => Due(t, now)
    BY DEF OwedIsAhead, Due
  <2>1. TypeOK /\ t \in Task /\ ~ back /\ clock <= c
    BY DEF IInv, TypeOK
  <2>2. /\ pc # "sleep"
        /\ t \in jobs \/ (t = hand /\ pc \in {"read", "perform"})
        /\ Due(t, Timespec(clock))
        /\ t = hand /\ pc = "perform" => Due(t, now)
    BY <2>1 DEF IInv, OwedIsAhead
  <2>3. Due(t, Timespec(c))
    BY <2>1, <2>2, DueLater
  <2>4. Due(t, Timespec(clock))' = Due(t, Timespec(c))
    BY DEF Due, Timespec
  <2> QED BY <2>2, <2>3, <2>4
<1> QED BY <1>1, <1>2, <1>3 DEF IInv

LEMMA PaceNext == IInv /\ [Next]_vars => IInv'
<1> SUFFICES ASSUME IInv, [Next]_vars PROVE IInv'
  OBVIOUS
<1> USE PaceAssumption
<1>0. TypeOK /\ WithinAMilli /\ OwedIsAhead
  BY DEF IInv
<1>1. Timespec(clock) \in Stamps
  BY <1>0, TimespecType DEF TypeOK
<1>2. CASE Tick
  <2>1. /\ clock + 1 \in Nat /\ clock' = clock + 1 /\ clock <= clock + 1
        /\ sets' \in Nat /\ back' \in BOOLEAN /\ back' = back
        /\ UNCHANGED <<issued, stamped, jobs, todo, pc, hand, op, now, owed>>
    BY <1>0, <1>2 DEF Tick, TypeOK
  <2> QED BY <2>1, ClockPreserves
<1>3. CASE \E c \in 0 .. MaxClock : SetClock(c)
  <2> PICK c \in 0 .. MaxClock : SetClock(c)
    BY <1>3
  <2>1. /\ clock' = c /\ sets' = sets + 1
        /\ back' = (back \/ c < clock)
        /\ UNCHANGED <<issued, stamped, jobs, todo, pc, hand, op, now, owed>>
    BY DEF SetClock
  <2>2. c \in Nat /\ clock \in Nat /\ sets' \in Nat
    BY <1>0, <2>1 DEF TypeOK
  <2>3. back' \in BOOLEAN
    BY <2>1
  <2>4. ~ back' => ~ back /\ ~ (c < clock)
    BY <2>1
  <2>5. ~ (c < clock) => clock <= c
    BY <2>2
  <2> QED BY <2>1, <2>2, <2>3, <2>4, <2>5, ClockPreserves
<1>4. CASE \E t \in Task : Stamp(t)
  <2> PICK t \in Task : Stamp(t)
    BY <1>4
  <2>1. TypeOK'
    BY <1>0, <1>1 DEF Stamp, TypeOK, clockVars
  <2>2. WithinAMilli'
    BY <1>0 DEF Stamp, WithinAMilli, Slept, TypeOK
  <2>3. OwedIsAhead'
    BY <1>0 DEF Stamp, OwedIsAhead, Due, TypeOK, clockVars
  <2> QED BY <2>1, <2>2, <2>3 DEF IInv
<1>5. CASE \E t \in Task : AddTask(t)
  <2> PICK t \in Task : AddTask(t)
    BY <1>5
  <2>1. TypeOK'
    BY <1>0 DEF AddTask, TypeOK, clockVars
  <2>2. WithinAMilli'
    BY <1>0 DEF AddTask, WithinAMilli, Slept
  <2>3. OwedIsAhead'
    BY <1>0 DEF AddTask, OwedIsAhead, Due, clockVars
  <2> QED BY <2>1, <2>2, <2>3 DEF IInv
<1>6. CASE \E t \in Task : Pop(t)
  <2> PICK t \in Task : Pop(t)
    BY <1>6
  <2>1. TypeOK'
    BY <1>0 DEF Pop, TypeOK, clockVars
  <2>2. WithinAMilli'
    BY <1>0 DEF Pop, WithinAMilli
  <2>3. OwedIsAhead'
    BY <1>0 DEF Pop, OwedIsAhead, Due, clockVars, TypeOK
  <2> QED BY <2>1, <2>2, <2>3 DEF IInv
<1>7. CASE Begin
  <2>1. TypeOK'
    BY <1>0, <1>7 DEF Begin, TypeOK
  <2>2. WithinAMilli'
    BY <1>0, <1>7 DEF Begin, WithinAMilli
  <2>3. OwedIsAhead'
    <3>1. \A t \in owed' : t \in jobs' /\ Due(t, Timespec(clock))'
      BY <1>7 DEF Begin, Due
    <3>2. pc' = "pop" /\ hand' = NoTask /\ owed' \subseteq Task
      BY <1>0, <1>7 DEF Begin, TypeOK
    <3> QED BY <3>1, <3>2 DEF OwedIsAhead
  <2> QED BY <2>1, <2>2, <2>3 DEF IInv
<1>8. CASE ReadClock
  <2>1. TypeOK'
    BY <1>0, <1>1, <1>8 DEF ReadClock, TypeOK, clockVars
  <2>2. WithinAMilli'
    BY <1>0, <1>8 DEF ReadClock, WithinAMilli
  <2>3. OwedIsAhead'
    BY <1>0, <1>8 DEF ReadClock, OwedIsAhead, Due, clockVars
  <2> QED BY <2>1, <2>2, <2>3 DEF IInv
<1>9. CASE TooEarly
  <2>1. TypeOK'
    BY <1>0, <1>9 DEF TooEarly, TypeOK, clockVars
  <2>2. WithinAMilli'
    <3>1. hand \in Task
      BY <1>0, <1>9 DEF TooEarly, TypeOK
    <3>2. Slept < Elapse[hand] * Milli
      BY <1>0, <1>9, <3>1, DueMeans DEF TooEarly, Slept
    <3> QED BY <1>9, <3>2 DEF TooEarly, WithinAMilli, Slept
  <2>3. OwedIsAhead'
    BY <1>0, <1>9 DEF TooEarly, OwedIsAhead, Due, clockVars, TypeOK
  <2> QED BY <2>1, <2>2, <2>3 DEF IInv
<1>10. CASE Perform
  <2>1. TypeOK'
    BY <1>0, <1>10 DEF Perform, TypeOK, clockVars
  <2>2. WithinAMilli'
    <3>1. hand \in Task
      BY <1>0, <1>10 DEF Perform, TypeOK
    <3>2. Slept > (Elapse[hand] - 1) * Milli
      BY <1>0, <1>10, <3>1, DueMeans DEF Perform, Slept
    <3> QED BY <1>10, <3>2 DEF Perform, WithinAMilli, Slept
  <2>3. OwedIsAhead'
    BY <1>0, <1>10 DEF Perform, OwedIsAhead, Due, clockVars, TypeOK
  <2> QED BY <2>1, <2>2, <2>3 DEF IInv
<1>11. CASE Wait
  <2>1. TypeOK'
    <3>1. hand \in Task /\ hand # NoTask
      BY <1>0, <1>11 DEF Wait, TypeOK
    <3>2. issued' \in [Task -> Stamps]
      BY <1>0, <1>11, <3>1 DEF Wait, TypeOK
    <3> QED BY <1>0, <1>11, <3>1, <3>2 DEF Wait, TypeOK, clockVars
  <2>2. WithinAMilli'
    BY <1>0, <1>11 DEF Wait, WithinAMilli
  <2>3. OwedIsAhead'
    <3>1. \A t \in Task : t # hand => issued'[t] = issued[t]
      BY <1>0, <1>11 DEF Wait, TypeOK
    <3>2. hand \notin jobs /\ owed \subseteq Task
      BY <1>0 DEF TypeOK, PaceAssumption
    <3> QED BY <1>0, <1>11, <3>1, <3>2 DEF Wait, OwedIsAhead, Due, clockVars
  <2> QED BY <2>1, <2>2, <2>3 DEF IInv
<1>12. CASE Consumed
  <2>1. TypeOK'
    BY <1>0, <1>12 DEF Consumed, TypeOK, clockVars
  <2>2. WithinAMilli'
    BY <1>0, <1>12 DEF Consumed, WithinAMilli
  <2>3. OwedIsAhead'
    BY <1>0, <1>12 DEF Consumed, OwedIsAhead, Due, clockVars
  <2> QED BY <2>1, <2>2, <2>3 DEF IInv
<1>13. CASE NetError
  <2>1. TypeOK'
    BY <1>0, <1>13 DEF NetError, TypeOK, clockVars
  <2>2. WithinAMilli'
    BY <1>0, <1>13 DEF NetError, WithinAMilli
  <2>3. OwedIsAhead'
    BY <1>0, <1>13 DEF NetError, OwedIsAhead
  <2> QED BY <2>1, <2>2, <2>3 DEF IInv
<1>14. CASE RoundEnds
  <2>1. TypeOK'
    BY <1>0, <1>14 DEF RoundEnds, TypeOK, clockVars
  <2>2. WithinAMilli'
    BY <1>0, <1>14 DEF RoundEnds, WithinAMilli
  <2>3. OwedIsAhead'
    BY <1>0, <1>14 DEF RoundEnds, OwedIsAhead, Due, clockVars
  <2> QED BY <2>1, <2>2, <2>3 DEF IInv
<1>15. CASE UNCHANGED vars
  BY <1>0, <1>15 DEF vars, clockVars, IInv, TypeOK, WithinAMilli, OwedIsAhead, Slept, Due
<1> QED
  BY <1>2, <1>3, <1>4, <1>5, <1>6, <1>7, <1>8, <1>9, <1>10, <1>11, <1>12, <1>13,
     <1>14, <1>15 DEF Next

-----------------------------------------------------------------------------
(* The theorems.                                                            *)

\* The invariant holds of every behaviour of the scheduler's clock.
THEOREM PaceInvariant == Spec => []IInv
BY PaceInit, PaceNext, PTL DEF Spec

\* Types; a task is in one place at a time.
THEOREM PaceTypeOK == Spec => []TypeOK
<1>1. IInv => TypeOK
  BY DEF IInv
<1> QED BY <1>1, PaceInvariant, PTL

\* sched_perform_job performs a task less than a millisecond early or later,
\* however the clock is set, for the true lengths of a second and of a
\* millisecond as for any other.
THEOREM PaceWithinAMilli == Spec => []WithinAMilli
<1>1. IInv => WithinAMilli
  BY DEF IInv
<1> QED BY <1>1, PaceInvariant, PTL

\* sched_consume performs in a round what was due when it began, unless the
\* clock was set back meanwhile.
THEOREM PaceDueIsServed == Spec => []DueIsServed
<1>1. IInv => DueIsServed
  BY DEF IInv, OwedIsAhead, DueIsServed, TypeOK
<1> QED BY <1>1, PaceInvariant, PTL
=============================================================================
