--------------------------- MODULE EmListProofs ---------------------------
(***************************************************************************)
(* The pointers of EmList make up the sequences of Lists, whatever the     *)
(* number of heads and of entries.                                         *)
(*                                                                         *)
(* The argument is in three parts.  A lemma for each way the pointers are  *)
(* changed says which lists the new pointers make up, given the lists of   *)
(* the old ones.  The walk from a head along the pointers finds the list   *)
(* they make up (OrderIs), so that OrderOf has one value only.  Then each  *)
(* operation keeps the invariant and is a step of Lists.                   *)
(***************************************************************************)
EXTENDS EmList, ListLemmas, FiniteSetTheorems, WellFoundedInduction

-----------------------------------------------------------------------------
(* The rings.                                                               *)

\* The places of the rings: each cell is at one, from 0 to the last entry and,
\* the head being met at both ends, from 1 to the one behind the last.
LEMMA Places ==
    ASSUME NEW l \in [Anchor -> Seq(Node)], Apart(l)
    PROVE  /\ \A h \in Anchor :
                /\ l[h] \in Seq(Node) /\ Len(l[h]) \in Nat
                /\ At(l[h], h, 0) = h /\ At(l[h], h, Len(l[h]) + 1) = h
                /\ \A i \in Int : At(l[h], h, i) \in Cell
                /\ \A i \in 1 .. Len(l[h]) : At(l[h], h, i) = l[h][i] /\ l[h][i] \in Node
           /\ \A g, h \in Anchor : \A i \in 0 .. Len(l[g]), j \in 0 .. Len(l[h]) :
                At(l[g], g, i) = At(l[h], h, j) => g = h /\ i = j
           /\ \A g, h \in Anchor : \A i \in 1 .. Len(l[g]) + 1, j \in 1 .. Len(l[h]) + 1 :
                At(l[g], g, i) = At(l[h], h, j) => g = h /\ i = j
PROOF
<1>1. \A h \in Anchor : l[h] \in Seq(Node) /\ Len(l[h]) \in Nat
                        /\ \A i \in 1 .. Len(l[h]) : l[h][i] \in Node
  BY LenProperties, ElementOfSeq
<1>2. \A h \in Anchor : h \notin Node
  BY EmListAssumption
<1>3. \A h \in Anchor : /\ At(l[h], h, 0) = h /\ At(l[h], h, Len(l[h]) + 1) = h
                        /\ \A i \in Int : At(l[h], h, i) \in Cell
                        /\ \A i \in 1 .. Len(l[h]) : At(l[h], h, i) = l[h][i]
  BY <1>1 DEF At, Cell
<1>4. ASSUME NEW g \in Anchor, NEW h \in Anchor, NEW i \in 0 .. Len(l[g]) + 1,
             NEW j \in 0 .. Len(l[h]) + 1, At(l[g], g, i) = At(l[h], h, j)
      PROVE  /\ g = h
             /\ i \in 1 .. Len(l[g]) \/ j \in 1 .. Len(l[h]) => i = j
  <2>1. i \in 1 .. Len(l[g]) <=> j \in 1 .. Len(l[h])
    BY <1>1, <1>2, <1>4 DEF At
  <2>2. CASE i \in 1 .. Len(l[g])
    BY <2>1, <2>2, <1>4 DEF At, Apart
  <2>3. CASE i \notin 1 .. Len(l[g])
    BY <2>1, <2>3, <1>4 DEF At
  <2> QED BY <2>2, <2>3
<1>5. ASSUME NEW g \in Anchor, NEW h \in Anchor, NEW i \in 0 .. Len(l[g]),
             NEW j \in 0 .. Len(l[h]), At(l[g], g, i) = At(l[h], h, j)
      PROVE  g = h /\ i = j
  BY <1>1, <1>4, <1>5
<1>6. ASSUME NEW g \in Anchor, NEW h \in Anchor, NEW i \in 1 .. Len(l[g]) + 1,
             NEW j \in 1 .. Len(l[h]) + 1, At(l[g], g, i) = At(l[h], h, j)
      PROVE  g = h /\ i = j
  BY <1>1, <1>4, <1>6
<1> QED BY <1>1, <1>3, <1>5, <1>6

\* __list_del: the entry at place k of h is taken off and the gap is closed;
\* its own pointers are left as they were.
LEMMA DelEntryLemma ==
    ASSUME NEW m, NEW l, Represents(m, l, {}),
           NEW h \in Anchor, NEW k \in 1 .. Len(l[h]),
           NEW s \in Seq(Node), s = RemoveAt(l[h], k)
    PROVE  Represents(DelEntry(m, l[h][k]), [l EXCEPT ![h] = s], {l[h][k]})
PROOF
<1> DEFINE x == l[h][k]
           n == Len(l[h])
           c(g, i) == At(l[g], g, i)
           l2 == [l EXCEPT ![h] = s]
           d(g, i) == At(l2[g], g, i)
           M == DelEntry(m, x)
<1>1. l \in [Anchor -> Seq(Node)] /\ Apart(l) /\ Rings(m, l)
  BY DEF Represents
<1>2. /\ l[h] \in Seq(Node) /\ n \in Nat /\ x \in Node /\ x = c(h, k) /\ k \in 1 .. n
      /\ \A g \in Anchor : Len(l[g]) \in Nat /\ c(g, 0) = g /\ c(g, Len(l[g]) + 1) = g
                           /\ \A i \in Int : c(g, i) \in Cell
  BY <1>1, Places
<1>3. \A g \in Anchor : \A i \in 0 .. Len(l[g]) : /\ m.next[c(g, i)] = c(g, i + 1)
                                                  /\ m.prev[c(g, i + 1)] = c(g, i)
  BY <1>1 DEF Rings
<1>4. \A f, g \in Anchor : \A i \in 0 .. Len(l[f]), j \in 0 .. Len(l[g]) :
        c(f, i) = c(g, j) => f = g /\ i = j
  BY <1>1, Places
<1>5. \A f, g \in Anchor : \A i \in 1 .. Len(l[f]) + 1, j \in 1 .. Len(l[g]) + 1 :
        c(f, i) = c(g, j) => f = g /\ i = j
  BY <1>1, Places
<1>6. /\ Len(s) = n - 1
      /\ \A i \in 1 .. n - 1 : /\ i < k => s[i] = l[h][i]
                               /\ i >= k => s[i] = l[h][i + 1]
  <2> DEFINE t == l[h]
  <2>1. t \in Seq(Node) /\ k \in 1 .. Len(t) /\ s = RemoveAt(t, k)
    BY <1>2
  <2> HIDE DEF t
  <2>2. Len(s) = Len(t) - 1 /\ \A i \in 1 .. Len(s) : s[i] = t[IF i < k THEN i ELSE i + 1]
    BY ONLY <2>1, RemoveLemma
  <2>3. Len(s) = n - 1 /\ \A i \in 1 .. n - 1 : s[i] = l[h][IF i < k THEN i ELSE i + 1]
    BY <2>2 DEF t
  <2> HIDE DEF n
  <2> QED BY <2>3
<1>7. l2 \in [Anchor -> Seq(Node)] /\ l2[h] = s /\ \A g \in Anchor \ {h} : l2[g] = l[g]
  BY <1>1
<1>8. /\ \A i \in 0 .. n : /\ i < k => d(h, i) = c(h, i)
                           /\ i >= k => d(h, i) = c(h, i + 1)
      /\ \A g \in Anchor \ {h} : \A i \in Int : d(g, i) = c(g, i)
  <2>1. \A i \in Int : /\ d(h, i) = IF i \in 1 .. n - 1 THEN s[i] ELSE h
                       /\ c(h, i) = IF i \in 1 .. n THEN l[h][i] ELSE h
    BY <1>6, <1>7 DEF At
  <2>2. \A g \in Anchor \ {h} : \A i \in Int : d(g, i) = c(g, i)
    BY <1>7
  <2> HIDE DEF c, d, n
  <2>3. ASSUME NEW i \in 0 .. n, i < k PROVE d(h, i) = c(h, i)
    <3>1. CASE i = 0
      BY <3>1, <2>1
    <3>2. CASE i # 0
      <4>1. i \in 1 .. n - 1 /\ i \in 1 .. n /\ i \in Int
        BY <3>2, <2>3, <1>2
      <4> QED BY <4>1, <2>1, <2>3, <1>6
    <3> QED BY <3>1, <3>2
  <2>4. ASSUME NEW i \in 0 .. n, i >= k PROVE d(h, i) = c(h, i + 1)
    <3>1. i \in Int /\ i + 1 \in Int /\ n \in Nat
      BY <1>2
    <3>2. CASE i = n
      <4>1. i \notin 1 .. n - 1 /\ i + 1 \notin 1 .. n
        BY <3>1, <3>2
      <4> QED BY <4>1, <3>1, <2>1
    <3>3. CASE i # n
      <4>1. i \in 1 .. n - 1 /\ i + 1 \in 1 .. n
        BY <3>1, <3>3, <2>4, <1>2
      <4> QED BY <4>1, <3>1, <2>1, <2>4, <1>6
    <3> QED BY <3>2, <3>3
  <2> QED BY <2>2, <2>3, <2>4
<1>9. m.prev[x] = c(h, k - 1) /\ m.next[x] = c(h, k + 1)
  <2>1. k \in 0 .. n /\ k - 1 \in 0 .. n /\ (k - 1) + 1 = k
    BY <1>2
  <2> HIDE DEF c
  <2> QED BY <2>1, <1>2, <1>3
<1>10. /\ M.next = [m.next EXCEPT ![c(h, k - 1)] = c(h, k + 1)]
       /\ M.prev = [m.prev EXCEPT ![c(h, k + 1)] = c(h, k - 1)]
  BY <1>9 DEF DelEntry, DelBetween
<1>0. n = Len(l[h])
  OBVIOUS
<1> HIDE DEF c, d, M, n, l2
<1>11. /\ M.next \in [Cell -> Cell \cup {Poison}] /\ M.prev \in [Cell -> Cell \cup {Poison}]
  BY <1>2, <1>10 DEF Represents
<1>12. Rings(M, l2)
  <2>1. ASSUME NEW g \in Anchor, g # h, NEW i \in 0 .. Len(l2[g])
        PROVE  M.next[d(g, i)] = d(g, i + 1) /\ M.prev[d(g, i + 1)] = d(g, i)
    <3>1. i \in 0 .. Len(l[g]) /\ i + 1 \in 1 .. Len(l[g]) + 1
          /\ d(g, i) = c(g, i) /\ d(g, i + 1) = c(g, i + 1)
      BY <2>1, <1>2, <1>7, <1>8
    <3>2. k - 1 \in 0 .. Len(l[h]) /\ k + 1 \in 1 .. Len(l[h]) + 1
      BY <1>2 DEF n
    <3>3. c(g, i) # c(h, k - 1) /\ c(g, i + 1) # c(h, k + 1)
      BY <2>1, <3>1, <3>2, <1>4, <1>5
    <3>4. m.next[c(g, i)] = c(g, i + 1) /\ m.prev[c(g, i + 1)] = c(g, i)
      BY <3>1, <1>3
    <3>5. m.next \in [Cell -> Cell \cup {Poison}] /\ m.prev \in [Cell -> Cell \cup {Poison}]
      BY DEF Represents
    <3>6. c(g, i) \in Cell /\ c(g, i + 1) \in Cell
      BY <3>1, <1>2
    <3> QED BY <3>1, <3>3, <3>4, <3>5, <3>6, <1>10
  <2>2. ASSUME NEW i \in 0 .. Len(l2[h])
        PROVE  M.next[d(h, i)] = d(h, i + 1) /\ M.prev[d(h, i + 1)] = d(h, i)
    <3>1. i \in 0 .. n - 1 /\ k - 1 \in 0 .. Len(l[h]) /\ k + 1 \in 1 .. Len(l[h]) + 1
      BY <1>2, <1>6, <1>7 DEF n
    <3>2. m.next \in [Cell -> Cell \cup {Poison}] /\ m.prev \in [Cell -> Cell \cup {Poison}]
      BY DEF Represents
    <3>3. CASE i < k - 1
      <4>1. i \in 0 .. Len(l[h]) /\ i + 1 \in 1 .. Len(l[h]) + 1
            /\ d(h, i) = c(h, i) /\ d(h, i + 1) = c(h, i + 1)
        BY <3>1, <3>3, <1>2, <1>8 DEF n
      <4>2. c(h, i) # c(h, k - 1) /\ c(h, i + 1) # c(h, k + 1)
        BY <4>1, <3>1, <3>3, <1>2, <1>4, <1>5
      <4> QED BY <4>1, <4>2, <3>2, <1>2, <1>3, <1>10
    <3>4. CASE i = k - 1
      <4>1. d(h, i) = c(h, k - 1) /\ d(h, i + 1) = c(h, k + 1)
        <5>1. i + 1 = k /\ i < k /\ i \in 0 .. n /\ k \in 0 .. n /\ k >= k
          BY <3>1, <3>4, <1>2
        <5> QED BY <5>1, <3>4, <1>8
      <4> QED BY <4>1, <3>1, <3>2, <1>2, <1>10
    <3>5. CASE i > k - 1
      <4>1. /\ i + 1 \in 0 .. Len(l[h]) /\ (i + 1) + 1 \in 1 .. Len(l[h]) + 1
            /\ d(h, i) = c(h, i + 1) /\ d(h, i + 1) = c(h, (i + 1) + 1)
        <5>1. /\ i \in 0 .. n /\ i >= k /\ i + 1 \in 0 .. n /\ i + 1 >= k
              /\ (i + 1) + 1 \in 1 .. n + 1
          <6>1. n \in Nat /\ k \in 1 .. n /\ i \in 0 .. n - 1 /\ i > k - 1
            BY <3>1, <3>5, <1>2
          <6> QED BY ONLY <6>1
        <5>2. d(h, i) = c(h, i + 1) /\ d(h, i + 1) = c(h, (i + 1) + 1)
          BY <5>1, <1>8
        <5> QED BY <5>1, <5>2, <1>0
      <4>2. c(h, i + 1) # c(h, k - 1) /\ c(h, (i + 1) + 1) # c(h, k + 1)
        BY <4>1, <3>1, <3>5, <1>2, <1>4, <1>5
      <4> QED BY <4>1, <4>2, <3>1, <3>2, <1>2, <1>3, <1>10
    <3> QED BY <3>1, <3>3, <3>4, <3>5, <1>2
  <2> QED BY <2>1, <2>2 DEF Rings, d
<1>13. \A g \in Anchor : \A i \in 1 .. Len(l2[g]) :
         \E j \in 1 .. Len(l[g]) : /\ l2[g][i] = l[g][j] /\ c(g, j) = l[g][j]
                                   /\ g # h \/ i < k => j = i
                                   /\ g = h /\ i >= k => j = i + 1
                                   /\ g = h => j # k
  <2>1. \A g \in Anchor : \A j \in 1 .. Len(l[g]) : c(g, j) = l[g][j]
    BY <1>1, Places DEF c
  <2>2. ASSUME NEW g \in Anchor, g # h, NEW i \in 1 .. Len(l2[g])
        PROVE  i \in 1 .. Len(l[g]) /\ l2[g][i] = l[g][i]
    BY <2>2, <1>7
  <2>3. ASSUME NEW i \in 1 .. Len(l2[h]), i < k
        PROVE  i \in 1 .. Len(l[h]) /\ i # k /\ l2[h][i] = l[h][i]
    <3>1. i \in 1 .. n - 1 /\ i \in 1 .. n
      BY <2>3, <1>2, <1>6, <1>7
    <3> QED BY <3>1, <2>3, <1>0, <1>6, <1>7
  <2>4. ASSUME NEW i \in 1 .. Len(l2[h]), i >= k
        PROVE  i + 1 \in 1 .. Len(l[h]) /\ i + 1 # k /\ l2[h][i] = l[h][i + 1]
    <3>1. i \in 1 .. n - 1 /\ i + 1 \in 1 .. n /\ i + 1 # k
      BY <2>4, <1>2, <1>6, <1>7
    <3> QED BY <3>1, <2>4, <1>0, <1>6, <1>7
  <2> SUFFICES ASSUME NEW g \in Anchor, NEW i \in 1 .. Len(l2[g])
               PROVE  \E j \in 1 .. Len(l[g]) : /\ l2[g][i] = l[g][j]
                                                /\ g # h \/ i < k => j = i
                                                /\ g = h /\ i >= k => j = i + 1
                                                /\ g = h => j # k
    BY <2>1
  <2>5. CASE g # h
    BY <2>2, <2>5
  <2>6. CASE g = h /\ i < k
    BY <2>3, <2>6, <1>2
  <2>7. CASE g = h /\ i >= k
    BY <2>4, <2>7, <1>2
  <2> QED BY <2>5, <2>6, <2>7, <1>2, <1>6, <1>7
<1>14. Apart(l2)
  <2> SUFFICES ASSUME NEW f \in Anchor, NEW g \in Anchor, NEW i \in 1 .. Len(l2[f]),
                      NEW j \in 1 .. Len(l2[g]), l2[f][i] = l2[g][j]
               PROVE  f = g /\ i = j
    BY DEF Apart
  <2>1. PICK a \in 1 .. Len(l[f]) : /\ l2[f][i] = l[f][a]
                                    /\ f # h \/ i < k => a = i
                                    /\ f = h /\ i >= k => a = i + 1
    BY <1>13
  <2>2. PICK b \in 1 .. Len(l[g]) : /\ l2[g][j] = l[g][b]
                                    /\ g # h \/ j < k => b = j
                                    /\ g = h /\ j >= k => b = j + 1
    BY <1>13
  <2>3. f = g /\ a = b
    <3>1. l[f][a] = l[g][b]
      BY <2>1, <2>2
    <3> QED BY <3>1, <1>1 DEF Apart
  <2> QED BY <2>1, <2>2, <2>3, <1>2, <1>6, <1>7
<1>15. Off(l2, x)
  <2> SUFFICES ASSUME NEW g \in Anchor, NEW i \in 1 .. Len(l2[g]), l2[g][i] = x PROVE FALSE
    BY DEF Off
  <2>1. PICK j \in 1 .. Len(l[g]) : l[g][j] = x /\ (g = h => j # k)
    BY <1>13
  <2> QED BY <2>1, <1>1 DEF Apart
<1>16. ASSUME NEW y \in Node \ {x}, Off(l2, y) PROVE Settled(M, y)
  <2>1. ASSUME NEW g \in Anchor, NEW i \in 1 .. Len(l[g]) PROVE l[g][i] # y
    <3>1. CASE g # h
      BY <3>1, <1>7, <1>16 DEF Off
    <3>2. CASE g = h /\ i < k
      <4>1. i \in 1 .. Len(l2[h]) /\ l2[h][i] = l[h][i]
        <5>1. i \in 1 .. n - 1
          BY <3>2, <1>0, <1>2
        <5> QED BY <5>1, <3>2, <1>6, <1>7
      <4> QED BY <4>1, <3>2, <1>16 DEF Off
    <3>3. CASE g = h /\ i > k
      <4>1. i - 1 \in 1 .. Len(l2[h]) /\ l2[h][i - 1] = l[h][i]
        BY <3>3, <1>2, <1>6, <1>7 DEF n
      <4> QED BY <4>1, <3>3, <1>16 DEF Off
    <3> QED BY <3>1, <3>2, <3>3, <1>2
  <2>2. Settled(m, y)
    BY <2>1 DEF Represents, Off
  <2>3. c(h, k - 1) # y /\ c(h, k + 1) # y
    BY <2>1, <1>2, EmListAssumption DEF c, At
  <2>4. y \in Cell
    BY DEF Cell
  <2> QED BY <2>2, <2>3, <2>4, <1>2, <1>10 DEF Settled, Represents
<1> QED BY <1>2, <1>7, <1>11, <1>12, <1>14, <1>15, <1>16 DEF Represents, l2, M

\* __list_add: the entry x, which is on no list, comes behind place k of h.
LEMMA AddBetweenLemma ==
    ASSUME NEW m, NEW l, NEW X, Represents(m, l, X),
           NEW h \in Anchor, NEW k \in 0 .. Len(l[h]), NEW x \in Node, Off(l, x),
           NEW s \in Seq(Node), Len(s) = Len(l[h]) + 1,
           \A i \in 1 .. Len(l[h]) + 1 : /\ i <= k => s[i] = l[h][i]
                                         /\ i = k + 1 => s[i] = x
                                         /\ i > k + 1 => s[i] = l[h][i - 1]
    PROVE  Represents(AddBetween(m, x, At(l[h], h, k), At(l[h], h, k + 1)),
                      [l EXCEPT ![h] = s], X \ {x})
PROOF
<1> DEFINE n == Len(l[h])
           c(g, i) == At(l[g], g, i)
           l2 == [l EXCEPT ![h] = s]
           d(g, i) == At(l2[g], g, i)
           p == c(h, k)
           q == c(h, k + 1)
           M == AddBetween(m, x, p, q)
<1>1. l \in [Anchor -> Seq(Node)] /\ Apart(l) /\ Rings(m, l)
      /\ m.next \in [Cell -> Cell \cup {Poison}] /\ m.prev \in [Cell -> Cell \cup {Poison}]
  BY DEF Represents
<1>2. /\ l[h] \in Seq(Node) /\ n \in Nat /\ k \in 0 .. n /\ n = Len(l[h])
      /\ \A g \in Anchor : Len(l[g]) \in Nat /\ c(g, 0) = g /\ c(g, Len(l[g]) + 1) = g
                           /\ \A i \in Int : c(g, i) \in Cell
      /\ p \in Cell /\ q \in Cell /\ x \in Cell
  BY <1>1, Places DEF Cell
<1>3. \A g \in Anchor : \A i \in 0 .. Len(l[g]) : /\ m.next[c(g, i)] = c(g, i + 1)
                                                  /\ m.prev[c(g, i + 1)] = c(g, i)
  BY <1>1 DEF Rings
<1>4. \A f, g \in Anchor : \A i \in 0 .. Len(l[f]), j \in 0 .. Len(l[g]) :
        c(f, i) = c(g, j) => f = g /\ i = j
  BY <1>1, Places
<1>5. \A f, g \in Anchor : \A i \in 1 .. Len(l[f]) + 1, j \in 1 .. Len(l[g]) + 1 :
        c(f, i) = c(g, j) => f = g /\ i = j
  BY <1>1, Places
<1>6. \A g \in Anchor, i \in Int : c(g, i) # x
  BY EmListAssumption DEF Off, At
<1>7. l2 \in [Anchor -> Seq(Node)] /\ l2[h] = s /\ \A g \in Anchor \ {h} : l2[g] = l[g]
  BY <1>1
<1>8. \A i \in Int : /\ d(h, i) = IF i \in 1 .. n + 1 THEN s[i] ELSE h
                     /\ c(h, i) = IF i \in 1 .. n THEN l[h][i] ELSE h
  BY <1>7 DEF At
<1>9. \A g \in Anchor \ {h} : \A i \in Int : d(g, i) = c(g, i)
  BY <1>7
<1>10. /\ M.next = [m.next EXCEPT ![x] = q, ![p] = x]
       /\ M.prev = [m.prev EXCEPT ![q] = x, ![x] = p]
  BY DEF AddBetween
<1>11. \A i \in 1 .. n + 1 : /\ i <= k => s[i] = l[h][i]
                             /\ i = k + 1 => s[i] = x
                             /\ i > k + 1 => s[i] = l[h][i - 1]
  OBVIOUS
<1>12. p = c(h, k) /\ q = c(h, k + 1)
  OBVIOUS
<1> HIDE DEF c, d, M, n, l2, p, q
<1>13. ASSUME NEW i \in 0 .. n + 2
       PROVE  /\ i <= k => d(h, i) = c(h, i)
              /\ i = k + 1 => d(h, i) = x
              /\ i > k + 1 => d(h, i) = c(h, i - 1)
  <2>1. CASE i = 0 \/ i = n + 2
    <3>1. i - 1 \in Int /\ (i = n + 2 => i - 1 = n + 1)
      BY <2>1, <1>2
    <3> QED BY <2>1, <3>1, <1>2, <1>8
  <2>2. CASE i \in 1 .. n + 1
    <3>1. /\ i <= k => i \in 1 .. n
          /\ i > k + 1 => i - 1 \in 1 .. n
          /\ i \in Int /\ i - 1 \in Int
      BY <2>2, <1>2
    <3>2. d(h, i) = s[i]
      BY <2>2, <3>1, <1>8
    <3>3. CASE i <= k
      BY <2>2, <3>1, <3>2, <3>3, <1>2, <1>8, <1>11
    <3>4. CASE i = k + 1
      BY <2>2, <3>2, <3>4, <1>2, <1>11
    <3>5. CASE i > k + 1
      BY <2>2, <3>1, <3>2, <3>5, <1>2, <1>8, <1>11
    <3> QED BY <3>3, <3>4, <3>5, <1>2
  <2> QED BY <2>1, <2>2, <1>2
<1>14. M.next \in [Cell -> Cell \cup {Poison}] /\ M.prev \in [Cell -> Cell \cup {Poison}]
  <2>1. /\ m.next \in [Cell -> Cell \cup {Poison}] /\ m.prev \in [Cell -> Cell \cup {Poison}]
        /\ p \in Cell /\ q \in Cell /\ x \in Cell
    BY <1>1, <1>2
  <2> QED BY ONLY <2>1, <1>10
<1>15. ASSUME NEW g \in Anchor, NEW i \in 0 .. Len(l[g]), g # h \/ i # k
       PROVE  M.next[c(g, i)] = c(g, i + 1) /\ M.prev[c(g, i + 1)] = c(g, i)
  <2>1. i + 1 \in 1 .. Len(l[g]) + 1 /\ k + 1 \in 1 .. Len(l[h]) + 1 /\ k \in 0 .. Len(l[h])
        /\ i \in Int /\ i + 1 \in Int
    BY <1>2
  <2>2. c(g, i) # p
    BY <2>1, <1>15, <1>4, <1>12
  <2>3. c(g, i + 1) # q
    BY <2>1, <1>2, <1>15, <1>5, <1>12
  <2> QED BY <2>1, <2>2, <2>3, <1>1, <1>2, <1>3, <1>6, <1>10
<1>16. p # x /\ q # x
  BY <1>2, <1>6, <1>12
<1>17. M.next[p] = x /\ M.prev[x] = p /\ M.next[x] = q /\ M.prev[q] = x
  BY <1>1, <1>2, <1>10, <1>16
<1>18. Rings(M, l2)
  <2>1. ASSUME NEW g \in Anchor, g # h, NEW i \in 0 .. Len(l2[g])
        PROVE  M.next[d(g, i)] = d(g, i + 1) /\ M.prev[d(g, i + 1)] = d(g, i)
    BY <2>1, <1>7, <1>9, <1>15
  <2>2. ASSUME NEW i \in 0 .. n + 1
        PROVE  M.next[d(h, i)] = d(h, i + 1) /\ M.prev[d(h, i + 1)] = d(h, i)
    <3>0. i \in 0 .. n + 2 /\ i + 1 \in 0 .. n + 2
      BY <1>2
    <3>1. CASE i < k
      BY <3>0, <3>1, <1>2, <1>13, <1>15
    <3>2. CASE i = k
      BY <3>0, <3>2, <1>2, <1>12, <1>13, <1>17
    <3>3. CASE i = k + 1
      BY <3>0, <3>3, <1>2, <1>12, <1>13, <1>17
    <3>4. CASE i > k + 1
      <4>1. /\ i - 1 \in 0 .. Len(l[h]) /\ i - 1 # k
            /\ d(h, i) = c(h, i - 1) /\ d(h, i + 1) = c(h, (i - 1) + 1)
        BY <3>0, <3>4, <1>2, <1>13
      <4> QED BY <4>1, <1>15
    <3> QED BY <3>1, <3>2, <3>3, <3>4, <1>2
  <2>3. Len(l2[h]) = n + 1
    BY <1>2, <1>7
  <2> QED BY <2>1, <2>2, <2>3 DEF Rings, d
<1>19. ASSUME NEW g \in Anchor, NEW i \in 1 .. Len(l2[g]), l2[g][i] # x
       PROVE  \E j \in 1 .. Len(l[g]) : /\ l2[g][i] = l[g][j]
                                        /\ g # h \/ i <= k => j = i
                                        /\ g = h /\ i > k => i > k + 1 /\ j = i - 1
  <2>1. CASE g # h
    BY <2>1, <1>7
  <2>2. CASE g = h
    <3>1. i \in 1 .. n + 1 /\ l2[g][i] = s[i] /\ i # k + 1
      BY <2>2, <1>2, <1>7, <1>11, <1>19
    <3>2. CASE i <= k
      <4>1. i \in 1 .. n
        BY <3>1, <3>2, <1>2
      <4> QED BY <4>1, <2>2, <3>1, <3>2, <1>2, <1>11
    <3>3. CASE i > k + 1
      <4>1. i - 1 \in 1 .. n
        BY <3>1, <3>3, <1>2
      <4> QED BY <4>1, <2>2, <3>1, <3>3, <1>2, <1>11
    <3> QED BY <3>1, <3>2, <3>3, <1>2
  <2> QED BY <2>1, <2>2
<1>20. ASSUME NEW g \in Anchor, NEW i \in 1 .. Len(l2[g]), l2[g][i] = x
       PROVE  g = h /\ i = k + 1
  <2>1. g = h
    BY <1>7, <1>20 DEF Off
  <2>2. i \in 1 .. n + 1 /\ s[i] = x
    BY <2>1, <1>2, <1>7, <1>20
  <2>3. CASE i <= k
    <3>1. i \in 1 .. n /\ l[h][i] = x
      BY <2>2, <2>3, <1>2, <1>11
    <3> QED BY <3>1, <1>2 DEF Off
  <2>4. CASE i > k + 1
    <3>1. i - 1 \in 1 .. n /\ l[h][i - 1] = x
      BY <2>2, <2>4, <1>2, <1>11
    <3> QED BY <3>1, <1>2 DEF Off
  <2> QED BY <2>1, <2>2, <2>3, <2>4, <1>2
<1>21. Apart(l2)
  <2> SUFFICES ASSUME NEW f \in Anchor, NEW g \in Anchor, NEW i \in 1 .. Len(l2[f]),
                      NEW j \in 1 .. Len(l2[g]), l2[f][i] = l2[g][j]
               PROVE  f = g /\ i = j
    BY DEF Apart
  <2>1. CASE l2[f][i] = x
    BY <2>1, <1>20
  <2>2. CASE l2[f][i] # x
    <3>1. PICK a \in 1 .. Len(l[f]) : /\ l2[f][i] = l[f][a]
                                      /\ f # h \/ i <= k => a = i
                                      /\ f = h /\ i > k => i > k + 1 /\ a = i - 1
      BY <2>2, <1>19
    <3>2. PICK b \in 1 .. Len(l[g]) : /\ l2[g][j] = l[g][b]
                                      /\ g # h \/ j <= k => b = j
                                      /\ g = h /\ j > k => j > k + 1 /\ b = j - 1
      BY <2>2, <1>19
    <3>3. f = g /\ a = b
      <4>1. l[f][a] = l[g][b]
        BY <3>1, <3>2
      <4> QED BY <4>1, <1>1 DEF Apart
    <3>4. i \in Int /\ j \in Int /\ k \in Int
      BY <1>2
    <3>5. CASE f # h
      BY <3>1, <3>2, <3>3, <3>5
    <3>6. CASE f = h
      <4>1. /\ IF i <= k THEN a = i ELSE i > k + 1 /\ a = i - 1
            /\ IF j <= k THEN a = j ELSE j > k + 1 /\ a = j - 1
        BY <3>1, <3>2, <3>3, <3>4, <3>6
      <4>2. i = j
        BY ONLY <4>1, <3>4
      <4> QED BY <4>2, <3>3
    <3> QED BY <3>5, <3>6
  <2> QED BY <2>1, <2>2
<1>22. ASSUME NEW y \in Node, Off(l2, y) PROVE y # x /\ Off(l, y)
  <2>1. k + 1 \in 1 .. Len(l2[h]) /\ l2[h][k + 1] = x
    <3>1. k + 1 \in 1 .. n + 1
      BY <1>2
    <3> QED BY <3>1, <1>2, <1>7, <1>11
  <2>2. ASSUME NEW g \in Anchor, NEW i \in 1 .. Len(l[g]) PROVE l[g][i] # y
    <3>1. CASE g # h
      BY <3>1, <1>7, <1>22 DEF Off
    <3>2. CASE g = h /\ i <= k
      <4>1. i \in 1 .. Len(l2[h]) /\ i \in 1 .. n + 1 /\ l2[h] = s
        BY <3>2, <1>2, <1>7
      <4>2. l2[h][i] = l[h][i]
        BY <4>1, <3>2, <1>11
      <4> QED BY <4>1, <4>2, <3>2, <1>22 DEF Off
    <3>3. CASE g = h /\ i > k
      <4>1. i + 1 \in 1 .. Len(l2[h]) /\ i + 1 \in 1 .. n + 1 /\ l2[h] = s
            /\ i + 1 > k + 1 /\ (i + 1) - 1 = i
        BY <3>3, <1>2, <1>7
      <4>2. l2[h][i + 1] = l[h][i]
        BY <4>1, <1>11
      <4> QED BY <4>1, <4>2, <3>3, <1>22 DEF Off
    <3> QED BY <3>1, <3>2, <3>3, <1>2
  <2> QED BY <2>1, <2>2, <1>22 DEF Off
<1>23. ASSUME NEW y \in Node, Off(l2, y) PROVE y \in X \ {x} \/ Settled(M, y)
  <2>1. y # x /\ Off(l, y)
    BY <1>22, <1>23
  <2>2. y \in X \/ Settled(m, y)
    BY <2>1 DEF Represents
  <2>3. p # y /\ q # y
    BY <2>1, <1>2, <1>12, EmListAssumption DEF c, At, Off
  <2>4. y \in Cell
    BY DEF Cell
  <2> QED BY <2>1, <2>2, <2>3, <2>4, <1>1, <1>2, <1>10 DEF Settled
<1>24. ASSUME NEW y \in X \ {x} PROVE Off(l2, y)
  <2> SUFFICES ASSUME NEW g \in Anchor, NEW i \in 1 .. Len(l2[g]), l2[g][i] = y PROVE FALSE
    BY DEF Off
  <2>1. PICK j \in 1 .. Len(l[g]) : l2[g][i] = l[g][j]
    BY <1>19
  <2>2. Off(l, y)
    BY DEF Represents
  <2> QED BY <2>1, <2>2 DEF Off
<1> QED BY <1>7, <1>14, <1>18, <1>21, <1>23, <1>24 DEF Represents, l2, M, p, q, c

\* An entry that was taken off is settled by INIT_LIST_HEAD or by poisoning.
LEMMA SettleLemma ==
    ASSUME NEW m, NEW l, NEW x \in Node, Represents(m, l, {x}),
           NEW v \in {x, Poison},
           NEW M, M.next = [m.next EXCEPT ![x] = v], M.prev = [m.prev EXCEPT ![x] = v]
    PROVE  Represents(M, l, {})
PROOF
<1> DEFINE c(g, i) == At(l[g], g, i)
<1>1. l \in [Anchor -> Seq(Node)] /\ Apart(l) /\ Rings(m, l) /\ Off(l, x)
      /\ m.next \in [Cell -> Cell \cup {Poison}] /\ m.prev \in [Cell -> Cell \cup {Poison}]
  BY DEF Represents
<1>2. x \in Cell /\ v \in Cell \cup {Poison}
  BY DEF Cell
<1>3. M.next \in [Cell -> Cell \cup {Poison}] /\ M.prev \in [Cell -> Cell \cup {Poison}]
  BY <1>1, <1>2
<1>4. \A y \in Cell \ {x} : M.next[y] = m.next[y] /\ M.prev[y] = m.prev[y]
  BY <1>1
<1>5. \A g \in Anchor, i \in Int : c(g, i) # x /\ c(g, i) \in Cell
  BY <1>1, Places, EmListAssumption DEF Off, At
<1>6. \A g \in Anchor : \A i \in 0 .. Len(l[g]) : /\ m.next[c(g, i)] = c(g, i + 1)
                                                  /\ m.prev[c(g, i + 1)] = c(g, i)
  BY <1>1 DEF Rings
<1> HIDE DEF c
<1>7. ASSUME NEW g \in Anchor, NEW i \in 0 .. Len(l[g])
      PROVE  M.next[c(g, i)] = c(g, i + 1) /\ M.prev[c(g, i + 1)] = c(g, i)
  <2>1. i \in Int /\ i + 1 \in Int
    BY <1>1, LenProperties
  <2> QED BY <2>1, <1>4, <1>5, <1>6
<1>8. Rings(M, l)
  BY <1>7 DEF Rings, c
<1>9. ASSUME NEW y \in Node, Off(l, y) PROVE Settled(M, y)
  <2>1. CASE y = x
    BY <2>1, <1>1, <1>2 DEF Settled
  <2>2. CASE y # x
    <3>1. Settled(m, y)
      BY <2>2, <1>9 DEF Represents
    <3> QED BY <2>2, <3>1, <1>4 DEF Settled, Cell
  <2> QED BY <2>1, <2>2
<1> QED BY <1>1, <1>3, <1>8, <1>9 DEF Represents

-----------------------------------------------------------------------------
(* The walk.                                                                *)

\* Every set of numbers has a least one: the induction the walk needs.
LEMMA LeastNumber ==
    ASSUME NEW T, T \subseteq Nat, T # {}
    PROVE  \E a \in T : \A b \in T : a <= b
PROOF
<1> DEFINE R == OpToRel(<, Nat)
<1>1. IsWellFoundedOn(R, Nat)
  BY NatLessThanWellFounded
<1>2. \A a, b \in Nat : a < b => <<a, b>> \in R
  BY DEF OpToRel
<1> HIDE DEF R
<1>3. \E a \in T : \A b \in T : ~ (<<b, a>> \in R)
  BY ONLY <1>1, T \subseteq Nat, T # {}, WFMin
<1>4. PICK a \in T : \A b \in T : ~ (<<b, a>> \in R)
  BY <1>3
<1>5. ASSUME NEW b \in T PROVE a <= b
  <2>1. a \in Nat /\ b \in Nat
    OBVIOUS
  <2>2. ~ (b < a)
    BY <2>1, <1>2, <1>4
  <2> QED BY <2>1, <2>2
<1> QED BY <1>5

\* A list has no more entries than there are.
LEMMA ListBound ==
    ASSUME NEW l \in [Anchor -> Seq(Node)], Apart(l), NEW h \in Anchor
    PROVE  Cardinality(Node) \in Nat /\ Len(l[h]) \in 0 .. Cardinality(Node)
PROOF
<1> DEFINE s == l[h]
           n == Len(s)
<1>1. IsFiniteSet(Node)
  BY EmListAssumption
<1>2. Cardinality(Node) \in Nat
  BY <1>1, FS_CardinalityType
<1>3. s \in [1 .. n -> Node] /\ n \in Nat
  BY LenProperties, ElementOfSeq
<1>4. \A i, j \in 1 .. n : s[i] = s[j] => i = j
  BY DEF Apart
<1> HIDE DEF s, n
<1>5. IsFiniteSet(1 .. n) /\ Cardinality(1 .. n) = n
  <2>1. 1 \in Int /\ n \in Int
    BY <1>3
  <2>2. IsFiniteSet(1 .. n) /\ Cardinality(1 .. n) = IF 1 > n THEN 0 ELSE n - 1 + 1
    BY ONLY <2>1, FS_Interval
  <2> QED BY <2>2, <1>3
<1>6. ~ (Cardinality(Node) < n)
  <2> SUFFICES ASSUME Cardinality(Node) < Cardinality(1 .. n) PROVE FALSE
    BY <1>5
  <2>1. \E i, j \in 1 .. n : i # j /\ s[i] = s[j]
    BY ONLY <1>1, <1>3, <1>5, Cardinality(Node) < Cardinality(1 .. n), FS_PigeonHole
  <2> QED BY <2>1, <1>4
<1> QED BY <1>2, <1>3, <1>6 DEF s, n

\* list_for_each_entry meets the entries of the list that the pointers make up,
\* in order, and no other: a heap represents one family of lists at most.
LEMMA OrderIs ==
    ASSUME NEW m, NEW l, NEW X, Represents(m, l, X), NEW h \in Anchor
    PROVE  Order(m, h) = l[h]
PROOF
<1> DEFINE N == Cardinality(Node)
           L0 == Len(l[h])
           c(i) == At(l[h], h, i)
           Steps(f) == [n \in 0 .. N |-> IF n = 0 THEN h
                                         ELSE IF n > 1 /\ f[n - 1] \notin Node THEN f[n - 1]
                                         ELSE m.next[f[n - 1]]]
           cell == CHOOSE f : f = Steps(f)
<1>1. l \in [Anchor -> Seq(Node)] /\ Apart(l) /\ Rings(m, l)
  BY DEF Represents
<1>2. N \in Nat /\ L0 \in 0 .. N
  BY <1>1, ListBound
<1>3. /\ c(0) = h /\ \A i \in Int : i > L0 => c(i) = h
      /\ \A i \in 1 .. L0 : c(i) = l[h][i] /\ c(i) \in Node
      /\ h \notin Node
  BY <1>1, <1>2, Places, EmListAssumption DEF At
<1>4. \A i \in 0 .. L0 : m.next[c(i)] = c(i + 1)
  BY <1>1 DEF Rings
<1>5. Order(m, h) = [i \in {n \in 1 .. N : cell[n] \in Node} |-> cell[i]]
  BY DEF Order
<1>6. l[h] = [i \in 1 .. L0 |-> l[h][i]]
  BY <1>1, LenProperties
<1> HIDE DEF c, N, L0
<1>7. ASSUME NEW n \in 1 .. N
      PROVE  c(n) = IF n > 1 /\ c(n - 1) \notin Node THEN c(n - 1) ELSE m.next[c(n - 1)]
  <2>1. CASE n - 1 \in 0 .. L0
    <3>1. m.next[c(n - 1)] = c(n)
      BY <2>1, <1>2, <1>4
    <3>2. n > 1 => n - 1 \in 1 .. L0
      BY <2>1, <1>2
    <3> QED BY <3>1, <3>2, <1>3
  <2>2. CASE n - 1 \notin 0 .. L0
    <3>1. n > 1 /\ n - 1 > L0 /\ n > L0 /\ n \in Int /\ n - 1 \in Int
      BY <2>2, <1>2
    <3> QED BY <3>1, <1>3
  <2> QED BY <2>1, <2>2
<1>8. cell = Steps(cell)
  <2> DEFINE f == [n \in 0 .. N |-> c(n)]
  <2>1. \A n \in 1 .. N : n - 1 \in 0 .. N
    BY <1>2
  <2>2. f = Steps(f)
    BY <2>1, <1>3, <1>7
  <2> HIDE DEF Steps, f
  <2> QED BY <2>2
<1> HIDE DEF cell
<1>9. \A n \in 0 .. N : cell[n] = c(n)
  <2> DEFINE T == {n \in 0 .. N : cell[n] # c(n)}
  <2> SUFFICES ASSUME T # {} PROVE FALSE
    OBVIOUS
  <2>1. T \subseteq Nat
    BY <1>2
  <2>2. PICK n \in T : \A b \in T : n <= b
    BY <2>1, LeastNumber
  <2>3. n \in 0 .. N /\ cell[n] # c(n)
    OBVIOUS
  <2>4. n # 0
    BY <2>3, <1>2, <1>3, <1>8
  <2>5. n \in 1 .. N /\ n - 1 \in 0 .. N /\ n - 1 \notin T
    BY <2>2, <2>3, <2>4, <1>2
  <2>6. cell[n - 1] = c(n - 1)
    BY <2>5
  <2>7. cell[n] = c(n)
    BY <2>3, <2>5, <2>6, <1>7, <1>8
  <2> QED BY <2>3, <2>7
<1>10. {n \in 1 .. N : cell[n] \in Node} = 1 .. L0
  <2>1. \A n \in 1 .. N : n \in 1 .. L0 <=> cell[n] \in Node
    <3> SUFFICES ASSUME NEW n \in 1 .. N PROVE n \in 1 .. L0 <=> c(n) \in Node
      BY <1>9
    <3>1. n \in 1 .. L0 \/ (n \in Int /\ n > L0)
      BY <1>2
    <3> QED BY <3>1, <1>2, <1>3
  <2> QED BY <2>1, <1>2
<1>11. \A i \in 1 .. L0 : cell[i] = l[h][i]
  BY <1>2, <1>3, <1>9
<1> QED BY <1>5, <1>6, <1>10, <1>11

-----------------------------------------------------------------------------
(* Whole lists.                                                             *)

\* The list s is t with u behind its place k.
Inserted(s, t, k, u) ==
    /\ Len(s) = Len(t) + Len(u)
    /\ \A i \in 1 .. Len(t) + Len(u) :
          /\ i <= k => s[i] = t[i]
          /\ i > k /\ i <= k + Len(u) => s[i] = u[i - k]
          /\ i > k + Len(u) => s[i] = t[i - Len(u)]

\* list_splice_init: all entries of g come behind place k of h.
LEMMA SpliceLemma ==
    ASSUME NEW m, NEW l, Represents(m, l, {}),
           NEW g \in Anchor, NEW h \in Anchor, g # h, Len(l[g]) > 0,
           NEW k \in 0 .. Len(l[h]),
           NEW s \in Seq(Node), Inserted(s, l[h], k, l[g])
    PROVE  Represents(InitHead(Splice(m, g, At(l[h], h, k), At(l[h], h, k + 1)), g),
                      [l EXCEPT ![h] = s, ![g] = <<>>], {})
PROOF
<1> DEFINE a == Len(l[g])
           b == Len(l[h])
           c(f, i) == At(l[f], f, i)
           l2 == [l EXCEPT ![h] = s, ![g] = <<>>]
           d(f, i) == At(l2[f], f, i)
           p == c(h, k)
           q == c(h, k + 1)
           first == c(g, 1)
           last == c(g, a)
           M == InitHead(Splice(m, g, p, q), g)
<1>1. l \in [Anchor -> Seq(Node)] /\ Apart(l) /\ Rings(m, l)
      /\ m.next \in [Cell -> Cell \cup {Poison}] /\ m.prev \in [Cell -> Cell \cup {Poison}]
  BY DEF Represents
<1>2. /\ a \in Nat /\ b \in Nat /\ k \in 0 .. b /\ a = Len(l[g]) /\ b = Len(l[h]) /\ a > 0
      /\ \A f \in Anchor : Len(l[f]) \in Nat /\ c(f, 0) = f /\ c(f, Len(l[f]) + 1) = f
                           /\ \A i \in Int : c(f, i) \in Cell
      /\ p \in Cell /\ q \in Cell /\ first \in Cell /\ last \in Cell /\ g \in Cell
  BY <1>1, Places DEF Cell
<1>3. \A f \in Anchor : \A i \in 0 .. Len(l[f]) : /\ m.next[c(f, i)] = c(f, i + 1)
                                                  /\ m.prev[c(f, i + 1)] = c(f, i)
  BY <1>1 DEF Rings
<1>4. \A e, f \in Anchor : \A i \in 0 .. Len(l[e]), j \in 0 .. Len(l[f]) :
        c(e, i) = c(f, j) => e = f /\ i = j
  BY <1>1, Places
<1>5. \A e, f \in Anchor : \A i \in 1 .. Len(l[e]) + 1, j \in 1 .. Len(l[f]) + 1 :
        c(e, i) = c(f, j) => e = f /\ i = j
  BY <1>1, Places
<1>6. /\ l2 \in [Anchor -> Seq(Node)] /\ l2[h] = s /\ l2[g] = <<>>
      /\ \A f \in Anchor \ {g, h} : l2[f] = l[f]
  BY <1>1
<1>7. \A i \in Int : /\ d(h, i) = IF i \in 1 .. b + a THEN s[i] ELSE h
                     /\ c(h, i) = IF i \in 1 .. b THEN l[h][i] ELSE h
                     /\ c(g, i) = IF i \in 1 .. a THEN l[g][i] ELSE g
                     /\ d(g, i) = g
  BY <1>6 DEF At, Inserted
<1>8. \A f \in Anchor \ {g, h} : \A i \in Int : d(f, i) = c(f, i)
  BY <1>6
<1>9. \A i \in 1 .. b + a : /\ i <= k => s[i] = l[h][i]
                            /\ i > k /\ i <= k + a => s[i] = l[g][i - k]
                            /\ i > k + a => s[i] = l[h][i - a]
  BY DEF Inserted
<1>10. p = c(h, k) /\ q = c(h, k + 1) /\ first = c(g, 1) /\ last = c(g, a)
  OBVIOUS
<1>11. m.next[g] = first /\ m.prev[g] = last
  <2>1. 0 \in 0 .. Len(l[g]) /\ a \in 0 .. Len(l[g]) /\ 0 + 1 = 1
    BY <1>2
  <2> HIDE DEF c, a
  <2> QED BY <2>1, <1>2, <1>3
<1>12. /\ M.next = [m.next EXCEPT ![p] = first, ![last] = q, ![g] = g]
       /\ M.prev = [m.prev EXCEPT ![first] = p, ![q] = last, ![g] = g]
  BY <1>11 DEF Splice, InitHead
<1> HIDE DEF c, d, M, a, b, l2, p, q, first, last
<1>0. a \in Nat /\ b \in Nat /\ k \in Int /\ 0 <= k /\ k <= b /\ a > 0
  BY <1>2
<1>24. a = Len(l[g]) /\ b = Len(l[h])
  BY <1>2
<1>13. M.next \in [Cell -> Cell \cup {Poison}] /\ M.prev \in [Cell -> Cell \cup {Poison}]
  <2>1. /\ m.next \in [Cell -> Cell \cup {Poison}] /\ m.prev \in [Cell -> Cell \cup {Poison}]
        /\ p \in Cell /\ q \in Cell /\ first \in Cell /\ last \in Cell /\ g \in Cell
    BY <1>1, <1>2
  <2> QED BY ONLY <2>1, <1>12
<1>14. /\ p # last /\ p # g /\ last # g
       /\ q # first /\ q # g /\ first # g
  <2>1. k \in 0 .. Len(l[h]) /\ a \in 0 .. Len(l[g]) /\ 0 \in 0 .. Len(l[g]) /\ a # 0
    BY <1>2
  <2>2. p # last /\ p # g /\ last # g
    BY <2>1, <1>2, <1>4, <1>10
  <2>3. k + 1 \in 1 .. Len(l[h]) + 1 /\ 1 \in 1 .. Len(l[g]) + 1
        /\ Len(l[g]) + 1 \in 1 .. Len(l[g]) + 1 /\ Len(l[g]) + 1 # 1
    BY <1>2
  <2>4. q # first /\ q # g /\ first # g
    BY <2>3, <1>2, <1>5, <1>10
  <2> QED BY <2>2, <2>4
<1>15. /\ M.next[p] = first /\ M.prev[first] = p
       /\ M.next[last] = q /\ M.prev[q] = last
       /\ M.next[g] = g /\ M.prev[g] = g
  BY <1>1, <1>2, <1>12, <1>14
<1>16. ASSUME NEW f \in Anchor, NEW i \in 0 .. Len(l[f]),
              f = h => i # k, f = g => i # 0 /\ i # a
       PROVE  M.next[c(f, i)] = c(f, i + 1) /\ M.prev[c(f, i + 1)] = c(f, i)
  <2>1. /\ k \in 0 .. Len(l[h]) /\ a \in 0 .. Len(l[g]) /\ 0 \in 0 .. Len(l[g])
        /\ i + 1 \in 1 .. Len(l[f]) + 1 /\ k + 1 \in 1 .. Len(l[h]) + 1
        /\ 1 \in 1 .. Len(l[g]) + 1 /\ a + 1 \in 1 .. Len(l[g]) + 1
        /\ i \in Int /\ i + 1 \in Int
    <3>1. Len(l[f]) \in Nat /\ Len(l[g]) = a /\ Len(l[h]) = b
      BY <1>2
    <3> QED BY <3>1, <1>0
  <2>2. c(f, i) # p /\ c(f, i) # last /\ c(f, i) # g
    <3>1. c(f, i) # c(h, k)
      BY <2>1, <1>4, <1>16
    <3>2. c(f, i) # c(g, a)
      BY <2>1, <1>4, <1>16
    <3>3. c(f, i) # c(g, 0)
      BY <2>1, <1>4, <1>16
    <3> QED BY <3>1, <3>2, <3>3, <1>2, <1>10
  <2>3. c(f, i + 1) # q
    <3> SUFFICES ASSUME c(f, i + 1) = c(h, k + 1) PROVE FALSE
      BY <1>10
    <3>1. f = h /\ i + 1 = k + 1
      <4>1. i + 1 \in 1 .. Len(l[f]) + 1 /\ k + 1 \in 1 .. Len(l[h]) + 1
        BY <2>1
      <4> QED BY <4>1, <1>5
    <3> QED BY <3>1, <1>2, <1>16
  <2>4. c(f, i + 1) # first
    <3> SUFFICES ASSUME c(f, i + 1) = c(g, 1) PROVE FALSE
      BY <1>10
    <3>1. f = g /\ i + 1 = 1
      <4>1. i + 1 \in 1 .. Len(l[f]) + 1 /\ 1 \in 1 .. Len(l[g]) + 1
        BY <2>1
      <4> QED BY <4>1, <1>5
    <3> QED BY <3>1, <1>2, <1>16
  <2>5. c(f, i + 1) # g
    <3> SUFFICES ASSUME c(f, i + 1) = c(g, a + 1) PROVE FALSE
      BY <1>2
    <3>1. f = g /\ i + 1 = a + 1
      <4>1. i + 1 \in 1 .. Len(l[f]) + 1 /\ a + 1 \in 1 .. Len(l[g]) + 1
        BY <2>1
      <4> QED BY <4>1, <1>5
    <3> QED BY <3>1, <1>2, <1>16
  <2> QED BY <2>1, <2>2, <2>3, <2>4, <2>5, <1>1, <1>2, <1>3, <1>12
<1>17. ASSUME NEW i \in 0 .. (b + a) + 1
       PROVE  /\ i <= k => d(h, i) = c(h, i)
              /\ i > k /\ i <= k + a => d(h, i) = c(g, i - k)
              /\ i > k + a => d(h, i) = c(h, i - a)
  <2>1. CASE i = 0 \/ i = (b + a) + 1
    <3>1. /\ i = 0 => i <= k /\ ~ (i > k) /\ ~ (i > k + a)
          /\ i = (b + a) + 1 => i - a = b + 1 /\ i > k + a /\ ~ (i <= k) /\ ~ (i <= k + a)
          /\ 0 \notin 1 .. b /\ 0 \notin 1 .. b + a /\ b + 1 \notin 1 .. b
          /\ (b + a) + 1 \notin 1 .. b + a /\ b + 1 \in Int /\ (b + a) + 1 \in Int
      BY <2>1, <1>0
    <3> QED BY <2>1, <3>1, <1>7
  <2>2. CASE i \in 1 .. b + a
    <3>1. /\ i <= k => i \in 1 .. b
          /\ i > k /\ i <= k + a => i - k \in 1 .. a
          /\ i > k + a => i - a \in 1 .. b
          /\ i \in Int /\ i - a \in Int /\ i - k \in Int
      BY <2>2, <1>0
    <3>2. d(h, i) = s[i]
      BY <2>2, <3>1, <1>7
    <3>3. CASE i <= k
      BY <2>2, <3>1, <3>2, <3>3, <1>7, <1>9
    <3>4. CASE i > k /\ i <= k + a
      BY <2>2, <3>1, <3>2, <3>4, <1>0, <1>7, <1>9
    <3>5. CASE i > k + a
      BY <2>2, <3>1, <3>2, <3>5, <1>0, <1>7, <1>9
    <3> QED BY <3>3, <3>4, <3>5, <1>0
  <2> QED BY <2>1, <2>2, <1>0
<1>18. Len(l2[h]) = b + a /\ Len(l2[g]) = 0 /\ \A f \in Anchor \ {g, h} : l2[f] = l[f]
  BY <1>6, <1>24 DEF Inserted
<1>19. Rings(M, l2)
  <2>1. ASSUME NEW f \in Anchor \ {g, h}, NEW i \in 0 .. Len(l2[f])
        PROVE  M.next[d(f, i)] = d(f, i + 1) /\ M.prev[d(f, i + 1)] = d(f, i)
    <3>1. i \in 0 .. Len(l[f]) /\ i \in Int /\ i + 1 \in Int
      BY <1>0, <1>6
    <3> QED BY <3>1, <1>8, <1>16
  <2>2. ASSUME NEW i \in 0 .. Len(l2[g])
        PROVE  M.next[d(g, i)] = d(g, i + 1) /\ M.prev[d(g, i + 1)] = d(g, i)
    <3>1. i \in Int /\ i + 1 \in Int
      BY <1>18
    <3> QED BY <3>1, <1>7, <1>15
  <2>3. ASSUME NEW i \in 0 .. b + a
        PROVE  M.next[d(h, i)] = d(h, i + 1) /\ M.prev[d(h, i + 1)] = d(h, i)
    <3>0. i \in 0 .. (b + a) + 1 /\ i + 1 \in 0 .. (b + a) + 1
      BY <1>0
    <3>1. CASE i < k
      <4>1. i \in 0 .. b /\ i # k /\ i <= k /\ i + 1 <= k
        BY <3>1, <1>0
      <4>2. d(h, i) = c(h, i) /\ d(h, i + 1) = c(h, i + 1)
        BY <3>0, <4>1, <1>17
      <4> QED BY <4>1, <4>2, <1>16, <1>24
    <3>2. CASE i = k
      <4>1. d(h, i) = p /\ d(h, i + 1) = first
        <5>1. (i + 1) - k = 1 /\ i + 1 > k /\ i + 1 <= k + a /\ i <= k
          BY <3>2, <1>0
        <5> QED BY <3>0, <3>2, <5>1, <1>10, <1>17
      <4> QED BY <4>1, <1>15
    <3>3. CASE i > k /\ i < k + a
      <4>1. /\ i - k \in 0 .. a /\ i - k # 0 /\ i - k # a
            /\ d(h, i) = c(g, i - k) /\ d(h, i + 1) = c(g, (i - k) + 1)
        <5>1. (i + 1) - k = (i - k) + 1 /\ i + 1 > k /\ i + 1 <= k + a /\ i > k /\ i <= k + a
          BY <3>3, <1>0
        <5>2. d(h, i) = c(g, i - k) /\ d(h, i + 1) = c(g, (i + 1) - k)
          BY <3>0, <5>1, <1>17
        <5>3. i - k \in 0 .. a /\ i - k # 0 /\ i - k # a
          BY <3>0, <3>3, <1>0
        <5> QED BY <5>1, <5>2, <5>3
      <4> QED BY <4>1, <1>16, <1>24
    <3>4. CASE i = k + a
      <4>1. d(h, i) = last /\ d(h, i + 1) = q
        <5>1. /\ i - k = a /\ i > k /\ i <= k + a
              /\ i + 1 > k + a /\ (i + 1) - a = k + 1
          BY <3>4, <1>0
        <5>2. d(h, i) = c(g, i - k) /\ d(h, i + 1) = c(h, (i + 1) - a)
          BY <3>0, <5>1, <1>17
        <5> QED BY <5>1, <5>2, <1>10
      <4> QED BY <4>1, <1>15
    <3>5. CASE i > k + a
      <4>1. /\ i - a \in 0 .. b /\ i - a # k
            /\ d(h, i) = c(h, i - a) /\ d(h, i + 1) = c(h, (i - a) + 1)
        <5>1. i + 1 > k + a /\ (i + 1) - a = (i - a) + 1
          BY <3>5, <1>0
        <5>2. d(h, i) = c(h, i - a) /\ d(h, i + 1) = c(h, (i + 1) - a)
          BY <3>0, <3>5, <5>1, <1>17
        <5>3. i - a \in 0 .. b /\ i - a # k
          BY <3>0, <3>5, <1>0
        <5> QED BY <5>1, <5>2, <5>3
      <4> QED BY <4>1, <1>16, <1>24
    <3>6. i < k \/ i = k \/ (i > k /\ i < k + a) \/ i = k + a \/ i > k + a
      BY <1>0
    <3> QED BY <3>1, <3>2, <3>3, <3>4, <3>5, <3>6
  <2>4. ASSUME NEW f \in Anchor, NEW i \in 0 .. Len(l2[f])
        PROVE  M.next[d(f, i)] = d(f, i + 1) /\ M.prev[d(f, i + 1)] = d(f, i)
    <3>1. CASE f = g
      BY <3>1, <2>2
    <3>2. CASE f = h
      BY <3>2, <2>3, <1>18
    <3> QED BY <3>1, <3>2, <2>1
  <2> QED BY <2>4 DEF Rings, d
<1> DEFINE of(f, i) == IF f = h /\ i > k /\ i <= k + a THEN g ELSE f
           at(f, i) == IF f = h /\ i > k THEN IF i <= k + a THEN i - k ELSE i - a ELSE i
<1>20. ASSUME NEW f \in Anchor, NEW i \in 1 .. Len(l2[f])
       PROVE  /\ f # g /\ of(f, i) \in Anchor /\ at(f, i) \in 1 .. Len(l[of(f, i)])
              /\ l2[f][i] = l[of(f, i)][at(f, i)]
  <2>1. CASE f = g
    BY <2>1, <1>18
  <2>2. CASE f \notin {g, h}
    BY <2>2, <1>18
  <2>3. CASE f = h
    <3>1. i \in 1 .. b + a /\ l2[f][i] = s[i]
      BY <2>3, <1>6, <1>18
    <3>2. CASE i <= k
      <4>1. i \in 1 .. b /\ ~ (i > k)
        BY <3>1, <3>2, <1>0
      <4> QED BY <4>1, <3>1, <3>2, <2>3, <1>9, <1>24
    <3>3. CASE i > k /\ i <= k + a
      <4>1. i - k \in 1 .. a
        BY <3>1, <3>3, <1>0
      <4> QED BY <4>1, <3>1, <3>3, <2>3, <1>9, <1>24
    <3>4. CASE i > k + a
      <4>1. i - a \in 1 .. b /\ i > k /\ ~ (i <= k + a)
        BY <3>1, <3>4, <1>0
      <4> QED BY <4>1, <3>1, <3>4, <2>3, <1>9, <1>24
    <3> QED BY <3>1, <3>2, <3>3, <3>4, <1>0
  <2> QED BY <2>1, <2>2, <2>3
<1>21. Apart(l2)
  <2> SUFFICES ASSUME NEW f \in Anchor, NEW e \in Anchor, NEW i \in 1 .. Len(l2[f]),
                      NEW j \in 1 .. Len(l2[e]), l2[f][i] = l2[e][j]
               PROVE  f = e /\ i = j
    BY DEF Apart
  <2>1. of(f, i) = of(e, j) /\ at(f, i) = at(e, j)
    <3> HIDE DEF of, at
    <3>1. of(f, i) \in Anchor /\ of(e, j) \in Anchor
      BY <1>20
    <3>2. at(f, i) \in 1 .. Len(l[of(f, i)]) /\ at(e, j) \in 1 .. Len(l[of(e, j)])
      BY <1>20
    <3>3. l[of(f, i)][at(f, i)] = l[of(e, j)][at(e, j)]
      BY <1>20
    <3>4. \A v, w \in Anchor : \A y \in 1 .. Len(l[v]), z \in 1 .. Len(l[w]) :
             l[v][y] = l[w][z] => v = w /\ y = z
      BY <1>1 DEF Apart
    <3> QED BY ONLY <3>1, <3>2, <3>3, <3>4
  <2>2. f # g /\ e # g
    BY <1>20
  <2>3. f = e
    BY <2>1, <2>2
  <2>4. i \in Int /\ j \in Int
    OBVIOUS
  <2> QED BY <2>1, <2>3, <2>4, <1>0
<1>22. ASSUME NEW y \in Node, Off(l2, y) PROVE Off(l, y)
  <2> SUFFICES ASSUME NEW f \in Anchor, NEW i \in 1 .. Len(l[f]), l[f][i] = y PROVE FALSE
    BY DEF Off
  <2>1. CASE f \notin {g, h}
    BY <2>1, <1>6, <1>22 DEF Off
  <2>2. ASSUME NEW j \in 1 .. b + a, s[j] = y PROVE FALSE
    BY <2>2, <1>6, <1>18, <1>22 DEF Off
  <2>3. CASE f = g
    <3>0. i \in 1 .. a
      BY <2>3, <1>24
    <3>1. i + k \in 1 .. b + a /\ i + k > k /\ i + k <= k + a /\ (i + k) - k = i
      BY <3>0, <1>0
    <3> QED BY <3>1, <2>2, <2>3, <1>9
  <2>4. CASE f = h /\ i <= k
    <3>1. i \in 1 .. b + a
      BY <2>4, <1>0
    <3> QED BY <3>1, <2>2, <2>4, <1>9
  <2>5. CASE f = h /\ i > k
    <3>0. i \in 1 .. b /\ i > k
      BY <2>5, <1>24
    <3>1. i + a \in 1 .. b + a /\ i + a > k + a /\ (i + a) - a = i
      BY <3>0, <1>0
    <3> QED BY <3>1, <2>2, <2>5, <1>0, <1>9
  <2> QED BY <2>1, <2>3, <2>4, <2>5, <1>0
<1>23. ASSUME NEW y \in Node, Off(l2, y) PROVE Settled(M, y)
  <2>1. Off(l, y)
    BY <1>22, <1>23
  <2>2. Settled(m, y)
    BY <2>1 DEF Represents
  <2>3. p # y /\ q # y /\ first # y /\ last # y /\ g # y
    BY <2>1, <1>2, <1>10, EmListAssumption DEF c, At, Off
  <2>4. y \in Cell
    BY DEF Cell
  <2> QED BY <2>2, <2>3, <2>4, <1>1, <1>2, <1>12 DEF Settled
<1> QED BY <1>6, <1>13, <1>19, <1>21, <1>23 DEF Represents, l2, M, p, q, c

\* list_cut_position: the first k entries of h come to g, which had none.
LEMMA CutLemma ==
    ASSUME NEW m, NEW l, Represents(m, l, {}),
           NEW g \in Anchor, NEW h \in Anchor, g # h, Len(l[g]) = 0,
           NEW k \in 1 .. Len(l[h]),
           NEW t \in Seq(Node), t = SubSeq(l[h], 1, k),
           NEW s \in Seq(Node), s = SubSeq(l[h], k + 1, Len(l[h]))
    PROVE  Represents(CutAt(m, g, h, l[h][k]), [l EXCEPT ![g] = t, ![h] = s], {})
PROOF
<1> DEFINE b == Len(l[h])
           c(f, i) == At(l[f], f, i)
           l2 == [l EXCEPT ![g] = t, ![h] = s]
           d(f, i) == At(l2[f], f, i)
           entry == l[h][k]
           first == c(h, 1)
           rest == c(h, k + 1)
           M == CutAt(m, g, h, entry)
<1>1. l \in [Anchor -> Seq(Node)] /\ Apart(l) /\ Rings(m, l)
      /\ m.next \in [Cell -> Cell \cup {Poison}] /\ m.prev \in [Cell -> Cell \cup {Poison}]
  BY DEF Represents
<1>2. /\ b \in Nat /\ k \in 1 .. b /\ b = Len(l[h]) /\ l[h] \in Seq(Node) /\ entry = c(h, k)
      /\ \A f \in Anchor : Len(l[f]) \in Nat /\ c(f, 0) = f /\ c(f, Len(l[f]) + 1) = f
                           /\ \A i \in Int : c(f, i) \in Cell
      /\ entry \in Cell /\ first \in Cell /\ rest \in Cell /\ g \in Cell /\ h \in Cell
  <2>1. \A f \in Anchor : Len(l[f]) \in Nat /\ c(f, 0) = f /\ c(f, Len(l[f]) + 1) = f
                          /\ \A i \in Int : c(f, i) \in Cell
    BY <1>1, Places
  <2>2. b \in Nat /\ l[h] \in Seq(Node) /\ entry = c(h, k)
    <3>1. l[h] \in Seq(Node)
      BY <1>1
    <3> QED BY <3>1, LenProperties DEF At
  <2>3. k \in Int /\ k + 1 \in Int /\ 1 \in Int
    BY <2>2
  <2>4. g \in Cell /\ h \in Cell
    BY DEF Cell
  <2> HIDE DEF c
  <2> QED BY <2>1, <2>2, <2>3, <2>4
<1>3. \A f \in Anchor : \A i \in 0 .. Len(l[f]) : /\ m.next[c(f, i)] = c(f, i + 1)
                                                  /\ m.prev[c(f, i + 1)] = c(f, i)
  BY <1>1 DEF Rings
<1>4. \A e, f \in Anchor : \A i \in 0 .. Len(l[e]), j \in 0 .. Len(l[f]) :
        c(e, i) = c(f, j) => e = f /\ i = j
  BY <1>1, Places
<1>5. \A e, f \in Anchor : \A i \in 1 .. Len(l[e]) + 1, j \in 1 .. Len(l[f]) + 1 :
        c(e, i) = c(f, j) => e = f /\ i = j
  BY <1>1, Places
<1>6. /\ l2 \in [Anchor -> Seq(Node)] /\ l2[h] = s /\ l2[g] = t
      /\ \A f \in Anchor \ {g, h} : l2[f] = l[f]
  BY <1>1
<1>7. b \in Nat /\ k \in Int /\ 1 <= k /\ k <= b
  BY <1>2
<1>8. /\ Len(t) = k /\ Len(s) = b - k
      /\ \A i \in 1 .. k : t[i] = l[h][i]
      /\ \A i \in 1 .. b - k : s[i] = l[h][i + k]
  <2> DEFINE r == l[h]
             n == Len(r)
  <2>0. n = b
    OBVIOUS
  <2>1. r \in Seq(Node) /\ n \in Nat /\ k \in 1 .. n /\ \A i \in 1 .. n : r[i] \in Node
    BY <1>2, ElementOfSeq
  <2>2. t = SubSeq(r, 1, k) /\ s = SubSeq(r, k + 1, n)
    OBVIOUS
  <2> HIDE DEF r, n
  <2>3. Len(t) = (IF 1 <= k THEN k - 1 + 1 ELSE 0)
        /\ \A i \in 1 .. (k - 1 + 1) : t[i] = r[1 + i - 1]
    <3>1. \A i \in 1 .. k : r[i] \in Node
      BY <2>1
    <3> QED BY ONLY <3>1, <2>1, <2>2, SubSeqProperties
  <2>4. Len(s) = (IF k + 1 <= n THEN n - (k + 1) + 1 ELSE 0)
        /\ \A i \in 1 .. (n - (k + 1) + 1) : s[i] = r[(k + 1) + i - 1]
    <3>1. (\A i \in k + 1 .. n : r[i] \in Node) /\ k + 1 \in Int /\ n \in Int
      BY <2>1
    <3> QED BY ONLY <3>1, <2>1, <2>2, SubSeqProperties
  <2>5. (IF 1 <= k THEN k - 1 + 1 ELSE 0) = k /\ k - 1 + 1 = k /\ k \in Int
        /\ (IF k + 1 <= n THEN n - (k + 1) + 1 ELSE 0) = n - k /\ n - (k + 1) + 1 = n - k
        /\ \A i \in Int : 1 + i - 1 = i /\ (k + 1) + i - 1 = i + k
    BY <2>1
  <2>6. /\ Len(t) = k /\ Len(s) = n - k
        /\ \A i \in 1 .. k : t[i] = r[i]
        /\ \A i \in 1 .. n - k : s[i] = r[i + k]
    BY ONLY <2>3, <2>4, <2>5
  <2> QED BY <2>0, <2>6 DEF r
<1>9. /\ \A i \in Int : /\ d(h, i) = IF i \in 1 .. b - k THEN s[i] ELSE h
                        /\ d(g, i) = IF i \in 1 .. k THEN t[i] ELSE g
                        /\ c(h, i) = IF i \in 1 .. b THEN l[h][i] ELSE h
      /\ \A f \in Anchor \ {g, h} : \A i \in Int : d(f, i) = c(f, i)
  BY <1>6, <1>8 DEF At
<1>10. m.next[h] = first /\ m.next[entry] = rest
  <2>1. 0 \in 0 .. Len(l[h]) /\ k \in 0 .. Len(l[h]) /\ 0 + 1 = 1
    BY <1>2
  <2> HIDE DEF c, b, entry
  <2> QED BY <2>1, <1>2, <1>3
<1>11. /\ M.next = [m.next EXCEPT ![g] = first, ![entry] = g, ![h] = rest]
       /\ M.prev = [m.prev EXCEPT ![first] = g, ![g] = entry, ![rest] = h]
  BY <1>10 DEF CutAt
<1>12. entry = c(h, k) /\ first = c(h, 1) /\ rest = c(h, k + 1) /\ b = Len(l[h])
       /\ entry = l[h][k]
  BY <1>2
<1> HIDE DEF c, d, M, b, l2, entry, first, rest
<1>13. M.next \in [Cell -> Cell \cup {Poison}] /\ M.prev \in [Cell -> Cell \cup {Poison}]
  <2>1. /\ m.next \in [Cell -> Cell \cup {Poison}] /\ m.prev \in [Cell -> Cell \cup {Poison}]
        /\ entry \in Cell /\ first \in Cell /\ rest \in Cell /\ g \in Cell /\ h \in Cell
    BY <1>1, <1>2
  <2>2. M.next \in [Cell -> Cell \cup {Poison}]
    BY ONLY <2>1, <1>11
  <2>3. M.prev \in [Cell -> Cell \cup {Poison}]
    BY ONLY <2>1, <1>11
  <2> QED BY <2>2, <2>3
<1>14. entry # g /\ entry # h /\ first # g /\ rest # g /\ first # rest
  <2>1. /\ k \in 0 .. Len(l[h]) /\ 0 \in 0 .. Len(l[g]) /\ 0 \in 0 .. Len(l[h]) /\ k # 0
        /\ k + 1 \in 1 .. Len(l[h]) + 1 /\ 1 \in 1 .. Len(l[h]) + 1
        /\ Len(l[g]) + 1 \in 1 .. Len(l[g]) + 1 /\ k + 1 # 1
    BY <1>2
  <2>2. entry # g /\ entry # h
    BY <2>1, <1>2, <1>4
  <2>3. first # g /\ rest # g
    BY <2>1, <1>2, <1>5, <1>12
  <2>4. first # rest
    BY <2>1, <1>5, <1>12
  <2> QED BY <2>2, <2>3, <2>4
<1>15. /\ M.next[g] = first /\ M.prev[first] = g
       /\ M.next[entry] = g /\ M.prev[g] = entry
       /\ M.next[h] = rest /\ M.prev[rest] = h
  BY <1>1, <1>2, <1>11, <1>14
<1>16. ASSUME NEW f \in Anchor, NEW i \in 0 .. Len(l[f]), f # g, f = h => i # 0 /\ i # k
       PROVE  M.next[c(f, i)] = c(f, i + 1) /\ M.prev[c(f, i + 1)] = c(f, i)
  <2>1. /\ k \in 0 .. Len(l[h]) /\ 0 \in 0 .. Len(l[h]) /\ 0 \in 0 .. Len(l[g])
        /\ i + 1 \in 1 .. Len(l[f]) + 1 /\ k + 1 \in 1 .. Len(l[h]) + 1
        /\ 1 \in 1 .. Len(l[h]) + 1 /\ Len(l[g]) + 1 \in 1 .. Len(l[g]) + 1
        /\ i \in Int /\ i + 1 \in Int
    BY <1>2
  <2>2. c(f, i) # g /\ c(f, i) # entry /\ c(f, i) # h
    <3>1. c(f, i) # c(g, 0)
      BY <2>1, <1>4, <1>16
    <3>2. c(f, i) # c(h, k)
      BY <2>1, <1>4, <1>16
    <3>3. c(f, i) # c(h, 0)
      BY <2>1, <1>4, <1>16
    <3> QED BY <3>1, <3>2, <3>3, <1>2
  <2>3. c(f, i + 1) # first
    <3> SUFFICES ASSUME c(f, i + 1) = c(h, 1) PROVE FALSE
      BY <1>12
    <3>1. f = h /\ i + 1 = 1
      BY <2>1, <1>5
    <3> QED BY <3>1, <1>16
  <2>4. c(f, i + 1) # rest
    <3> SUFFICES ASSUME c(f, i + 1) = c(h, k + 1) PROVE FALSE
      BY <1>12
    <3>1. f = h /\ i + 1 = k + 1
      <4>1. i + 1 \in 1 .. Len(l[f]) + 1 /\ k + 1 \in 1 .. Len(l[h]) + 1
        BY <2>1
      <4> QED BY <4>1, <1>5
    <3> QED BY <3>1, <1>7, <1>16
  <2>5. c(f, i + 1) # g
    <3> SUFFICES ASSUME c(f, i + 1) = c(g, Len(l[g]) + 1) PROVE FALSE
      BY <1>2
    <3> QED BY <2>1, <1>5, <1>16
  <2> QED BY <2>1, <2>2, <2>3, <2>4, <2>5, <1>1, <1>2, <1>3, <1>11
<1>17. /\ \A i \in 0 .. k + 1 : d(g, i) = IF i \in 1 .. k THEN c(h, i) ELSE g
       /\ \A i \in 1 .. (b - k) + 1 : d(h, i) = c(h, i + k)
       /\ d(h, 0) = h
  <2>1. ASSUME NEW i \in 0 .. k + 1 PROVE d(g, i) = IF i \in 1 .. k THEN c(h, i) ELSE g
    <3>1. i \in Int /\ (i \in 1 .. k => i \in 1 .. b)
      BY <1>7
    <3> QED BY <3>1, <1>8, <1>9
  <2>2. ASSUME NEW i \in 1 .. (b - k) + 1 PROVE d(h, i) = c(h, i + k)
    <3>1. i \in Int /\ i + k \in Int /\ (i \in 1 .. b - k <=> i + k \in 1 .. b)
      BY <1>7
    <3> QED BY <3>1, <1>8, <1>9
  <2>3. d(h, 0) = h
    BY <1>9
  <2> QED BY <2>1, <2>2, <2>3
<1>18. Len(l2[h]) = b - k /\ Len(l2[g]) = k /\ \A f \in Anchor \ {g, h} : l2[f] = l[f]
  BY <1>6, <1>8
<1>19. Rings(M, l2)
  <2>1. ASSUME NEW f \in Anchor \ {g, h}, NEW i \in 0 .. Len(l2[f])
        PROVE  M.next[d(f, i)] = d(f, i + 1) /\ M.prev[d(f, i + 1)] = d(f, i)
    <3>1. i \in 0 .. Len(l[f]) /\ i \in Int /\ i + 1 \in Int
      BY <1>2, <1>6
    <3>2. M.next[c(f, i)] = c(f, i + 1) /\ M.prev[c(f, i + 1)] = c(f, i)
      BY <3>1, <1>16
    <3> QED BY <3>1, <3>2, <1>9
  <2>2. ASSUME NEW i \in 0 .. k
        PROVE  M.next[d(g, i)] = d(g, i + 1) /\ M.prev[d(g, i + 1)] = d(g, i)
    <3>0. i \in 0 .. k + 1 /\ i + 1 \in 0 .. k + 1
      BY <1>7
    <3>1. CASE i = 0
      <4>1. i \notin 1 .. k /\ i + 1 \in 1 .. k /\ i + 1 = 1
        BY <3>1, <1>7
      <4> QED BY <3>0, <4>1, <1>12, <1>15, <1>17
    <3>2. CASE i = k
      <4>1. i \in 1 .. k /\ i + 1 \notin 1 .. k
        BY <3>2, <1>7
      <4> QED BY <3>0, <3>2, <4>1, <1>12, <1>15, <1>17
    <3>3. CASE i # 0 /\ i # k
      <4>1. i \in 1 .. k /\ i + 1 \in 1 .. k /\ i \in 0 .. b
        BY <3>3, <1>7
      <4>2. d(g, i) = c(h, i) /\ d(g, i + 1) = c(h, i + 1)
        BY <3>0, <4>1, <1>17
      <4> QED BY <3>3, <4>1, <4>2, <1>12, <1>16
    <3> QED BY <3>1, <3>2, <3>3
  <2>3. ASSUME NEW i \in 0 .. b - k
        PROVE  M.next[d(h, i)] = d(h, i + 1) /\ M.prev[d(h, i + 1)] = d(h, i)
    <3>1. CASE i = 0
      <4>1. i + 1 \in 1 .. (b - k) + 1 /\ (i + 1) + k = k + 1
        BY <3>1, <1>7
      <4> QED BY <3>1, <4>1, <1>12, <1>15, <1>17
    <3>2. CASE i # 0
      <4>1. /\ i \in 1 .. (b - k) + 1 /\ i + 1 \in 1 .. (b - k) + 1
            /\ i + k \in 0 .. b /\ i + k # 0 /\ i + k # k /\ (i + 1) + k = (i + k) + 1
        BY <3>2, <1>7
      <4>2. d(h, i) = c(h, i + k) /\ d(h, i + 1) = c(h, (i + 1) + k)
        BY <4>1, <1>17
      <4> QED BY <4>1, <4>2, <1>12, <1>16
    <3> QED BY <3>1, <3>2
  <2>4. ASSUME NEW f \in Anchor, NEW i \in 0 .. Len(l2[f])
        PROVE  M.next[d(f, i)] = d(f, i + 1) /\ M.prev[d(f, i + 1)] = d(f, i)
    <3>1. CASE f = g
      BY <3>1, <2>2, <1>18
    <3>2. CASE f = h
      BY <3>2, <2>3, <1>18
    <3> QED BY <3>1, <3>2, <2>1
  <2> QED BY <2>4 DEF Rings, d
<1> DEFINE of(f) == IF f = g THEN h ELSE f
           at(f, i) == IF f = h THEN i + k ELSE i
<1>20. ASSUME NEW f \in Anchor, NEW i \in 1 .. Len(l2[f])
       PROVE  /\ of(f) \in Anchor /\ at(f, i) \in 1 .. Len(l[of(f)])
              /\ l2[f][i] = l[of(f)][at(f, i)] /\ (f = g => i <= k)
  <2>1. CASE f = g
    <3>1. i \in 1 .. k /\ i \in 1 .. b /\ i <= k
      BY <2>1, <1>7, <1>18
    <3>2. of(f) = h /\ at(f, i) = i
      BY <2>1
    <3> HIDE DEF of, at
    <3>3. l2[f][i] = l[h][i] /\ Len(l[h]) = b
      BY <2>1, <3>1, <1>2, <1>6, <1>8
    <3> QED BY <3>1, <3>2, <3>3
  <2>2. CASE f \notin {g, h}
    BY <2>2, <1>18
  <2>3. CASE f = h
    <3>1. i \in 1 .. b - k
      BY <2>3, <1>18
    <3>2. i + k \in 1 .. b
      BY <3>1, <1>7
    <3> QED BY <2>3, <3>1, <3>2, <1>6, <1>8, <1>12
  <2> QED BY <2>1, <2>2, <2>3
<1>21. Apart(l2)
  <2> SUFFICES ASSUME NEW f \in Anchor, NEW e \in Anchor, NEW i \in 1 .. Len(l2[f]),
                      NEW j \in 1 .. Len(l2[e]), l2[f][i] = l2[e][j]
               PROVE  f = e /\ i = j
    BY DEF Apart
  <2>1. of(f) = of(e) /\ at(f, i) = at(e, j)
    <3> HIDE DEF of, at
    <3>1. of(f) \in Anchor /\ of(e) \in Anchor
      BY <1>20
    <3>2. at(f, i) \in 1 .. Len(l[of(f)]) /\ at(e, j) \in 1 .. Len(l[of(e)])
      BY <1>20
    <3>3. l[of(f)][at(f, i)] = l[of(e)][at(e, j)]
      BY <1>20
    <3>4. \A f1, e1 \in Anchor : \A i1 \in 1 .. Len(l[f1]), j1 \in 1 .. Len(l[e1]) :
            l[f1][i1] = l[e1][j1] => f1 = e1 /\ i1 = j1
      BY <1>1 DEF Apart
    <3> QED BY ONLY <3>1, <3>2, <3>3, <3>4
  <2>2. (f = g => i <= k) /\ (e = g => j <= k)
    BY <1>20
  <2>3. i \in Int /\ j \in Int /\ i > 0 /\ j > 0
    OBVIOUS
  <2>4. f = e
    BY <2>1, <2>2, <2>3, <1>7
  <2> QED BY <2>1, <2>3, <2>4, <1>7
<1>22. ASSUME NEW y \in Node, Off(l2, y) PROVE Off(l, y)
  <2> SUFFICES ASSUME NEW f \in Anchor, NEW i \in 1 .. Len(l[f]), l[f][i] = y PROVE FALSE
    BY DEF Off
  <2>1. CASE f \notin {g, h}
    BY <2>1, <1>6, <1>22 DEF Off
  <2>2. CASE f = g
    BY <2>2
  <2>3. CASE f = h /\ i \in 1 .. k
    <3>1. l2[g][i] = y /\ i \in 1 .. Len(l2[g])
      BY <2>3, <1>6, <1>8
    <3> QED BY <3>1, <1>22 DEF Off
  <2>4. CASE f = h /\ i \notin 1 .. k
    <3>0. i \in 1 .. b
      BY <2>4, <1>12
    <3>1. i - k \in 1 .. b - k /\ (i - k) + k = i
      BY <2>4, <3>0, <1>7
    <3>2. l2[h][i - k] = y /\ i - k \in 1 .. Len(l2[h])
      BY <2>4, <3>1, <1>6, <1>8
    <3> QED BY <3>2, <1>22 DEF Off
  <2> QED BY <2>1, <2>2, <2>3, <2>4
<1>23. ASSUME NEW y \in Node, Off(l2, y) PROVE Settled(M, y)
  <2>1. Off(l, y)
    BY <1>22, <1>23
  <2>2. Settled(m, y)
    BY <2>1 DEF Represents
  <2>3. entry # y /\ first # y /\ rest # y /\ g # y /\ h # y
    BY <2>1, <1>2, <1>12, EmListAssumption DEF c, At, Off
  <2>4. y \in Cell
    BY DEF Cell
  <2> QED BY <2>2, <2>3, <2>4, <1>1, <1>2, <1>11 DEF Settled
<1> QED BY <1>6, <1>13, <1>19, <1>21, <1>23 DEF Represents, l2, M, entry

-----------------------------------------------------------------------------
(* The operations on the lists l that the heap m represents.                *)

\* The head's neighbours, and which entries are on a list.
LEMMA Ends ==
    ASSUME NEW m, NEW l, NEW X, Represents(m, l, X), NEW h \in Anchor
    PROVE  /\ l[h] \in Seq(Node) /\ Len(l[h]) \in Nat
           /\ m.next[h] = At(l[h], h, 1) /\ m.prev[h] = At(l[h], h, Len(l[h]))
           /\ At(l[h], h, 0) = h /\ At(l[h], h, Len(l[h]) + 1) = h
PROOF
<1>1. l \in [Anchor -> Seq(Node)] /\ Apart(l) /\ Rings(m, l)
  BY DEF Represents
<1>2. /\ l[h] \in Seq(Node) /\ Len(l[h]) \in Nat
      /\ At(l[h], h, 0) = h /\ At(l[h], h, Len(l[h]) + 1) = h
  BY <1>1, Places
<1>3. \A i \in 0 .. Len(l[h]) : /\ m.next[At(l[h], h, i)] = At(l[h], h, i + 1)
                                /\ m.prev[At(l[h], h, i + 1)] = At(l[h], h, i)
  BY <1>1 DEF Rings
<1>4. 0 \in 0 .. Len(l[h]) /\ Len(l[h]) \in 0 .. Len(l[h]) /\ 0 + 1 = 1
  BY <1>2
<1>5. m.next[At(l[h], h, 0)] = At(l[h], h, 0 + 1)
      /\ m.prev[At(l[h], h, Len(l[h]) + 1)] = At(l[h], h, Len(l[h]))
  BY <1>3, <1>4
<1> QED BY <1>2, <1>4, <1>5

\* An entry on a list is never idle, one on no list always is.
LEMMA Standing ==
    ASSUME NEW m, NEW l, Represents(m, l, {}), NEW x \in Node
    PROVE  /\ m.next[x] \in {x, Poison} => Off(l, x)
           /\ m.next[x] \notin {x, Poison} =>
                \E h \in Anchor : \E k \in 1 .. Len(l[h]) : l[h][k] = x
PROOF
<1>1. l \in [Anchor -> Seq(Node)] /\ Apart(l) /\ Rings(m, l)
  BY DEF Represents
<1>2. ASSUME NEW h \in Anchor, NEW k \in 1 .. Len(l[h]), l[h][k] = x
      PROVE  m.next[x] \notin {x, Poison}
  <2> DEFINE c(i) == At(l[h], h, i)
  <2>1. Len(l[h]) \in Nat /\ c(k) = x /\ c(0) = h /\ c(Len(l[h]) + 1) = h
        /\ \A i \in Int : c(i) \in Cell
    BY <1>1, <1>2, Places
  <2>2. m.next[c(k)] = c(k + 1)
    BY <1>1, <1>2 DEF Rings
  <2>3. \A i, j \in 1 .. Len(l[h]) + 1 : c(i) = c(j) => i = j
    BY <1>1, Places
  <2> HIDE DEF c
  <2>4. k \in 1 .. Len(l[h]) + 1 /\ k + 1 \in 1 .. Len(l[h]) + 1 /\ k + 1 # k /\ k + 1 \in Int
    BY <2>1
  <2>5. c(k + 1) # c(k)
    BY <2>3, <2>4
  <2>6. c(k + 1) # Poison
    BY <2>1, <2>4, EmListAssumption DEF Cell
  <2> QED BY <2>1, <2>2, <2>5, <2>6
<1>3. m.next[x] \in {x, Poison} => Off(l, x)
  BY <1>2 DEF Off
<1>4. Off(l, x) => m.next[x] \in {x, Poison}
  BY DEF Represents, Settled
<1> QED BY <1>3, <1>4 DEF Off

\* list_add puts its entry in front.
LEMMA AddFirstLemma ==
    ASSUME NEW m, NEW l, NEW X, Represents(m, l, X), NEW h \in Anchor,
           NEW x \in Node, Off(l, x)
    PROVE  Represents(AddFirst(m, x, h), [l EXCEPT ![h] = <<x>> \o @], X \ {x})
PROOF
<1> DEFINE t == l[h]
           s == <<x>> \o t
<1>1. t \in Seq(Node) /\ Len(t) \in Nat /\ m.next[h] = At(t, h, 0 + 1) /\ At(t, h, 0) = h
  BY Ends
<1>2. <<x>> \in Seq(Node) /\ Len(<<x>>) = 1 /\ <<x>>[1] = x
  OBVIOUS
<1>3. /\ s \in Seq(Node) /\ Len(s) = 1 + Len(t)
      /\ \A i \in 1 .. 1 + Len(t) : s[i] = IF i <= 1 THEN <<x>>[i] ELSE t[i - 1]
  BY <1>1, <1>2, ConcatProperties
<1> HIDE DEF s, t
<1>4. /\ 0 \in 0 .. Len(t) /\ s \in Seq(Node) /\ Len(s) = Len(t) + 1
      /\ \A i \in 1 .. Len(t) + 1 : /\ i <= 0 => s[i] = t[i]
                                    /\ i = 0 + 1 => s[i] = x
                                    /\ i > 0 + 1 => s[i] = t[i - 1]
  BY <1>1, <1>2, <1>3
<1>5. Represents(AddBetween(m, x, At(t, h, 0), At(t, h, 0 + 1)), [l EXCEPT ![h] = s], X \ {x})
  BY <1>4, AddBetweenLemma DEF t
<1> QED BY <1>1, <1>5 DEF AddFirst, s, t

\* list_add_tail puts it at the end.
LEMMA AddLastLemma ==
    ASSUME NEW m, NEW l, NEW X, Represents(m, l, X), NEW h \in Anchor,
           NEW x \in Node, Off(l, x)
    PROVE  Represents(AddLast(m, x, h), [l EXCEPT ![h] = Append(@, x)], X \ {x})
PROOF
<1> DEFINE t == l[h]
           n == Len(t)
           s == Append(t, x)
<1>1. t \in Seq(Node) /\ n \in Nat /\ m.prev[h] = At(t, h, n) /\ At(t, h, n + 1) = h
  BY Ends
<1>2. /\ s \in Seq(Node) /\ Len(s) = n + 1
      /\ (\A i \in 1 .. n : s[i] = t[i]) /\ s[n + 1] = x
  BY <1>1, AppendProperties
<1>3. n = Len(t)
  OBVIOUS
<1> HIDE DEF s, t, n
<1>4. /\ n \in 0 .. n
      /\ \A i \in 1 .. n + 1 : /\ i <= n => s[i] = t[i]
                               /\ i = n + 1 => s[i] = x
                               /\ i > n + 1 => s[i] = t[i - 1]
  BY <1>1, <1>2
<1>5. Represents(AddBetween(m, x, At(t, h, n), At(t, h, n + 1)), [l EXCEPT ![h] = s], X \ {x})
  BY <1>2, <1>3, <1>4, AddBetweenLemma DEF t
<1> QED BY <1>1, <1>5 DEF AddLast, s, t

\* Taking an entry off leaves it with its pointers, to be settled.
LEMMA TakeOffLemma ==
    ASSUME NEW m, NEW l, Represents(m, l, {}), NEW h \in Anchor, NEW k \in 1 .. Len(l[h])
    PROVE  /\ Represents(DelEntry(m, l[h][k]), [l EXCEPT ![h] = RemoveAt(@, k)], {l[h][k]})
           /\ Off([l EXCEPT ![h] = RemoveAt(@, k)], l[h][k]) /\ l[h][k] \in Node
PROOF
<1> DEFINE t == l[h]
           s == RemoveAt(t, k)
<1>1. t \in Seq(Node) /\ k \in 1 .. Len(t) /\ t[k] \in Node
  BY ElementOfSeq DEF Represents
<1> HIDE DEF t
<1>2. s \in Seq(Node)
  BY <1>1, RemoveLemma
<1> HIDE DEF s
<1>3. Represents(DelEntry(m, l[h][k]), [l EXCEPT ![h] = s], {l[h][k]})
  BY <1>2, DelEntryLemma DEF s, t
<1>4. Off([l EXCEPT ![h] = s], l[h][k])
  BY <1>3 DEF Represents
<1> QED BY <1>1, <1>3, <1>4 DEF s, t

\* list_del and list_del_init.
LEMMA DelLemma ==
    ASSUME NEW m, NEW l, Represents(m, l, {}), NEW h \in Anchor, NEW k \in 1 .. Len(l[h])
    PROVE  /\ Represents(Del(m, l[h][k]), [l EXCEPT ![h] = RemoveAt(@, k)], {})
           /\ Represents(InitHead(DelEntry(m, l[h][k]), l[h][k]),
                         [l EXCEPT ![h] = RemoveAt(@, k)], {})
PROOF
<1> DEFINE x == l[h][k]
           l2 == [l EXCEPT ![h] = RemoveAt(@, k)]
           d == DelEntry(m, x)
<1>1. Represents(d, l2, {x}) /\ x \in Node
  BY TakeOffLemma
<1>2. /\ Del(m, x).next = [d.next EXCEPT ![x] = Poison]
      /\ Del(m, x).prev = [d.prev EXCEPT ![x] = Poison]
  BY DEF Del
<1>3. /\ InitHead(d, x).next = [d.next EXCEPT ![x] = x]
      /\ InitHead(d, x).prev = [d.prev EXCEPT ![x] = x]
  BY DEF InitHead
<1> HIDE DEF x, l2, d
<1>4. Represents(Del(m, x), l2, {})
  BY <1>1, <1>2, SettleLemma
<1>5. Represents(InitHead(d, x), l2, {})
  BY <1>1, <1>3, SettleLemma
<1> QED BY <1>4, <1>5 DEF x, l2, d

\* list_move and list_move_tail.
LEMMA MoveLemma ==
    ASSUME NEW m, NEW l, Represents(m, l, {}), NEW h \in Anchor, NEW k \in 1 .. Len(l[h]),
           NEW g \in Anchor
    PROVE  LET x  == l[h][k]
               l2 == [l EXCEPT ![h] = RemoveAt(@, k)]
           IN  /\ Represents(AddFirst(DelEntry(m, x), x, g), [l2 EXCEPT ![g] = <<x>> \o @], {})
               /\ Represents(AddLast(DelEntry(m, x), x, g), [l2 EXCEPT ![g] = Append(@, x)], {})
               /\ Represents(AddFirst(Del(m, x), x, g), [l2 EXCEPT ![g] = <<x>> \o @], {})
PROOF
<1> DEFINE x == l[h][k]
           l2 == [l EXCEPT ![h] = RemoveAt(@, k)]
<1>1. Represents(DelEntry(m, x), l2, {x}) /\ x \in Node /\ Off(l2, x)
  BY TakeOffLemma
<1>2. Represents(Del(m, x), l2, {})
  BY DelLemma
<1> HIDE DEF x, l2
<1>3. {x} \ {x} = {} /\ {} \ {x} = {}
  OBVIOUS
<1>4. Represents(AddFirst(DelEntry(m, x), x, g), [l2 EXCEPT ![g] = <<x>> \o @], {x} \ {x})
  BY <1>1, AddFirstLemma
<1>5. Represents(AddLast(DelEntry(m, x), x, g), [l2 EXCEPT ![g] = Append(@, x)], {x} \ {x})
  BY <1>1, AddLastLemma
<1>6. Represents(AddFirst(Del(m, x), x, g), [l2 EXCEPT ![g] = <<x>> \o @], {} \ {x})
  BY <1>1, <1>2, AddFirstLemma
<1>7. /\ Represents(AddFirst(DelEntry(m, x), x, g), [l2 EXCEPT ![g] = <<x>> \o @], {})
      /\ Represents(AddLast(DelEntry(m, x), x, g), [l2 EXCEPT ![g] = Append(@, x)], {})
      /\ Represents(AddFirst(Del(m, x), x, g), [l2 EXCEPT ![g] = <<x>> \o @], {})
  BY <1>3, <1>4, <1>5, <1>6
<1> QED BY <1>7 DEF x, l2

\* list_splice_init and list_splice_tail_init.
LEMMA JoinLemma ==
    ASSUME NEW m, NEW l, Represents(m, l, {}),
           NEW g \in Anchor, NEW h \in Anchor, g # h, l[g] # <<>>
    PROVE  /\ Represents(InitHead(Splice(m, g, h, m.next[h]), g),
                         [l EXCEPT ![h] = l[g] \o @, ![g] = <<>>], {})
           /\ Represents(InitHead(Splice(m, g, m.prev[h], h), g),
                         [l EXCEPT ![h] = @ \o l[g], ![g] = <<>>], {})
PROOF
<1> DEFINE u == l[g]
           t == l[h]
           n == Len(t)
           s1 == u \o t
           s2 == t \o u
<1>1. /\ t \in Seq(Node) /\ n \in Nat /\ u \in Seq(Node) /\ Len(u) \in Nat /\ n = Len(t)
      /\ m.next[h] = At(t, h, 0 + 1) /\ m.prev[h] = At(t, h, n)
      /\ At(t, h, 0) = h /\ At(t, h, n + 1) = h
  BY Ends
<1>2. Len(u) > 0
  <2>1. u # <<>>
    OBVIOUS
  <2> HIDE DEF u
  <2>2. Len(u) # 0
    BY <1>1, <2>1, EmptySeq
  <2> QED BY <1>1, <2>2
<1> HIDE DEF t, u, n
<1>3. /\ s1 \in Seq(Node) /\ Len(s1) = Len(u) + Len(t)
      /\ \A i \in 1 .. Len(u) + Len(t) : s1[i] = IF i <= Len(u) THEN u[i] ELSE t[i - Len(u)]
  BY <1>1, ConcatProperties
<1>4. /\ s2 \in Seq(Node) /\ Len(s2) = Len(t) + Len(u)
      /\ \A i \in 1 .. Len(t) + Len(u) : s2[i] = IF i <= Len(t) THEN t[i] ELSE u[i - Len(t)]
  BY <1>1, ConcatProperties
<1> HIDE DEF s1, s2
<1>5. Inserted(s1, t, 0, u)
  <2> DEFINE a == Len(u)
             b == Len(t)
  <2>1. a \in Nat /\ b \in Nat
    BY <1>1
  <2>2. /\ Len(s1) = a + b
        /\ \A i \in 1 .. a + b : s1[i] = IF i <= a THEN u[i] ELSE t[i - a]
    BY <1>3
  <2> HIDE DEF a, b
  <2>3. a + b = b + a /\ 0 + a = a /\ \A i \in 1 .. b + a : ~ (i <= 0) /\ i - 0 = i
    BY <2>1
  <2>4. /\ Len(s1) = b + a
        /\ \A i \in 1 .. b + a : /\ i <= 0 => s1[i] = t[i]
                                 /\ i > 0 /\ i <= 0 + a => s1[i] = u[i - 0]
                                 /\ i > 0 + a => s1[i] = t[i - a]
    BY <2>1, <2>2, <2>3
  <2> QED BY <2>4 DEF Inserted, a, b
<1>6. Inserted(s2, t, n, u)
  <2> DEFINE a == Len(u)
  <2>1. a \in Nat /\ n \in Nat
    BY <1>1
  <2>2. /\ Len(s2) = n + a
        /\ \A i \in 1 .. n + a : s2[i] = IF i <= n THEN t[i] ELSE u[i - n]
    BY <1>1, <1>4
  <2> HIDE DEF a
  <2>3. \A i \in 1 .. n + a : (i > n => ~ (i <= n)) /\ ~ (i > n + a)
    BY <2>1
  <2>4. /\ Len(s2) = n + a
        /\ \A i \in 1 .. n + a : /\ i <= n => s2[i] = t[i]
                                 /\ i > n /\ i <= n + a => s2[i] = u[i - n]
                                 /\ i > n + a => s2[i] = t[i - a]
    BY <2>2, <2>3
  <2> QED BY <2>4, <1>1 DEF Inserted, a
<1>7. 0 \in 0 .. Len(t) /\ n \in 0 .. Len(t)
  BY <1>1
<1>8. Represents(InitHead(Splice(m, g, At(t, h, 0), At(t, h, 0 + 1)), g),
                 [l EXCEPT ![h] = s1, ![g] = <<>>], {})
  BY <1>2, <1>3, <1>5, <1>7, SpliceLemma DEF t, u
<1>9. Represents(InitHead(Splice(m, g, At(t, h, n), At(t, h, n + 1)), g),
                 [l EXCEPT ![h] = s2, ![g] = <<>>], {})
  BY <1>2, <1>4, <1>6, <1>7, SpliceLemma DEF t, u
<1> QED BY <1>1, <1>8, <1>9 DEF s1, s2, t, u

\* list_replace_init is the removal of the old entry and, at the same place,
\* the addition of the new one.
LEMMA ReplaceLemma ==
    ASSUME NEW m, NEW l, Represents(m, l, {}), NEW h \in Anchor, NEW k \in 1 .. Len(l[h]),
           NEW y \in Node, Off(l, y)
    PROVE  Represents(InitHead(Replace(m, l[h][k], y), l[h][k]),
                      [l EXCEPT ![h] = [@ EXCEPT ![k] = y]], {})
PROOF
<1> DEFINE t == l[h]
           x == t[k]
           r == RemoveAt(t, k)
           l1 == [l EXCEPT ![h] = r]
           s == [t EXCEPT ![k] = y]
           l2 == [l EXCEPT ![h] = s]
           d == DelEntry(m, x)
           p == m.prev[x]
           n == m.next[x]
           M == Replace(m, x, y)
<1>1. /\ l \in [Anchor -> Seq(Node)] /\ Apart(l) /\ Rings(m, l)
      /\ m.next \in [Cell -> Cell \cup {Poison}] /\ m.prev \in [Cell -> Cell \cup {Poison}]
  BY DEF Represents
<1>2. t \in Seq(Node) /\ Len(t) \in Nat /\ k \in 1 .. Len(t) /\ x \in Node
  BY <1>1, LenProperties, ElementOfSeq
<1>3. Represents(d, l1, {x}) /\ Off(l1, x)
  BY TakeOffLemma
<1>4. p = At(t, h, k - 1) /\ n = At(t, h, k + 1) /\ n # x /\ y # x
      /\ p \in Cell /\ n \in Cell
  <2> DEFINE c(i) == At(t, h, i)
  <2>1. c(k) = x /\ \A i \in Int : c(i) \in Cell
    BY <1>1, Places
  <2>2. \A i \in 0 .. Len(t) : m.next[c(i)] = c(i + 1) /\ m.prev[c(i + 1)] = c(i)
    BY <1>1 DEF Rings
  <2>3. \A i, j \in 1 .. Len(t) + 1 : c(i) = c(j) => i = j
    BY <1>1, Places
  <2> HIDE DEF c, t, x
  <2>4. /\ k \in 0 .. Len(t) /\ k - 1 \in 0 .. Len(t) /\ (k - 1) + 1 = k
        /\ k \in 1 .. Len(t) + 1 /\ k + 1 \in 1 .. Len(t) + 1 /\ k + 1 # k
        /\ k - 1 \in Int /\ k + 1 \in Int
    BY <1>2
  <2>5. m.next[c(k)] = c(k + 1) /\ m.prev[c((k - 1) + 1)] = c(k - 1)
    BY <2>2, <2>4
  <2>6. c(k + 1) # c(k)
    BY <2>3, <2>4
  <2>7. y # x
    BY <1>2 DEF Off, t, x
  <2> QED BY <2>1, <2>4, <2>5, <2>6, <2>7 DEF c
<1> HIDE DEF x
<1>5. /\ r \in Seq(Node) /\ Len(r) = Len(t) - 1
      /\ \A i \in 1 .. Len(r) : r[i] = t[IF i < k THEN i ELSE i + 1]
  <2> HIDE DEF t
  <2> QED BY <1>2, RemoveLemma
<1>6. l1[h] = r /\ l1 \in [Anchor -> Seq(Node)]
  BY <1>1, <1>5
<1>7. l2 = [l1 EXCEPT ![h] = s]
  BY <1>1
<1>8. y \in Cell /\ x \in Cell
  BY <1>2 DEF Cell
<1>9. M = AddBetween(d, y, p, n)
  <2>1. [m.prev EXCEPT ![n] = y][x] = p
    BY <1>1, <1>4, <1>8
  <2>2. /\ [[m.next EXCEPT ![p] = n] EXCEPT ![y] = n, ![p] = y]
             = [m.next EXCEPT ![y] = n, ![p] = y]
        /\ [[m.prev EXCEPT ![n] = p] EXCEPT ![n] = y, ![y] = p]
             = [m.prev EXCEPT ![n] = y, ![y] = p]
    BY <1>1, <1>4, <1>8
  <2> QED BY <2>1, <2>2 DEF Replace, AddBetween, DelEntry, DelBetween
<1> HIDE DEF t, r, l1, s, l2, d, p, n, M
<1>10. Off(l1, y)
  <2> SUFFICES ASSUME NEW g \in Anchor, NEW i \in 1 .. Len(l1[g]), l1[g][i] = y PROVE FALSE
    BY DEF Off
  <2>1. CASE g # h
    <3>1. l1[g] = l[g]
      BY <2>1, <1>1 DEF l1
    <3> QED BY <3>1 DEF Off
  <2>2. CASE g = h
    <3>1. i \in 1 .. Len(r) /\ r[i] = y
      BY <2>2, <1>6
    <3>2. (IF i < k THEN i ELSE i + 1) \in 1 .. Len(t)
      BY <3>1, <1>2, <1>5
    <3> QED BY <3>1, <3>2, <1>5 DEF Off, t
  <2> QED BY <2>1, <2>2
<1>11. s \in Seq(Node) /\ Len(s) = Len(t) /\ s[k] = y
       /\ \A i \in 1 .. Len(t) : i # k => s[i] = t[i]
  <2>1. t \in [1 .. Len(t) -> Node]
    BY <1>2, LenProperties, ElementOfSeq
  <2>2. s \in [1 .. Len(t) -> Node] /\ s[k] = y
        /\ \A i \in 1 .. Len(t) : i # k => s[i] = t[i]
    BY <2>1, <1>2 DEF s
  <2> QED BY <2>2, <1>2
<1>12. /\ k - 1 \in 0 .. Len(r) /\ Len(s) = Len(r) + 1
       /\ \A i \in 1 .. Len(r) + 1 : /\ i <= k - 1 => s[i] = r[i]
                                     /\ i = (k - 1) + 1 => s[i] = y
                                     /\ i > (k - 1) + 1 => s[i] = r[i - 1]
  <2>1. k - 1 \in 0 .. Len(r) /\ Len(s) = Len(r) + 1
    BY <1>2, <1>5, <1>11
  <2>2. ASSUME NEW i \in 1 .. Len(r) + 1, i <= k - 1 PROVE s[i] = r[i]
    <3>1. i \in 1 .. Len(r) /\ i < k /\ i \in 1 .. Len(t) /\ i # k
      BY <2>2, <1>2, <1>5
    <3> QED BY <3>1, <1>5, <1>11
  <2>3. ASSUME NEW i \in 1 .. Len(r) + 1, i > (k - 1) + 1 PROVE s[i] = r[i - 1]
    <3>1. i - 1 \in 1 .. Len(r) /\ ~ (i - 1 < k) /\ (i - 1) + 1 = i /\ i \in 1 .. Len(t) /\ i # k
      BY <2>3, <1>2, <1>5
    <3> QED BY <3>1, <1>5, <1>11
  <2>4. (k - 1) + 1 = k
    BY <1>2
  <2> QED BY <2>1, <2>2, <2>3, <2>4, <1>11
<1>13. p = At(r, h, k - 1) /\ n = At(r, h, (k - 1) + 1)
  <2>1. /\ k - 1 \in 1 .. Len(r) <=> k - 1 \in 1 .. Len(t)
        /\ k - 1 \in 1 .. Len(r) => k - 1 < k
        /\ k \in 1 .. Len(r) <=> k + 1 \in 1 .. Len(t)
        /\ ~ (k < k) /\ (k - 1) + 1 = k
    BY <1>2, <1>5
  <2>2. k - 1 \in 1 .. Len(r) => r[k - 1] = t[k - 1]
    BY <2>1, <1>5
  <2>3. k \in 1 .. Len(r) => r[k] = t[k + 1]
    BY <2>1, <1>5
  <2> QED BY <2>1, <2>2, <2>3, <1>4 DEF At
<1>14. Represents(AddBetween(d, y, At(l1[h], h, k - 1), At(l1[h], h, (k - 1) + 1)),
                  [l1 EXCEPT ![h] = s], {x} \ {y})
  <2>1. /\ k - 1 \in 0 .. Len(l1[h]) /\ Len(s) = Len(l1[h]) + 1
        /\ \A i \in 1 .. Len(l1[h]) + 1 : /\ i <= k - 1 => s[i] = l1[h][i]
                                          /\ i = (k - 1) + 1 => s[i] = y
                                          /\ i > (k - 1) + 1 => s[i] = l1[h][i - 1]
    BY <1>6, <1>12
  <2>2. Represents(d, l1, {x}) /\ Off(l1, y) /\ s \in Seq(Node) /\ h \in Anchor /\ y \in Node
    BY <1>3, <1>10, <1>11
  <2> QED BY ONLY <2>1, <2>2, AddBetweenLemma
<1>15. {x} \ {y} = {x}
  BY <1>4
<1>16. Represents(M, l2, {x})
  BY <1>6, <1>7, <1>9, <1>13, <1>14, <1>15
<1>17. /\ InitHead(M, x).next = [M.next EXCEPT ![x] = x]
       /\ InitHead(M, x).prev = [M.prev EXCEPT ![x] = x]
  BY DEF InitHead
<1>18. Represents(InitHead(M, x), l2, {})
  BY <1>2, <1>16, <1>17, SettleLemma
<1> QED BY <1>18 DEF M, l2, s, x, t

-----------------------------------------------------------------------------
(* The steps.                                                               *)

\* What the pointers after a step represent is what the walks find.
LEMMA NewOrders ==
    ASSUME NEW l, Represents(heap', l, {})
    PROVE  Orders' = l
PROOF
<1>1. l \in [Anchor -> Seq(Node)]
  BY DEF Represents
<1>2. \A h \in Anchor : Order(heap', h) = l[h]
  BY OrderIs
<1>3. Orders' = [h \in Anchor |-> Order(heap', h)]
  BY DEF Orders, OrderOf
<1> QED BY <1>1, <1>2, <1>3

\* An entry on no list is a new one to Lists.
LEMMA NotHeld ==
    ASSUME NEW x, Orders \in [Anchor -> Seq(Node)], Off(Orders, x)
    PROVE  x \notin L!Held
PROOF
<1>1. ASSUME NEW h \in Anchor PROVE x \notin ToSet(Orders[h])
  <2>1. Orders[h] \in Seq(Node)
    OBVIOUS
  <2>2. x \in ToSet(Orders[h]) <=> \E i \in 1 .. Len(Orders[h]) : Orders[h][i] = x
    BY <2>1, ToSetOver
  <2> QED BY <2>2 DEF Off
<1> QED BY <1>1 DEF L!Held, L!ToSet, ToSet

\* A step of Lists, or none.
Allowed == L!Next \/ UNCHANGED Orders

\* Where an entry is that is not idle.
LEMMA Found ==
    ASSUME Represents(heap, Orders, {}), NEW x \in Node, OnList(x)
    PROVE  \E h \in Anchor : \E k \in 1 .. Len(Orders[h]) :
              Orders[h][k] = x /\ k \in DOMAIN Orders[h]
PROOF
<1>1. PICK h \in Anchor : \E k \in 1 .. Len(Orders[h]) : Orders[h][k] = x
  BY Standing DEF OnList, Idle, next
<1>2. PICK k \in 1 .. Len(Orders[h]) : Orders[h][k] = x
  BY <1>1
<1>3. k \in DOMAIN Orders[h]
  BY LenProperties DEF Represents
<1> QED BY <1>2, <1>3

LEMMA Absent ==
    ASSUME Represents(heap, Orders, {}), NEW x \in Node, Idle(x)
    PROVE  Off(Orders, x) /\ x \notin L!Held
PROOF
<1>1. Off(Orders, x)
  BY Standing DEF Idle, next
<1>2. Orders \in [Anchor -> Seq(Node)]
  BY DEF Represents
<1> QED BY <1>1, <1>2, NotHeld

LEMMA AddStep ==
    ASSUME Represents(heap, Orders, {}), NEW x \in Node, NEW h \in Anchor,
           ListAdd(x, h) \/ ListAddTail(x, h)
    PROVE  Represents(heap', Orders', {}) /\ Allowed
PROOF
<1>1. Off(Orders, x) /\ x \notin L!Held
  BY Absent DEF ListAdd, ListAddTail
<1>2. {} \ {x} = {}
  OBVIOUS
<1>3. CASE ListAdd(x, h)
  <2>1. heap' = AddFirst(heap, x, h)
    BY <1>3 DEF ListAdd, Becomes
  <2>2. Represents(heap', [Orders EXCEPT ![h] = <<x>> \o @], {} \ {x})
    BY <1>1, <2>1, AddFirstLemma
  <2>3. Orders' = [Orders EXCEPT ![h] = <<x>> \o @]
    BY <1>2, <2>2, NewOrders
  <2>4. L!PutFirst(x, h)
    BY <1>1, <2>3 DEF L!PutFirst
  <2> QED BY <1>2, <2>2, <2>3, <2>4 DEF Allowed, L!Next
<1>4. CASE ListAddTail(x, h)
  <2>1. heap' = AddLast(heap, x, h)
    BY <1>4 DEF ListAddTail, Becomes
  <2>2. Represents(heap', [Orders EXCEPT ![h] = Append(@, x)], {} \ {x})
    BY <1>1, <2>1, AddLastLemma
  <2>3. Orders' = [Orders EXCEPT ![h] = Append(@, x)]
    BY <1>2, <2>2, NewOrders
  <2>4. L!PutLast(x, h)
    BY <1>1, <2>3 DEF L!PutLast
  <2> QED BY <1>2, <2>2, <2>3, <2>4 DEF Allowed, L!Next
<1> QED BY <1>3, <1>4

LEMMA DelStep ==
    ASSUME Represents(heap, Orders, {}), NEW x \in Node, ListDel(x) \/ ListDelInit(x)
    PROVE  Represents(heap', Orders', {}) /\ Allowed
PROOF
<1>1. PICK h \in Anchor : \E k \in 1 .. Len(Orders[h]) :
        Orders[h][k] = x /\ k \in DOMAIN Orders[h]
  BY Found DEF ListDel, ListDelInit
<1>2. PICK k \in 1 .. Len(Orders[h]) : Orders[h][k] = x /\ k \in DOMAIN Orders[h]
  BY <1>1
<1>3. heap' = Del(heap, x) \/ heap' = InitHead(DelEntry(heap, x), x)
  BY DEF ListDel, ListDelInit, Becomes
<1>4. Represents(heap', [Orders EXCEPT ![h] = RemoveAt(@, k)], {})
  BY <1>2, <1>3, DelLemma
<1>5. Orders' = [Orders EXCEPT ![h] = RemoveAt(@, k)]
  BY <1>4, NewOrders
<1>6. L!TakeOut(h, k)
  BY <1>5 DEF L!TakeOut, L!Without, L!RemoveAt, RemoveAt
<1> QED BY <1>2, <1>4, <1>5, <1>6 DEF Allowed, L!Next


LEMMA MoveStep ==
    ASSUME Represents(heap, Orders, {}), NEW x \in Node, NEW g \in Anchor,
           ListMove(x, g) \/ ListMoveTail(x, g)
    PROVE  Represents(heap', Orders', {}) /\ Allowed
PROOF
<1>1. PICK h \in Anchor : \E k \in 1 .. Len(Orders[h]) :
        Orders[h][k] = x /\ k \in DOMAIN Orders[h]
  BY Found DEF ListMove, ListMoveTail
<1>2. PICK k \in 1 .. Len(Orders[h]) : Orders[h][k] = x /\ k \in DOMAIN Orders[h]
  BY <1>1
<1> DEFINE l2 == [Orders EXCEPT ![h] = RemoveAt(@, k)]
<1>3. /\ Represents(AddFirst(DelEntry(heap, x), x, g), [l2 EXCEPT ![g] = <<x>> \o @], {})
      /\ Represents(AddLast(DelEntry(heap, x), x, g), [l2 EXCEPT ![g] = Append(@, x)], {})
  BY <1>2, MoveLemma
<1>4. L!Without(h, k) = l2
  BY DEF L!Without, L!RemoveAt, RemoveAt
<1> HIDE DEF l2
<1>5. CASE ListMove(x, g)
  <2>1. Represents(heap', [l2 EXCEPT ![g] = <<x>> \o @], {})
    BY <1>3, <1>5 DEF ListMove, Becomes
  <2>2. Orders' = [l2 EXCEPT ![g] = <<x>> \o @]
    BY <2>1, NewOrders
  <2>3. L!MoveFirst(h, k, g)
    BY <1>2, <1>4, <2>2 DEF L!MoveFirst
  <2> QED BY <1>2, <2>1, <2>2, <2>3 DEF Allowed, L!Next
<1>6. CASE ListMoveTail(x, g)
  <2>1. Represents(heap', [l2 EXCEPT ![g] = Append(@, x)], {})
    BY <1>3, <1>6 DEF ListMoveTail, Becomes
  <2>2. Orders' = [l2 EXCEPT ![g] = Append(@, x)]
    BY <2>1, NewOrders
  <2>3. L!MoveLast(h, k, g)
    BY <1>2, <1>4, <2>2 DEF L!MoveLast
  <2> QED BY <1>2, <2>1, <2>2, <2>3 DEF Allowed, L!Next
<1> QED BY <1>5, <1>6

LEMMA ReplaceStep ==
    ASSUME Represents(heap, Orders, {}), NEW x \in Node, NEW y \in Node, ListReplaceInit(x, y)
    PROVE  Represents(heap', Orders', {}) /\ Allowed
PROOF
<1>1. PICK h \in Anchor : \E k \in 1 .. Len(Orders[h]) :
        Orders[h][k] = x /\ k \in DOMAIN Orders[h]
  BY Found DEF ListReplaceInit
<1>2. PICK k \in 1 .. Len(Orders[h]) : Orders[h][k] = x /\ k \in DOMAIN Orders[h]
  BY <1>1
<1>3. Off(Orders, y) /\ y \notin L!Held
  BY Absent DEF ListReplaceInit
<1>4. heap' = InitHead(Replace(heap, x, y), x)
  BY DEF ListReplaceInit, Becomes
<1>5. Represents(heap', [Orders EXCEPT ![h] = [@ EXCEPT ![k] = y]], {})
  BY <1>2, <1>3, <1>4, ReplaceLemma
<1>6. Orders' = [Orders EXCEPT ![h] = [@ EXCEPT ![k] = y]]
  BY <1>5, NewOrders
<1>7. L!Exchange(h, k, y)
  BY <1>3, <1>6 DEF L!Exchange
<1> QED BY <1>2, <1>5, <1>6, <1>7 DEF Allowed, L!Next

\* list_rotate_left is a move of the first entry to the end of its own list.
LEMMA RotateStep ==
    ASSUME Represents(heap, Orders, {}), NEW h \in Anchor, ListRotateLeft(h)
    PROVE  Represents(heap', Orders', {}) /\ Allowed
PROOF
<1> DEFINE x == Orders[h][1]
           l2 == [Orders EXCEPT ![h] = RemoveAt(@, 1)]
<1>1. /\ Orders[h] \in Seq(Node) /\ Len(Orders[h]) \in Nat
      /\ next[h] = At(Orders[h], h, 1)
  BY Ends DEF next
<1>2. 1 \in 1 .. Len(Orders[h]) /\ next[h] = x /\ 1 \in DOMAIN Orders[h]
  <2>1. next[h] # h
    BY DEF ListRotateLeft, Empty
  <2>2. 1 \in 1 .. Len(Orders[h])
    BY <1>1, <2>1 DEF At
  <2> QED BY <1>1, <2>2, LenProperties DEF At
<1>3. Represents(AddLast(DelEntry(heap, x), x, h), [l2 EXCEPT ![h] = Append(@, x)], {})
  BY <1>2, MoveLemma
<1>4. heap' = AddLast(DelEntry(heap, x), x, h)
  BY <1>2 DEF ListRotateLeft, Becomes
<1>5. L!Without(h, 1) = l2
  BY DEF L!Without, L!RemoveAt, RemoveAt
<1> HIDE DEF l2
<1>6. Orders' = [l2 EXCEPT ![h] = Append(@, x)]
  BY <1>3, <1>4, NewOrders
<1>7. L!MoveLast(h, 1, h)
  BY <1>5, <1>6 DEF L!MoveLast
<1> QED BY <1>2, <1>3, <1>4, <1>6, <1>7 DEF Allowed, L!Next

LEMMA SpliceStep ==
    ASSUME Represents(heap, Orders, {}), NEW g \in Anchor, NEW h \in Anchor,
           ListSpliceInit(g, h) \/ ListSpliceTailInit(g, h)
    PROVE  Represents(heap', Orders', {}) /\ Allowed
PROOF
<1>1. g # h /\ next[g] # g
  BY DEF ListSpliceInit, ListSpliceTailInit, Empty
<1>2. Orders[g] # <<>>
  <2>1. next[g] = At(Orders[g], g, 1) /\ Orders[g] \in Seq(Node)
    BY Ends DEF next
  <2> SUFFICES ASSUME Orders[g] = <<>> PROVE FALSE
    OBVIOUS
  <2>2. Len(Orders[g]) = 0
    BY <2>1, EmptySeq
  <2> QED BY <1>1, <2>1, <2>2 DEF At
<1>3. /\ Represents(InitHead(Splice(heap, g, h, next[h]), g),
                    [Orders EXCEPT ![h] = Orders[g] \o @, ![g] = <<>>], {})
      /\ Represents(InitHead(Splice(heap, g, prev[h], h), g),
                    [Orders EXCEPT ![h] = @ \o Orders[g], ![g] = <<>>], {})
  BY <1>1, <1>2, JoinLemma DEF next, prev
<1>4. CASE ListSpliceInit(g, h)
  <2>1. Represents(heap', [Orders EXCEPT ![h] = Orders[g] \o @, ![g] = <<>>], {})
    BY <1>3, <1>4 DEF ListSpliceInit, Becomes
  <2>2. Orders' = [Orders EXCEPT ![h] = Orders[g] \o @, ![g] = <<>>]
    BY <2>1, NewOrders
  <2>3. L!JoinFirst(g, h)
    BY <2>2 DEF L!JoinFirst
  <2> QED BY <1>1, <2>1, <2>2, <2>3 DEF Allowed, L!Next
<1>5. CASE ListSpliceTailInit(g, h)
  <2>1. Represents(heap', [Orders EXCEPT ![h] = @ \o Orders[g], ![g] = <<>>], {})
    BY <1>3, <1>5 DEF ListSpliceTailInit, Becomes
  <2>2. Orders' = [Orders EXCEPT ![h] = @ \o Orders[g], ![g] = <<>>]
    BY <2>1, NewOrders
  <2>3. L!JoinLast(g, h)
    BY <2>2 DEF L!JoinLast
  <2> QED BY <1>1, <2>1, <2>2, <2>3 DEF Allowed, L!Next
<1> QED BY <1>4, <1>5


LEMMA CutStep ==
    ASSUME Represents(heap, Orders, {}), NEW g \in Anchor, NEW h \in Anchor, NEW entry \in Cell,
           ListCutPosition(g, h, entry)
    PROVE  Represents(heap', Orders', {}) /\ Allowed
PROOF
<1>1. /\ g # h /\ next[g] = g
      /\ heap' = IF entry = h THEN InitHead(heap, g) ELSE CutAt(heap, g, h, entry)
      /\ entry = h \/ entry \in ToSet(Orders[h])
  BY DEF ListCutPosition, Empty, Becomes, Orders
<1>2. /\ Orders[g] \in Seq(Node) /\ Len(Orders[g]) \in Nat
      /\ next[g] = At(Orders[g], g, 1) /\ prev[g] = At(Orders[g], g, Len(Orders[g]))
      /\ Orders[h] \in Seq(Node) /\ Len(Orders[h]) \in Nat
  BY Ends DEF next, prev
<1>3. Len(Orders[g]) = 0 /\ Orders[g] = <<>>
  <2> SUFFICES ASSUME Len(Orders[g]) # 0 PROVE FALSE
    BY <1>2, EmptySeq
  <2>1. 1 \in 1 .. Len(Orders[g])
    BY <1>2
  <2>2. Orders[g][1] \in Node /\ Orders[g][1] = g
    BY <1>1, <1>2, <2>1, ElementOfSeq DEF At
  <2> QED BY <2>2, EmListAssumption
<1>4. CASE entry = h
  <2>1. heap' = InitHead(heap, g)
    BY <1>1, <1>4
  <2>2. prev[g] = g
    BY <1>2, <1>3 DEF At
  <2>3. /\ heap.next \in [Cell -> Cell \cup {Poison}]
        /\ heap.prev \in [Cell -> Cell \cup {Poison}] /\ g \in Cell
    BY DEF Represents, Cell
  <2>4. heap'.next = heap.next /\ heap'.prev = heap.prev
    BY <1>1, <2>1, <2>2, <2>3 DEF InitHead, next, prev
  <2>5. Represents(heap', Orders, {})
    BY <2>4 DEF Represents, Rings, Settled
  <2>6. Orders' = Orders
    BY <2>5, NewOrders
  <2> QED BY <2>5, <2>6 DEF Allowed
<1>5. CASE entry # h
  <2>1. PICK k \in 1 .. Len(Orders[h]) : Orders[h][k] = entry
    <3>1. entry \in ToSet(Orders[h])
      BY <1>1, <1>5
    <3>2. entry \in ToSet(Orders[h]) <=> \E k \in 1 .. Len(Orders[h]) : Orders[h][k] = entry
      BY <1>2, ToSetOver
    <3> QED BY <3>1, <3>2
  <2> DEFINE t == SubSeq(Orders[h], 1, k)
             s == SubSeq(Orders[h], k + 1, Len(Orders[h]))
  <2>2. t \in Seq(Node) /\ s \in Seq(Node)
    <3> DEFINE r == Orders[h]
    <3>1. r \in Seq(Node) /\ Len(r) \in Nat /\ k \in 1 .. Len(r)
      BY <1>2
    <3> HIDE DEF r
    <3>2. /\ \A i \in 1 .. k : r[i] \in Node
          /\ \A i \in k + 1 .. Len(r) : r[i] \in Node
          /\ k \in Int /\ k + 1 \in Int /\ Len(r) \in Int /\ 1 \in Int
      BY <3>1, ElementOfSeq
    <3>3. SubSeq(r, 1, k) \in Seq(Node)
      BY ONLY <3>2, SubSeqProperties
    <3>4. SubSeq(r, k + 1, Len(r)) \in Seq(Node)
      BY ONLY <3>2, SubSeqProperties
    <3> QED BY <3>3, <3>4 DEF r
  <2>3. heap' = CutAt(heap, g, h, Orders[h][k])
    BY <1>1, <1>5, <2>1
  <2> HIDE DEF t, s
  <2>4. t = SubSeq(Orders[h], 1, k) /\ s = SubSeq(Orders[h], k + 1, Len(Orders[h]))
    BY DEF t, s
  <2>5. Represents(heap', [Orders EXCEPT ![g] = t, ![h] = s], {})
    <3> DEFINE l == Orders
    <3>1. /\ Represents(heap, l, {}) /\ g \in Anchor /\ h \in Anchor /\ g # h
          /\ Len(l[g]) = 0 /\ k \in 1 .. Len(l[h])
          /\ t \in Seq(Node) /\ t = SubSeq(l[h], 1, k)
          /\ s \in Seq(Node) /\ s = SubSeq(l[h], k + 1, Len(l[h]))
      BY <1>1, <1>3, <2>2, <2>4
    <3> HIDE DEF l
    <3>2. Represents(CutAt(heap, g, h, l[h][k]), [l EXCEPT ![g] = t, ![h] = s], {})
      BY ONLY <3>1, CutLemma
    <3> QED BY <3>2, <2>3 DEF l
  <2>6. Orders' = [Orders EXCEPT ![g] = t, ![h] = s]
    BY <2>5, NewOrders
  <2>7. L!Cut(g, h, k) /\ k \in 0 .. Len(Orders[h])
    <3>1. k \in 0 .. Len(Orders[h])
      BY <1>2
    <3>2. Orders' = [Orders EXCEPT ![g] = SubSeq(Orders[h], 1, k),
                                   ![h] = SubSeq(@, k + 1, Len(@))]
      BY <1>1, <2>4, <2>6
    <3> QED BY <1>3, <3>1, <3>2 DEF L!Cut
  <2> QED BY <1>1, <2>5, <2>6, <2>7 DEF Allowed, L!Next
<1> QED BY <1>4, <1>5

\* An operation keeps the invariant and is a step of Lists.
LEMMA OperationStep ==
    ASSUME IInv, Operation
    PROVE  IInv' /\ Allowed
PROOF
<1>1. Represents(heap, Orders, {})
  BY DEF IInv
<1>2. Represents(heap', Orders', {}) /\ Allowed
  <2>1. ASSUME NEW x \in Node, ListDel(x) \/ ListDelInit(x)
        PROVE  Represents(heap', Orders', {}) /\ Allowed
    BY <1>1, <2>1, DelStep
  <2>2. ASSUME NEW x \in Node, NEW y \in Node, ListReplaceInit(x, y)
        PROVE  Represents(heap', Orders', {}) /\ Allowed
    BY <1>1, <2>2, ReplaceStep
  <2>3. ASSUME NEW x \in Node, NEW h \in Anchor, ListAdd(x, h) \/ ListAddTail(x, h)
        PROVE  Represents(heap', Orders', {}) /\ Allowed
    BY <1>1, <2>3, AddStep
  <2>4. ASSUME NEW x \in Node, NEW h \in Anchor, ListMove(x, h) \/ ListMoveTail(x, h)
        PROVE  Represents(heap', Orders', {}) /\ Allowed
    BY <1>1, <2>4, MoveStep
  <2>5. ASSUME NEW h \in Anchor, ListRotateLeft(h)
        PROVE  Represents(heap', Orders', {}) /\ Allowed
    BY <1>1, <2>5, RotateStep
  <2>6. ASSUME NEW g \in Anchor, NEW h \in Anchor,
               ListSpliceInit(g, h) \/ ListSpliceTailInit(g, h)
        PROVE  Represents(heap', Orders', {}) /\ Allowed
    BY <1>1, <2>6, SpliceStep
  <2>7. ASSUME NEW g \in Anchor, NEW h \in Anchor, NEW entry \in Cell,
               ListCutPosition(g, h, entry)
        PROVE  Represents(heap', Orders', {}) /\ Allowed
    BY <1>1, <2>7, CutStep
  <2> QED BY <2>1, <2>2, <2>3, <2>4, <2>5, <2>6, <2>7 DEF Operation
<1>3. loop' = NoLoop
  BY DEF Operation, ListAdd, ListAddTail, ListDel, ListDelInit, ListMove, ListMoveTail,
         ListReplaceInit, ListRotateLeft, ListSpliceInit, ListSpliceTailInit,
         ListCutPosition, Becomes
<1>4. InTurn' /\ LoopHolds'
  BY <1>3 DEF InTurn, LoopHolds
<1> QED BY <1>2, <1>4 DEF IInv


-----------------------------------------------------------------------------
(* The loop.                                                                *)

\* A step that leaves the pointers leaves the lists.
LEMMA SameHeap ==
    ASSUME Represents(heap, Orders, {}), heap' = heap
    PROVE  Orders' = Orders /\ Represents(heap', Orders', {})
PROOF
<1>1. Represents(heap', Orders, {})
  OBVIOUS
<1>2. Orders' = Orders
  BY <1>1, NewOrders
<1> QED BY <1>1, <1>2

\* list_for_each_entry_safe starts at the first entry, with the second saved.
LEMMA LoopBeginStep ==
    ASSUME IInv, NEW g \in Anchor, NEW h \in Anchor, NEW body \in {"look", "free", "move"},
           LoopBegin(h, body, g)
    PROVE  IInv' /\ Allowed
PROOF
<1> DEFINE s == Orders[h]
<1>1. /\ Represents(heap, Orders, {}) /\ g # h
      /\ loop' = [head |-> h, body |-> body, to |-> g, cur |-> next[h], saved |-> next[next[h]],
                  seen |-> <<>>, start |-> s, old |-> Orders[g]]
      /\ heap' = heap
  BY DEF IInv, LoopBegin, Orders
<1>2. Orders' = Orders /\ Represents(heap', Orders', {})
  BY <1>1, SameHeap
<1>3. Orders \in [Anchor -> Seq(Node)] /\ Apart(Orders) /\ Rings(heap, Orders)
  BY <1>1 DEF Represents
<1>4. /\ s \in Seq(Node) /\ Len(s) \in Nat /\ Orders[g] \in Seq(Node)
      /\ next[h] = At(s, h, 1) /\ At(s, h, 0) = h /\ At(s, h, Len(s) + 1) = h
      /\ \A i \in Int : At(s, h, i) \in Cell
  <2>1. /\ s \in Seq(Node) /\ Len(s) \in Nat
        /\ next[h] = At(s, h, 1) /\ At(s, h, 0) = h /\ At(s, h, Len(s) + 1) = h
    BY <1>1, Ends DEF next
  <2>2. \A i \in Int : At(s, h, i) \in Cell
    BY <1>3, Places
  <2>3. Orders[g] \in Seq(Node)
    BY <1>3
  <2> QED BY <2>1, <2>2, <2>3
<1>5. \A i \in 0 .. Len(s) : next[At(s, h, i)] = At(s, h, i + 1)
  BY <1>3 DEF Rings, next
<1> HIDE DEF s
<1>6. next[h] # h => 1 \in 1 .. Len(s) /\ next[next[h]] = At(s, h, 2)
  <2> SUFFICES ASSUME next[h] # h PROVE 1 \in 1 .. Len(s) /\ next[next[h]] = At(s, h, 2)
    OBVIOUS
  <2>1. 1 \in 1 .. Len(s) /\ 1 \in 0 .. Len(s) /\ 1 + 1 = 2
    BY <1>4 DEF At
  <2> QED BY <2>1, <1>4, <1>5
<1>7. next[h] \in Cell /\ next[next[h]] \in Cell
  <2>1. next[h] \in Cell
    BY <1>4
  <2>2. CASE next[h] = h
    BY <2>1, <2>2
  <2>3. CASE next[h] # h
    BY <2>3, <1>4, <1>6
  <2> QED BY <2>1, <2>2, <2>3
<1>8. Len(<<>>) = 0 /\ <<>> \in Seq(Node) /\ SubSeq(s, 0 + 1, Len(s)) = s /\ SubSeq(s, 1, 0) = <<>>
  <2>1. 0 + 1 = 1 /\ 0 < 1
    OBVIOUS
  <2>2. SubSeq(s, 1, Len(s)) = s
    BY <1>4, SubSeqFull
  <2>3. SubSeq(s, 1, 0) = <<>>
    BY <2>1, SubSeqEmpty
  <2> QED BY <2>1, <2>2, <2>3
<1>9. s # <<>> <=> 1 \in 1 .. Len(s)
  BY <1>4, EmptySeq
<1>10. Reverse(<<>>) \o Orders[g] = Orders[g]
  <2>1. Reverse(<<>>) = <<>>
    <3>1. Reverse(<<>>) \in Seq(Node) /\ Len(Reverse(<<>>)) = 0
      BY <1>8, ReverseLemma
    <3> QED BY <3>1, EmptySeq
  <2> QED BY <2>1, <1>4, ConcatEmptySeq
<1>11. LoopHolds'
  <2>1. /\ loop'.head = h /\ loop'.to = g /\ loop'.start = s /\ loop'.seen = <<>>
        /\ loop'.cur = next[h] /\ loop'.saved = next[next[h]]
    BY <1>1
  <2>2. h \in Anchor /\ g \in Anchor /\ Orders[g] \in Seq(Node)
    BY <1>4
  <2>3. loop' \in [head : Anchor, body : {"look", "free", "move"}, to : Anchor,
                   cur : Cell, saved : Cell,
                   seen : Seq(Node), start : Seq(Node), old : Seq(Node)]
    BY <1>1, <1>4, <1>7, <1>8
  <2>4. 0 <= Len(s) /\ 0 + 2 = 2
    BY <1>4
  <2> QED BY <1>1, <1>6, <1>8, <2>1, <2>3, <2>4 DEF LoopHolds
<1>12. InTurn'
  <2>1. /\ loop'.head = h /\ loop'.to = g /\ loop'.start = s /\ loop'.seen = <<>>
        /\ loop'.cur = next[h] /\ loop'.old = Orders[g]
    BY <1>1
  <2>2. OrderOf(h)' = Orders'[h] /\ OrderOf(g)' = Orders'[g]
    BY DEF Orders
  <2>3. OrderOf(h)' = s /\ OrderOf(g)' = Orders[g]
    BY <2>2, <1>2 DEF s
  <2>4. next[h] = IF s = <<>> THEN h ELSE s[1]
    BY <1>4, <1>9 DEF At
  <2>5. OrderOf(loop.head)' = s /\ OrderOf(loop.to)' = Orders[g]
    BY <2>1, <2>3
  <2> QED BY <1>8, <1>10, <2>1, <2>4, <2>5 DEF InTurn
<1> QED BY <1>2, <1>11, <1>12 DEF IInv, Allowed


\* What a running loop knows of the lists, from the invariant.
LEMMA LoopFacts ==
    ASSUME IInv, loop # NoLoop, loop.cur # loop.head
    PROVE  /\ Len(loop.seen) \in 0 .. Len(loop.start) - 1
           /\ loop.start \in Seq(Node) /\ loop.seen \in Seq(Node) /\ loop.old \in Seq(Node)
           /\ loop.head \in Anchor /\ loop.to \in Anchor /\ loop.head # loop.to
           /\ loop.body \in {"look", "free", "move"}
           /\ loop.seen = SubSeq(loop.start, 1, Len(loop.seen))
           /\ loop.cur = loop.start[Len(loop.seen) + 1] /\ loop.cur \in Node
           /\ loop.saved = At(loop.start, loop.head, Len(loop.seen) + 2) /\ loop.saved \in Cell
           /\ Orders[loop.head] = IF loop.body = "look" THEN loop.start
                                  ELSE SubSeq(loop.start, Len(loop.seen) + 1, Len(loop.start))
           /\ Orders[loop.to] = IF loop.body = "move" THEN Reverse(loop.seen) \o loop.old
                                ELSE loop.old
PROOF
<1> DEFINE s == loop.start
           k == Len(loop.seen)
           rest == SubSeq(s, k + 1, Len(s))
<1>1. /\ loop \in [head : Anchor, body : {"look", "free", "move"}, to : Anchor,
                   cur : Cell, saved : Cell,
                   seen : Seq(Node), start : Seq(Node), old : Seq(Node)]
      /\ loop.head # loop.to /\ k <= Len(s)
      /\ loop.saved = At(s, loop.head, k + 2)
  BY DEF IInv, LoopHolds
<1>2. /\ s \in Seq(Node) /\ loop.seen \in Seq(Node) /\ loop.old \in Seq(Node)
      /\ loop.head \in Anchor /\ loop.to \in Anchor /\ loop.saved \in Cell
      /\ loop.body \in {"look", "free", "move"}
      /\ k \in Nat /\ Len(s) \in Nat
  BY <1>1, LenProperties
<1>3. /\ loop.seen = SubSeq(s, 1, k)
      /\ loop.cur = IF rest = <<>> THEN loop.head ELSE rest[1]
      /\ OrderOf(loop.head) = IF loop.body = "look" THEN s ELSE rest
      /\ OrderOf(loop.to) = IF loop.body = "move" THEN Reverse(loop.seen) \o loop.old
                            ELSE loop.old
  BY DEF IInv, InTurn
<1>4. Orders[loop.head] = OrderOf(loop.head) /\ Orders[loop.to] = OrderOf(loop.to)
  BY <1>2 DEF Orders
<1>5. rest # <<>> /\ loop.cur = rest[1]
  BY <1>3
<1> HIDE DEF rest
<1>6. k \in 0 .. Len(s) /\ rest = SubSeq(s, k + 1, Len(s)) /\ s \in Seq(Node)
  BY <1>1, <1>2 DEF rest
<1> HIDE DEF s, k
<1>7. rest \in Seq(Node) /\ Len(rest) = Len(s) - k
      /\ \A i \in 1 .. Len(s) - k : rest[i] = s[i + k]
  BY ONLY <1>6, RestLemma
<1>8. Len(s) - k # 0
  BY <1>5, <1>7, EmptySeq
<1>9. k \in 0 .. Len(s) - 1 /\ 1 \in 1 .. Len(s) - k /\ 1 + k = k + 1 /\ k + 1 \in 1 .. Len(s)
  BY <1>2, <1>6, <1>8
<1>10. loop.cur = s[k + 1] /\ loop.cur \in Node
  BY <1>2, <1>5, <1>7, <1>9, ElementOfSeq
<1> QED BY <1>1, <1>2, <1>3, <1>4, <1>9, <1>10 DEF s, k, rest

\* The body of the loop changes the lists as its kind says.
LEMMA BodyStep ==
    ASSUME IInv, LoopStep
    PROVE  /\ Represents(heap', Orders', {}) /\ Allowed
           /\ Orders'[loop.head] =
                IF loop.body = "look" THEN loop.start
                ELSE SubSeq(loop.start, (Len(loop.seen) + 1) + 1, Len(loop.start))
           /\ Orders'[loop.to] =
                IF loop.body = "move" THEN Reverse(Append(loop.seen, loop.cur)) \o loop.old
                ELSE loop.old
PROOF
<1> DEFINE h == loop.head
           g == loop.to
           x == loop.cur
           s == loop.start
           k == Len(loop.seen)
           l2 == [Orders EXCEPT ![h] = RemoveAt(@, 1)]
<1>0. loop # NoLoop /\ x # h /\ heap' = Body(heap, x) /\ IInv
  BY DEF LoopStep
<1>1. /\ k \in 0 .. Len(s) - 1 /\ s \in Seq(Node) /\ loop.seen \in Seq(Node)
      /\ loop.old \in Seq(Node) /\ h \in Anchor /\ g \in Anchor /\ h # g
      /\ loop.body \in {"look", "free", "move"} /\ x = s[k + 1] /\ x \in Node
      /\ Orders[h] = IF loop.body = "look" THEN s ELSE SubSeq(s, k + 1, Len(s))
      /\ Orders[g] = IF loop.body = "move" THEN Reverse(loop.seen) \o loop.old ELSE loop.old
  BY <1>0, LoopFacts
<1>2. Represents(heap, Orders, {}) /\ Orders \in [Anchor -> Seq(Node)]
  BY DEF IInv, Represents
<1> HIDE DEF h, g, x, s, k
<1>3. CASE loop.body = "look"
  <2>1. heap' = heap
    BY <1>0, <1>3 DEF Body
  <2>2. Orders' = Orders /\ Represents(heap', Orders', {})
    BY <1>2, <2>1, SameHeap
  <2> QED BY <1>1, <1>3, <2>2 DEF Allowed, h, g, s
<1>4. ASSUME loop.body # "look"
      PROVE  /\ 1 \in 1 .. Len(Orders[h]) /\ Orders[h][1] = x /\ 1 \in DOMAIN Orders[h]
             /\ RemoveAt(Orders[h], 1) = SubSeq(s, (k + 1) + 1, Len(s))
  <2> DEFINE r == SubSeq(s, k + 1, Len(s))
  <2>1. Orders[h] = r
    BY <1>1, <1>4
  <2>2. Len(s) \in Nat /\ k \in 0 .. Len(s)
    BY <1>1, LenProperties
  <2>3. r \in Seq(Node) /\ Len(r) = Len(s) - k /\ \A i \in 1 .. Len(s) - k : r[i] = s[i + k]
    BY <1>1, <2>2, RestLemma
  <2>4. RemoveAt(r, 1) = SubSeq(s, (k + 1) + 1, Len(s))
    BY <1>1, OneFurther
  <2> HIDE DEF r
  <2>5. 1 \in 1 .. Len(r) /\ 1 \in 1 .. Len(s) - k /\ 1 + k = k + 1
    BY <1>1, <2>2, <2>3
  <2>6. r[1] = x
    BY <1>1, <2>3, <2>5
  <2>7. DOMAIN r = 1 .. Len(r)
    BY <2>3, LenProperties
  <2> QED BY <2>1, <2>4, <2>5, <2>6, <2>7
<1>5. L!Without(h, 1) = l2
  BY DEF L!Without, L!RemoveAt, RemoveAt
<1>6. l2[h] = RemoveAt(Orders[h], 1) /\ l2[g] = Orders[g]
  BY <1>1, <1>2
<1>7. CASE loop.body = "free"
  <2>1. heap' = Del(heap, x)
    BY <1>0, <1>7 DEF Body
  <2>2. Represents(heap', l2, {})
    BY <1>1, <1>2, <1>4, <1>7, <2>1, DelLemma
  <2> HIDE DEF l2
  <2>3. Orders' = l2
    BY <2>2, NewOrders
  <2>4. L!TakeOut(h, 1)
    BY <1>5, <2>3 DEF L!TakeOut
  <2>5. Allowed
    BY <1>1, <1>4, <1>7, <2>4 DEF Allowed, L!Next
  <2> QED BY <1>1, <1>4, <1>6, <1>7, <2>2, <2>3, <2>5 DEF h, g, s, k
<1>8. CASE loop.body = "move"
  <2>1. heap' = AddFirst(Del(heap, x), x, g)
    BY <1>0, <1>8 DEF Body, g
  <2>2. Represents(heap', [l2 EXCEPT ![g] = <<x>> \o @], {})
    BY <1>1, <1>2, <1>4, <1>8, <2>1, MoveLemma
  <2>3. l2 \in [Anchor -> Seq(Node)]
    BY <1>1, <1>2, <1>4, <1>8, DelLemma DEF Represents
  <2> HIDE DEF l2
  <2>4. Orders' = [l2 EXCEPT ![g] = <<x>> \o @]
    BY <2>2, NewOrders
  <2>5. L!MoveFirst(h, 1, g)
    BY <1>4, <1>5, <1>8, <2>4 DEF L!MoveFirst
  <2>6. Allowed
    BY <1>1, <1>4, <1>8, <2>5 DEF Allowed, L!Next
  <2>7. Orders'[h] = RemoveAt(Orders[h], 1) /\ Orders'[g] = <<x>> \o Orders[g]
    BY <1>1, <1>6, <2>3, <2>4
  <2>8. <<x>> \o (Reverse(loop.seen) \o loop.old) = Reverse(Append(loop.seen, x)) \o loop.old
    <3> DEFINE r == Reverse(loop.seen)
    <3>1. Reverse(Append(loop.seen, x)) = <<x>> \o r
      BY <1>1, ReverseAppend
    <3> DEFINE y == <<x>>
               o == loop.old
    <3>2. r \in Seq(Node) /\ y \in Seq(Node) /\ o \in Seq(Node)
      BY <1>1, ReverseLemma
    <3> HIDE DEF r, y, o
    <3>3. (y \o r) \o o = y \o (r \o o)
      BY ONLY <3>2, ConcatAssociative
    <3> QED BY <3>1, <3>3 DEF r, y, o
  <2> QED BY <1>1, <1>4, <1>8, <2>2, <2>4, <2>6, <2>7, <2>8 DEF h, g, s, k, x
<1> QED BY <1>1, <1>3, <1>7, <1>8

\* A turn of list_for_each_entry_safe: the saved entry is still the next one,
\* and the entry behind it can be saved in its place.
LEMMA LoopStepStep ==
    ASSUME IInv, LoopStep
    PROVE  IInv' /\ Allowed
PROOF
<1> DEFINE h == loop.head
           g == loop.to
           x == loop.cur
           w == loop.saved
           s == loop.start
           k == Len(loop.seen)
           r == SubSeq(s, (k + 1) + 1, Len(s))
           q == Orders'[h]
<1>0. /\ loop # NoLoop /\ x # h
      /\ loop' = [loop EXCEPT !.seen = Append(@, x), !.cur = w, !.saved = heap'.next[w]]
  BY DEF LoopStep
<1>1. /\ k \in 0 .. Len(s) - 1 /\ s \in Seq(Node) /\ loop.seen \in Seq(Node)
      /\ loop.old \in Seq(Node) /\ h \in Anchor /\ g \in Anchor /\ h # g
      /\ loop.body \in {"look", "free", "move"} /\ x = s[k + 1] /\ x \in Node
      /\ loop.seen = SubSeq(s, 1, k) /\ w = At(s, h, k + 2) /\ w \in Cell
  BY <1>0, LoopFacts
<1>2. /\ Represents(heap', Orders', {}) /\ Allowed
      /\ Orders'[h] = IF loop.body = "look" THEN s ELSE r
      /\ Orders'[g] = IF loop.body = "move" THEN Reverse(Append(loop.seen, x)) \o loop.old
                      ELSE loop.old
  BY BodyStep
<1>3. loop \in [head : Anchor, body : {"look", "free", "move"}, to : Anchor,
                cur : Cell, saved : Cell,
                seen : Seq(Node), start : Seq(Node), old : Seq(Node)]
  BY <1>0 DEF IInv, LoopHolds
<1>4. /\ loop'.head = h /\ loop'.to = g /\ loop'.start = s /\ loop'.body = loop.body
      /\ loop'.seen = Append(loop.seen, x) /\ loop'.old = loop.old
      /\ loop'.cur = w /\ loop'.saved = heap'.next[w]
  BY <1>0, <1>3
<1>5. Len(s) \in Nat /\ k \in Nat /\ k + 1 \in 0 .. Len(s) /\ (k + 1) + 1 = k + 2
  BY <1>1, LenProperties
<1>6. /\ r \in Seq(Node) /\ Len(r) = Len(s) - (k + 1)
      /\ \A i \in 1 .. Len(s) - (k + 1) : r[i] = s[i + (k + 1)]
  <2>1. s \in Seq(Node) /\ k + 1 \in 0 .. Len(s) /\ r = SubSeq(s, (k + 1) + 1, Len(s))
    BY <1>1, <1>5
  <2> HIDE DEF r, s, k
  <2> QED BY ONLY <2>1, RestLemma
<1>7. Append(loop.seen, x) = SubSeq(s, 1, k + 1)
  BY <1>1, OneFurther
<1>8. Append(loop.seen, x) \in Seq(Node) /\ Len(Append(loop.seen, x)) = k + 1
  BY <1>1, AppendProperties
<1>9. /\ q \in Seq(Node) /\ Len(q) \in Nat /\ heap'.next[h] = At(q, h, 1)
      /\ \A i \in Int : At(q, h, i) \in Cell /\ At(s, h, i) \in Cell
      /\ \A i \in 0 .. Len(q) : heap'.next[At(q, h, i)] = At(q, h, i + 1)
  <2>1. Orders' \in [Anchor -> Seq(Node)] /\ Apart(Orders') /\ Rings(heap', Orders')
    BY <1>2 DEF Represents
  <2>2. /\ q \in Seq(Node) /\ Len(q) \in Nat /\ heap'.next[h] = At(q, h, 1)
        /\ \A i \in Int : At(q, h, i) \in Cell
    <3> DEFINE l == Orders'
               m == heap'
    <3>1. h \in Anchor /\ Represents(m, l, {}) /\ l \in [Anchor -> Seq(Node)] /\ Apart(l)
      BY <1>1, <1>2, <2>1
    <3> HIDE DEF h, l, m
    <3>2. l[h] \in Seq(Node) /\ Len(l[h]) \in Nat /\ m.next[h] = At(l[h], h, 1)
      BY <3>1, Ends
    <3>3. \A i \in Int : At(l[h], h, i) \in Cell
      BY <3>1, Places
    <3> QED BY <3>2, <3>3 DEF l, m
  <2>3. \A i \in Int : At(s, h, i) \in Cell
    BY <1>1, ElementOfSeq DEF At, Cell
  <2>4. \A i \in 0 .. Len(q) : heap'.next[At(q, h, i)] = At(q, h, i + 1)
    BY <1>1, <2>1 DEF Rings
  <2> QED BY <2>2, <2>3, <2>4
<1>10. q = IF loop.body = "look" THEN s ELSE r
  BY <1>2
<1> HIDE DEF h, g, x, w, s, k, r, q
<1>11. w # h => k + 2 \in 1 .. Len(s) /\ w = s[k + 2] /\ 1 \in 1 .. Len(s) - (k + 1)
  BY <1>1, <1>5 DEF At
<1>12. w # h => heap'.next[w] = At(s, h, k + 3)
  <2> SUFFICES ASSUME w # h PROVE heap'.next[w] = At(s, h, k + 3)
    OBVIOUS
  <2>1. k + 2 \in 1 .. Len(s) /\ k + 2 \in 0 .. Len(s) /\ (k + 2) + 1 = k + 3 /\ k \in Nat
    BY <1>1, <1>5, <1>11
  <2>2. CASE loop.body = "look"
    <3>1. q = s
      BY <1>10, <2>2
    <3> QED BY <1>1, <1>9, <2>1, <3>1
  <2>3. CASE loop.body # "look"
    <3>1. q = r
      BY <1>10, <2>3
    <3>2. 1 \in 0 .. Len(r) /\ 1 \in 1 .. Len(r) /\ 1 + 1 = 2 /\ 1 + (k + 1) = k + 2
      BY <1>5, <1>6, <1>11, <2>1
    <3>3. At(r, h, 1) = w
      BY <1>6, <1>11, <3>2 DEF At
    <3>4. heap'.next[w] = At(r, h, 2)
      BY <1>9, <3>1, <3>2, <3>3
    <3>5. (2 \in 1 .. Len(r) <=> k + 3 \in 1 .. Len(s)) /\ 2 + (k + 1) = k + 3
      BY <1>5, <1>6, <2>1
    <3>6. 2 \in 1 .. Len(r) => r[2] = s[k + 3]
      BY <1>6, <3>5
    <3> QED BY <3>4, <3>5, <3>6 DEF At
  <2> QED BY <2>2, <2>3
<1>13. heap'.next[w] \in Cell
  <2>1. CASE w = h
    BY <1>9, <2>1
  <2>2. CASE w # h
    <3>1. k + 3 \in Int
      BY <1>5
    <3> QED BY <1>9, <1>12, <2>2, <3>1
  <2> QED BY <2>1, <2>2
<1>14. LoopHolds'
  <2>1. loop' \in [head : Anchor, body : {"look", "free", "move"}, to : Anchor,
                   cur : Cell, saved : Cell,
                   seen : Seq(Node), start : Seq(Node), old : Seq(Node)]
    BY <1>0, <1>1, <1>3, <1>8, <1>13
  <2>2. k + 1 <= Len(s) /\ (k + 1) + 2 = k + 3
    BY <1>5
  <2> QED BY <1>1, <1>4, <1>8, <1>12, <2>1, <2>2 DEF LoopHolds
<1>15. InTurn'
  <2>1. /\ OrderOf(loop.head)' = Orders'[loop'.head]
        /\ OrderOf(loop.to)' = Orders'[loop'.to]
    BY <1>1, <1>4 DEF Orders
  <2>2. OrderOf(loop.head)' = q /\ OrderOf(loop.to)' = Orders'[g]
    BY <1>4, <2>1 DEF q
  <2>3. w = IF r = <<>> THEN h ELSE r[1]
    <3>1. CASE w # h
      <4>1. Len(r) # 0 /\ 1 + (k + 1) = k + 2
        BY <1>5, <1>6, <1>11, <3>1
      <4>2. r[1] = s[k + 2]
        BY <1>6, <1>11, <3>1, <4>1
      <4>3. r # <<>>
        BY <1>6, <4>1, EmptySeq
      <4> QED BY <1>11, <3>1, <4>2, <4>3
    <3>2. CASE w = h
      <4>1. k + 2 \notin 1 .. Len(s)
        <5> SUFFICES ASSUME k + 2 \in 1 .. Len(s) PROVE FALSE
          OBVIOUS
        <5>1. h \in Node
          BY <1>1, <3>2, ElementOfSeq DEF At
        <5> QED BY <1>1, <5>1, EmListAssumption
      <4>2. Len(r) = 0
        BY <1>1, <1>5, <1>6, <4>1
      <4>3. r = <<>>
        BY <1>6, <4>2, EmptySeq
      <4> QED BY <3>2, <4>3
    <3> QED BY <3>1, <3>2
  <2>4. r = SubSeq(s, (k + 1) + 1, Len(s))
    BY DEF r
  <2> QED BY <1>2, <1>4, <1>7, <1>8, <1>10, <2>2, <2>3, <2>4 DEF InTurn, h, g, x, s, k, r
<1> QED BY <1>2, <1>14, <1>15 DEF IInv

-----------------------------------------------------------------------------
(* The specification.                                                       *)

\* At the start no head has an entry behind it.
LEMMA InitStep ==
    ASSUME Init
    PROVE  IInv /\ L!Init
PROOF
<1> DEFINE l == [h \in Anchor |-> <<>>]
<1>1. /\ heap = [next |-> [c \in Cell |-> c], prev |-> [c \in Cell |-> c]]
      /\ loop = NoLoop
  BY DEF Init
<1>2. /\ \A h \in Anchor : l[h] = <<>>
      /\ l \in [Anchor -> Seq(Node)]
  OBVIOUS
<1>3. Len(<<>>) = 0
  OBVIOUS
<1> HIDE DEF l
<1>4. \A h \in Anchor : Len(l[h]) = 0 /\ 1 .. Len(l[h]) = {} /\ 0 .. Len(l[h]) = {0}
  BY <1>2, <1>3
<1>5. Apart(l)
  BY <1>4 DEF Apart
<1>6. Rings(heap, l)
  <2>1. \A h \in Anchor : At(l[h], h, 0) = h /\ At(l[h], h, 0 + 1) = h
    BY <1>4 DEF At
  <2>2. \A h \in Anchor : heap.next[h] = h /\ heap.prev[h] = h
    BY <1>1 DEF Cell
  <2> QED BY <1>4, <2>1, <2>2 DEF Rings
<1>7. \A x \in Node : Settled(heap, x)
  BY <1>1 DEF Settled, Cell
<1>8. Represents(heap, l, {})
  BY <1>1, <1>2, <1>5, <1>6, <1>7 DEF Represents
<1>9. Orders = l
  <2>1. \A h \in Anchor : OrderOf(h) = l[h]
    BY <1>8, OrderIs DEF OrderOf
  <2> QED BY <1>2, <2>1 DEF Orders
<1>10. InTurn /\ LoopHolds
  BY <1>1 DEF InTurn, LoopHolds
<1> QED BY <1>8, <1>9, <1>10 DEF IInv, L!Init, l

\* A step of the specification, or none.
LEMMA NextStep ==
    ASSUME IInv, [Next]_vars
    PROVE  IInv' /\ Allowed
PROOF
<1>1. CASE Operation
  BY <1>1, OperationStep
<1>2. CASE LoopStep
  BY <1>2, LoopStepStep
<1>3. ASSUME NEW g \in Anchor, NEW h \in Anchor, NEW body \in {"look", "free", "move"},
             LoopBegin(h, body, g)
      PROVE  IInv' /\ Allowed
  BY <1>3, LoopBeginStep
<1>4. CASE LoopEnd
  <2>1. Orders' = Orders /\ Represents(heap', Orders', {}) /\ loop' = NoLoop
    BY <1>4, SameHeap DEF LoopEnd, IInv
  <2> QED BY <2>1 DEF IInv, InTurn, LoopHolds, Allowed
<1>5. CASE UNCHANGED vars
  <2>1. heap' = heap /\ loop' = loop
    BY <1>5 DEF vars
  <2>2. Orders' = Orders /\ Represents(heap', Orders', {})
    BY <2>1, SameHeap DEF IInv
  <2>3. InTurn' /\ LoopHolds'
    BY <2>1 DEF IInv, InTurn, LoopHolds, OrderOf
  <2> QED BY <2>2, <2>3 DEF IInv, Allowed
<1> QED BY <1>1, <1>2, <1>3, <1>4, <1>5 DEF Next

\* The pointers always make up the lists, and a running loop is always where
\* it should be in the list it started with.
THEOREM EmListInvariant == Spec => []IInv
PROOF
<1>1. Init => IInv
  BY InitStep
<1>2. IInv /\ [Next]_vars => IInv'
  BY NextStep
<1> QED BY <1>1, <1>2, PTL DEF Spec

\* Every pointer is to a cell or poisoned, and a loop holds no poisoned pointer:
\* list_for_each_entry_safe never goes on from an entry that list_del took off.
THEOREM EmListTypeOK == Spec => []TypeOK
PROOF
<1>1. IInv => TypeOK
  BY DEF IInv, Represents, LoopHolds, TypeOK
<1> QED BY <1>1, EmListInvariant, PTL

\* The two pointers of a cell that is linked are each other's inverse, as every
\* one of __list_add, __list_del, __list_splice and __list_cut_position assumes.
THEOREM EmListDoublyLinked == Spec => []DoublyLinked
PROOF
<1>1. ASSUME Represents(heap, Orders, {}), NEW c \in Cell
      PROVE  IF c \in Node /\ next[c] = Poison
             THEN prev[c] = Poison
             ELSE /\ next[c] \in Cell /\ prev[c] \in Cell
                  /\ prev[next[c]] = c /\ next[prev[c]] = c
  <2>1. Orders \in [Anchor -> Seq(Node)] /\ Apart(Orders) /\ Rings(heap, Orders)
    BY <1>1 DEF Represents
  <2>2. ASSUME NEW h \in Anchor, NEW k \in 0 .. Len(Orders[h]), c = At(Orders[h], h, k),
               NEW j \in 1 .. Len(Orders[h]) + 1, c = At(Orders[h], h, j)
        PROVE  /\ next[c] \in Cell /\ prev[c] \in Cell
               /\ prev[next[c]] = c /\ next[prev[c]] = c
    <3> DEFINE s == Orders[h]
    <3>1. /\ \A i \in 0 .. Len(s) : /\ next[At(s, h, i)] = At(s, h, i + 1)
                                    /\ prev[At(s, h, i + 1)] = At(s, h, i)
          /\ Len(s) \in Nat /\ \A i \in Int : At(s, h, i) \in Cell
      BY <2>1, Places DEF Rings, next, prev
    <3> HIDE DEF s
    <3>2. k \in 0 .. Len(s) /\ j \in 1 .. Len(s) + 1 /\ c = At(s, h, k) /\ c = At(s, h, j)
      BY <2>2 DEF s
    <3>3. j - 1 \in 0 .. Len(s) /\ (j - 1) + 1 = j /\ k + 1 \in Int /\ j - 1 \in Int
      BY <3>1, <3>2
    <3>4. next[c] = At(s, h, k + 1) /\ prev[At(s, h, k + 1)] = c
      BY <3>1, <3>2
    <3>5. prev[c] = At(s, h, j - 1) /\ next[At(s, h, j - 1)] = c
      BY <3>1, <3>2, <3>3
    <3> QED BY <3>1, <3>3, <3>4, <3>5
  <2>3. CASE c \in Anchor
    <3>1. Len(Orders[c]) \in Nat /\ At(Orders[c], c, 0) = c
          /\ At(Orders[c], c, Len(Orders[c]) + 1) = c
      BY <1>1, <2>3, Ends
    <3>2. 0 \in 0 .. Len(Orders[c]) /\ Len(Orders[c]) + 1 \in 1 .. Len(Orders[c]) + 1
      BY <3>1
    <3>3. c \notin Node
      BY <2>3, EmListAssumption
    <3> QED BY <2>2, <2>3, <3>1, <3>2, <3>3
  <2>4. CASE c \in Node /\ next[c] \in {c, Poison}
    <3>1. Off(Orders, c)
      BY <1>1, <2>4, Standing DEF next
    <3>2. next[c] = prev[c]
      BY <1>1, <2>4, <3>1 DEF Represents, Settled, next, prev
    <3> QED BY <2>4, <3>2
  <2>5. CASE c \in Node /\ next[c] \notin {c, Poison}
    <3>1. PICK h \in Anchor : \E k \in 1 .. Len(Orders[h]) : Orders[h][k] = c
      BY <1>1, <2>5, Standing DEF next
    <3>2. PICK k \in 1 .. Len(Orders[h]) : Orders[h][k] = c
      BY <3>1
    <3>3. Len(Orders[h]) \in Nat /\ c = At(Orders[h], h, k)
      BY <2>1, <3>2, Places
    <3>4. k \in 0 .. Len(Orders[h]) /\ k \in 1 .. Len(Orders[h]) + 1
      BY <3>3
    <3> QED BY <2>2, <2>5, <3>3, <3>4
  <2> QED BY <2>3, <2>4, <2>5 DEF Cell
<1>2. IInv => DoublyLinked
  BY <1>1 DEF IInv, DoublyLinked
<1> QED BY <1>2, EmListInvariant, PTL

\* list_for_each_entry_safe meets the entries the list had when it began, each
\* once and in order, whatever of its bodies frees them or moves them, and the
\* entries moved end up reversed at the head of the other list.
THEOREM EmListInTurn == Spec => []InTurn
PROOF
<1>1. IInv => InTurn
  BY DEF IInv
<1> QED BY <1>1, EmListInvariant, PTL

\* Behind the heads the pointers are sequences of entries, and each operation of
\* emlist.h, and each turn of a loop, does to them what Lists says or nothing.
THEOREM EmListImplementsLists == Spec => ListsSpec
PROOF
<1>1. Init => L!Init
  BY InitStep
<1>2. IInv /\ [Next]_vars => [L!Next]_Orders
  BY NextStep DEF Allowed
<1>3. Spec => L!Spec
  BY <1>1, <1>2, EmListInvariant, PTL DEF Spec, L!Spec
<1> QED BY <1>3 DEF ListsSpec
=============================================================================
