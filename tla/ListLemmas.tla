------------------------------ MODULE ListLemmas ------------------------------
(***************************************************************************)
(* What the list operations of the models do to the set of the elements of *)
(* a list and to their order.  The linked lists of the code are sequences; *)
(* list_add_tail is Append, list_add is <<x>> \o s, the removal of the     *)
(* first entry is Tail, and moving a whole list entry by entry to the head *)
(* of another is Reverse(s) \o t.                                          *)
(***************************************************************************)
EXTENDS Integers, Sequences, SequencesExt, SequenceTheorems, TLAPS

\* The empty list.
LEMMA EmptyList == /\ ToSet(<<>>) = {} /\ IsInjective(<<>>)
                   /\ \A S : <<>> \in Seq(S)
PROOF BY EmptySeq DEF ToSet, IsInjective

\* The elements of a list are those of the set it is over.
LEMMA ToSetOver ==
    ASSUME NEW S, NEW s \in Seq(S)
    PROVE  /\ ToSet(s) \subseteq S
           /\ \A x : x \in ToSet(s) <=> \E i \in 1..Len(s) : s[i] = x
PROOF BY DEF ToSet

\* list_add_tail adds its element to the set and keeps the list free of
\* duplicates when the element is new.
LEMMA AppendLemma ==
    ASSUME NEW S, NEW s \in Seq(S), NEW x \in S
    PROVE  /\ Append(s, x) \in Seq(S)
           /\ ToSet(Append(s, x)) = ToSet(s) \cup {x}
           /\ IsInjective(s) /\ x \notin ToSet(s) => IsInjective(Append(s, x))
PROOF
<1> DEFINE a == Append(s, x)
<1>1. /\ a \in Seq(S) /\ Len(a) = Len(s) + 1
      /\ \A i \in 1..Len(s) : a[i] = s[i]
      /\ a[Len(s) + 1] = x
  BY AppendProperties
<1>2. DOMAIN a = 1..(Len(s) + 1) /\ DOMAIN s = 1..Len(s) /\ Len(s) \in Nat
  BY <1>1, LenProperties
<1> HIDE DEF a
<1>3. ToSet(a) = ToSet(s) \cup {x}
  BY <1>1, <1>2 DEF ToSet
<1>4. IsInjective(s) /\ x \notin ToSet(s) => IsInjective(a)
  BY <1>1, <1>2 DEF ToSet, IsInjective
<1> QED BY <1>1, <1>3, <1>4 DEF a

\* Taking the first entry off a list without duplicates leaves the others.
LEMMA TailLemma ==
    ASSUME NEW S, NEW s \in Seq(S), s # <<>>
    PROVE  /\ Head(s) \in S /\ Tail(s) \in Seq(S)
           /\ ToSet(s) = ToSet(Tail(s)) \cup {Head(s)}
           /\ IsInjective(s) => IsInjective(Tail(s)) /\ Head(s) \notin ToSet(Tail(s))
           /\ s = <<Head(s)>> \o Tail(s)
PROOF
<1> DEFINE u == Tail(s)
<1>1. /\ Head(s) \in S /\ u \in Seq(S) /\ Len(u) = Len(s) - 1
      /\ \A i \in 1..Len(u) : u[i] = s[i + 1]
  BY HeadTailProperties
<1>2. DOMAIN u = 1..Len(u) /\ DOMAIN s = 1..Len(s) /\ Len(s) \in Nat \ {0}
      /\ Len(u) \in Nat
  BY <1>1, LenProperties, EmptySeq
<1>3. Head(s) = s[1]
  BY <1>2
<1> HIDE DEF u
<1>4. \A i \in 2..Len(s) : i - 1 \in 1..Len(u) /\ u[i - 1] = s[i]
  BY <1>1, <1>2
<1>5. ToSet(s) = ToSet(u) \cup {Head(s)}
  <2>1. ToSet(s) \subseteq ToSet(u) \cup {Head(s)}
    <3> SUFFICES ASSUME NEW i \in 1..Len(s) PROVE s[i] \in ToSet(u) \cup {Head(s)}
      BY <1>2 DEF ToSet
    <3>1. CASE i = 1 BY <3>1, <1>3
    <3>2. CASE i # 1
      <4>1. i \in 2..Len(s) BY <3>2, <1>2
      <4> QED BY <4>1, <1>4, <1>2 DEF ToSet
    <3> QED BY <3>1, <3>2
  <2>2. ToSet(u) \subseteq ToSet(s)
    BY <1>1, <1>2 DEF ToSet
  <2>3. Head(s) \in ToSet(s)
    BY <1>2, <1>3 DEF ToSet
  <2> QED BY <2>1, <2>2, <2>3
<1>6. ASSUME IsInjective(s)
      PROVE  IsInjective(u) /\ Head(s) \notin ToSet(u)
  <2>1. \A i, j \in 1..Len(s) : s[i] = s[j] => i = j
    BY <1>2, <1>6 DEF IsInjective
  <2>2. \A i \in 1..Len(u) : i + 1 \in 1..Len(s) /\ i + 1 # 1
    BY <1>1, <1>2
  <2>3. IsInjective(u)
    <3> SUFFICES ASSUME NEW i \in 1..Len(u), NEW j \in 1..Len(u), u[i] = u[j] PROVE i = j
      BY <1>2 DEF IsInjective
    <3>1. i + 1 = j + 1 BY <1>1, <2>1, <2>2
    <3> QED BY <3>1, <1>2
  <2>4. ASSUME NEW i \in 1..Len(u) PROVE u[i] # Head(s)
    <3>1. 1 \in 1..Len(s) BY <1>2
    <3> QED BY <3>1, <1>1, <1>3, <2>1, <2>2
  <2> QED BY <2>3, <2>4, <1>2 DEF ToSet
<1>7. s = <<Head(s)>> \o u
  <2>1. <<Head(s)>> \in Seq(S) /\ Len(<<Head(s)>>) = 1 BY <1>1
  <2> DEFINE w == <<Head(s)>> \o u
  <2>2. /\ w \in Seq(S) /\ Len(w) = 1 + Len(u)
        /\ \A i \in 1..(1 + Len(u)) : w[i] = IF i <= 1 THEN <<Head(s)>>[i] ELSE u[i - 1]
    BY <2>1, <1>1, ConcatProperties
  <2> HIDE DEF w
  <2>3. \A i \in 1..Len(s) : s[i] = w[i]
    BY <2>2, <1>1, <1>2, <1>3, <1>4
  <2> QED BY <2>2, <2>3, <1>1, <1>2, SeqEqual DEF w
<1> QED BY <1>1, <1>5, <1>6, <1>7 DEF u

\* The concatenation of two lists with nothing in common.
LEMMA ConcatLemma ==
    ASSUME NEW S, NEW s \in Seq(S), NEW t \in Seq(S)
    PROVE  /\ s \o t \in Seq(S)
           /\ ToSet(s \o t) = ToSet(s) \cup ToSet(t)
           /\ IsInjective(s) /\ IsInjective(t) /\ ToSet(s) \cap ToSet(t) = {}
              => IsInjective(s \o t)
PROOF
<1> DEFINE c == s \o t
<1>1. /\ c \in Seq(S) /\ Len(c) = Len(s) + Len(t)
      /\ \A i \in 1..(Len(s) + Len(t)) : c[i] = IF i <= Len(s) THEN s[i] ELSE t[i - Len(s)]
  BY ConcatProperties
<1>2. /\ DOMAIN c = 1..(Len(s) + Len(t)) /\ DOMAIN s = 1..Len(s) /\ DOMAIN t = 1..Len(t)
      /\ Len(s) \in Nat /\ Len(t) \in Nat
  BY <1>1, LenProperties
<1> HIDE DEF c
<1>3. ToSet(c) = ToSet(s) \cup ToSet(t)
  <2>1. ToSet(c) \subseteq ToSet(s) \cup ToSet(t)
    <3> SUFFICES ASSUME NEW i \in 1..(Len(s) + Len(t)) PROVE c[i] \in ToSet(s) \cup ToSet(t)
      BY <1>2 DEF ToSet
    <3>1. CASE i <= Len(s)
      <4>1. c[i] = s[i] /\ i \in 1..Len(s) BY <3>1, <1>1, <1>2
      <4> QED BY <4>1, <1>2 DEF ToSet
    <3>2. CASE ~(i <= Len(s))
      <4>1. c[i] = t[i - Len(s)] /\ i - Len(s) \in 1..Len(t) BY <3>2, <1>1, <1>2
      <4> QED BY <4>1, <1>2 DEF ToSet
    <3> QED BY <3>1, <3>2
  <2>2. ToSet(s) \subseteq ToSet(c)
    BY <1>1, <1>2 DEF ToSet
  <2>3. ToSet(t) \subseteq ToSet(c)
    <3> SUFFICES ASSUME NEW i \in 1..Len(t) PROVE t[i] \in ToSet(c)
      BY <1>2 DEF ToSet
    <3>1. i + Len(s) \in 1..(Len(s) + Len(t)) /\ ~(i + Len(s) <= Len(s))
          /\ (i + Len(s)) - Len(s) = i
      BY <1>2
    <3>2. c[i + Len(s)] = t[i] BY <3>1, <1>1
    <3> QED BY <3>1, <3>2, <1>2 DEF ToSet
  <2> QED BY <2>1, <2>2, <2>3
<1>4. ASSUME IsInjective(s), IsInjective(t), ToSet(s) \cap ToSet(t) = {}
      PROVE  IsInjective(c)
  <2> SUFFICES ASSUME NEW i \in DOMAIN c, NEW j \in DOMAIN c, c[i] = c[j] PROVE i = j
    BY DEF IsInjective
  <2>1. CASE i <= Len(s) /\ j <= Len(s)
    BY <2>1, <1>1, <1>2, <1>4 DEF IsInjective
  <2>2. CASE i > Len(s) /\ j > Len(s)
    <3>1. i - Len(s) \in 1..Len(t) /\ j - Len(s) \in 1..Len(t)
      BY <2>2, <1>2
    <3>2. t[i - Len(s)] = t[j - Len(s)]
      BY <2>2, <1>1, <1>2
    <3>3. i - Len(s) = j - Len(s)
      BY <3>1, <3>2, <1>2, <1>4 DEF IsInjective
    <3> QED BY <3>3, <1>2
  <2>3. ASSUME NEW k \in DOMAIN c, NEW l \in DOMAIN c, k <= Len(s), l > Len(s)
        PROVE  c[k] # c[l]
    <3>1. c[k] \in ToSet(s) BY <2>3, <1>1, <1>2 DEF ToSet
    <3>2. l - Len(s) \in 1..Len(t) /\ c[l] = t[l - Len(s)] BY <2>3, <1>1, <1>2
    <3>3. c[l] \in ToSet(t) BY <3>2, <1>2 DEF ToSet
    <3> QED BY <3>1, <3>3, <1>4
  <2> QED BY <2>1, <2>2, <2>3, <1>2
<1> QED BY <1>1, <1>3, <1>4 DEF c

\* list_add adds its element to the set, like list_add_tail.
LEMMA PushLemma ==
    ASSUME NEW S, NEW s \in Seq(S), NEW x \in S
    PROVE  /\ <<x>> \o s \in Seq(S)
           /\ ToSet(<<x>> \o s) = ToSet(s) \cup {x}
           /\ IsInjective(s) /\ x \notin ToSet(s) => IsInjective(<<x>> \o s)
PROOF
<1>1. <<x>> \in Seq(S) /\ Len(<<x>>) = 1 /\ DOMAIN <<x>> = 1..1 /\ <<x>>[1] = x
  OBVIOUS
<1>2. ToSet(<<x>>) = {x}
  BY <1>1 DEF ToSet
<1>3. IsInjective(<<x>>)
  BY <1>1 DEF IsInjective
<1> DEFINE h == <<x>>
<1> HIDE DEF h
<1>4. h \in Seq(S) /\ ToSet(h) = {x} /\ IsInjective(h)
  BY <1>1, <1>2, <1>3 DEF h
<1>5. /\ h \o s \in Seq(S)
      /\ ToSet(h \o s) = ToSet(h) \cup ToSet(s)
      /\ IsInjective(h) /\ IsInjective(s) /\ ToSet(h) \cap ToSet(s) = {}
         => IsInjective(h \o s)
  BY <1>4, ConcatLemma
<1>6. /\ h \o s \in Seq(S)
      /\ ToSet(h \o s) = ToSet(s) \cup {x}
      /\ IsInjective(s) /\ x \notin ToSet(s) => IsInjective(h \o s)
  BY <1>4, <1>5
<1> QED BY <1>6 DEF h

\* Reversal keeps the elements.
LEMMA ReverseLemma ==
    ASSUME NEW S, NEW s \in Seq(S)
    PROVE  /\ Reverse(s) \in Seq(S) /\ Len(Reverse(s)) = Len(s)
           /\ ToSet(Reverse(s)) = ToSet(s)
           /\ IsInjective(s) => IsInjective(Reverse(s))
PROOF
<1> DEFINE n == Len(s)
           r == Reverse(s)
<1>1. n \in Nat /\ DOMAIN s = 1..n /\ \A i \in 1..n : s[i] \in S
  BY LenProperties, ElementOfSeq
<1>2. \A i \in 1..n : (n - i) + 1 \in 1..n /\ (n - ((n - i) + 1)) + 1 = i
  BY <1>1
<1>3. r = [i \in 1..n |-> s[(n - i) + 1]]
  BY DEF Reverse
<1>4. r \in Seq(S) /\ Len(r) = n
  BY <1>1, <1>2, <1>3
<1>5. DOMAIN r = 1..n /\ \A i \in 1..n : r[i] = s[(n - i) + 1]
  BY <1>3
<1> HIDE DEF n, r
<1>6. ToSet(r) = ToSet(s)
  <2>1. ToSet(r) \subseteq ToSet(s)
    BY <1>1, <1>2, <1>5 DEF ToSet
  <2>2. ToSet(s) \subseteq ToSet(r)
    <3> SUFFICES ASSUME NEW i \in 1..n PROVE s[i] \in ToSet(r)
      BY <1>1 DEF ToSet
    <3>1. (n - i) + 1 \in 1..n /\ r[(n - i) + 1] = s[i]
      BY <1>2, <1>5
    <3> QED BY <3>1, <1>5 DEF ToSet
  <2> QED BY <2>1, <2>2
<1>7. ASSUME IsInjective(s) PROVE IsInjective(r)
  <2> SUFFICES ASSUME NEW i \in 1..n, NEW j \in 1..n, r[i] = r[j] PROVE i = j
    BY <1>5 DEF IsInjective
  <2>1. (n - i) + 1 = (n - j) + 1
    BY <1>1, <1>2, <1>5, <1>7 DEF IsInjective
  <2> QED BY <2>1, <1>1
<1> QED BY <1>4, <1>6, <1>7 DEF n, r

\* The reversal of a stack onto which x is pushed ends with x.
LEMMA ReversePush ==
    ASSUME NEW S, NEW s \in Seq(S), NEW x \in S
    PROVE  Reverse(<<x>> \o s) = Reverse(s) \o <<x>>
PROOF
<1> DEFINE n == Len(s)
           p == <<x>> \o s
           l == Reverse(p)
           r == Reverse(s) \o <<x>>
<1>1. <<x>> \in Seq(S) /\ Len(<<x>>) = 1 /\ <<x>>[1] = x /\ n \in Nat
  BY LenProperties
<1>2. /\ p \in Seq(S) /\ Len(p) = 1 + n
      /\ \A i \in 1..(1 + n) : p[i] = IF i <= 1 THEN <<x>>[i] ELSE s[i - 1]
  BY <1>1, ConcatProperties
<1>3. l \in Seq(S) /\ Len(l) = 1 + n
  BY <1>2, ReverseLemma
<1>4. \A i \in 1..(1 + n) : l[i] = p[((1 + n) - i) + 1]
  BY <1>2 DEF Reverse
<1>5. Reverse(s) \in Seq(S) /\ Len(Reverse(s)) = n
      /\ \A i \in 1..n : Reverse(s)[i] = s[(n - i) + 1]
  BY ReverseLemma DEF Reverse
<1>6. /\ r \in Seq(S) /\ Len(r) = n + 1
      /\ \A i \in 1..(n + 1) : r[i] = IF i <= n THEN Reverse(s)[i] ELSE <<x>>[i - n]
  BY <1>1, <1>5, ConcatProperties
<1> HIDE DEF n, p, l, r
<1>7. ASSUME NEW i \in 1..(1 + n) PROVE l[i] = r[i]
  <2>1. CASE i = n + 1
    BY <2>1, <1>1, <1>2, <1>4, <1>6
  <2>2. CASE i # n + 1
    <3>1. i \in 1..n /\ ((1 + n) - i) + 1 \in 2..(1 + n)
          /\ (((1 + n) - i) + 1) - 1 = (n - i) + 1
      BY <2>2, <1>1
    <3>2. l[i] = s[(n - i) + 1]
      BY <3>1, <1>1, <1>2, <1>4
    <3> QED BY <3>1, <3>2, <1>1, <1>5, <1>6
  <2> QED BY <2>1, <2>2
<1>8. 1 + n = n + 1 BY <1>1
<1> QED BY <1>3, <1>6, <1>7, <1>8, SeqEqual DEF l, r, p

\* The reversal of a list to which x is appended starts with x.
LEMMA ReverseAppend ==
    ASSUME NEW S, NEW s \in Seq(S), NEW x \in S
    PROVE  Reverse(Append(s, x)) = <<x>> \o Reverse(s)
PROOF
<1> DEFINE n == Len(s)
           p == Append(s, x)
           l == Reverse(p)
           r == <<x>> \o Reverse(s)
<1>1. <<x>> \in Seq(S) /\ Len(<<x>>) = 1 /\ <<x>>[1] = x /\ n \in Nat
  BY LenProperties
<1>2. /\ p \in Seq(S) /\ Len(p) = n + 1
      /\ (\A i \in 1 .. n : p[i] = s[i]) /\ p[n + 1] = x
  BY AppendProperties
<1>3. l \in Seq(S) /\ Len(l) = n + 1
  BY <1>2, ReverseLemma
<1>4. \A i \in 1 .. n + 1 : l[i] = p[((n + 1) - i) + 1]
  BY <1>2 DEF Reverse
<1>5. Reverse(s) \in Seq(S) /\ Len(Reverse(s)) = n
      /\ \A i \in 1 .. n : Reverse(s)[i] = s[(n - i) + 1]
  BY ReverseLemma DEF Reverse
<1>6. /\ r \in Seq(S) /\ Len(r) = 1 + n
      /\ \A i \in 1 .. (1 + n) : r[i] = IF i <= 1 THEN <<x>>[i] ELSE Reverse(s)[i - 1]
  BY <1>1, <1>5, ConcatProperties
<1> HIDE DEF n, p, l, r
<1>7. ASSUME NEW i \in 1 .. n + 1 PROVE l[i] = r[i]
  <2>1. CASE i = 1
    <3>1. ((n + 1) - i) + 1 = n + 1 /\ i \in 1 .. (1 + n) /\ i <= 1
      BY <2>1, <1>1
    <3> QED BY <2>1, <3>1, <1>1, <1>2, <1>4, <1>6
  <2>2. CASE i # 1
    <3>1. /\ i \in 1 .. (1 + n) /\ ~ (i <= 1) /\ i - 1 \in 1 .. n
          /\ ((n + 1) - i) + 1 = (n - (i - 1)) + 1 /\ (n - (i - 1)) + 1 \in 1 .. n
      BY <2>2, <1>1
    <3> QED BY <3>1, <1>2, <1>4, <1>5, <1>6
  <2> QED BY <2>1, <2>2
<1>8. n + 1 = 1 + n BY <1>1
<1> QED BY <1>3, <1>6, <1>7, <1>8, SeqEqual DEF l, r, p

\* The element between two lists and its place.
LEMMA MiddlePlace ==
    ASSUME NEW S, NEW s \in Seq(S), NEW t \in Seq(S), NEW x \in S,
           NEW c, c = (s \o <<x>>) \o t,
           NEW k, k = Len(s) + 1
    PROVE  k \in DOMAIN c /\ c[k] = x
PROOF
<1>1. <<x>> \in Seq(S) /\ Len(<<x>>) = 1 /\ <<x>>[1] = x /\ Len(s) \in Nat /\ Len(t) \in Nat
  BY LenProperties
<1> DEFINE d == s \o <<x>>
           e == d \o t
<1>0. c = e
  OBVIOUS
<1>2. /\ d \in Seq(S) /\ Len(d) = k
      /\ \A i \in 1..k : d[i] = IF i <= Len(s) THEN s[i] ELSE <<x>>[i - Len(s)]
  BY <1>1, ConcatProperties
<1> HIDE DEF d
<1>3. /\ e \in Seq(S) /\ Len(e) = k + Len(t)
      /\ \A i \in 1..(k + Len(t)) : e[i] = IF i <= k THEN d[i] ELSE t[i - k]
  <2>1. /\ e \in Seq(S) /\ Len(e) = Len(d) + Len(t)
        /\ \A i \in 1..(Len(d) + Len(t)) : e[i] = IF i <= Len(d) THEN d[i] ELSE t[i - Len(d)]
    BY <1>2, ConcatProperties
  <2> HIDE DEF e
  <2> QED BY <2>1, <1>2
<1> HIDE DEF e
<1>4. k \in 1..(k + Len(t)) /\ k \in 1..k /\ ~(k <= Len(s)) /\ k - Len(s) = 1
  BY <1>1
<1>5. e[k] = x
  BY <1>1, <1>2, <1>3, <1>4
<1>6. k \in DOMAIN e
  <2>1. DOMAIN e = 1..Len(e)
    BY <1>3, LenProperties
  <2> QED BY <2>1, <1>3, <1>4
<1> QED BY <1>0, <1>5, <1>6

\* The element between two lists is removed at its place.
LEMMA RemoveMiddle ==
    ASSUME NEW S, NEW s \in Seq(S), NEW t \in Seq(S), NEW x \in S,
           NEW c, c = (s \o <<x>>) \o t,
           NEW k, k = Len(s) + 1
    PROVE  RemoveAt(c, k) = s \o t
PROOF
<1> DEFINE n == Len(s)
           m == Len(t)
           d == s \o <<x>>
           e == d \o t
<1>1. <<x>> \in Seq(S) /\ Len(<<x>>) = 1 /\ <<x>>[1] = x /\ n \in Nat /\ m \in Nat
  BY LenProperties
<1>2. /\ d \in Seq(S) /\ Len(d) = n + 1
      /\ \A i \in 1..(n + 1) : d[i] = IF i <= n THEN s[i] ELSE <<x>>[i - n]
  BY <1>1, ConcatProperties
<1>3. /\ e \in Seq(S) /\ Len(e) = (n + 1) + m
      /\ \A i \in 1..((n + 1) + m) : e[i] = IF i <= n + 1 THEN d[i] ELSE t[i - (n + 1)]
  BY <1>2, ConcatProperties
<1>4. DOMAIN e = 1..((n + 1) + m) BY <1>3, LenProperties
<1>0. c = e /\ k = n + 1
  OBVIOUS
<1> HIDE DEF n, m, d, e
<1> DEFINE a == SubSeq(e, 1, n)
           b == SubSeq(e, n + 2, Len(e))
<1>6. a = s
  <2>1. /\ a \in Seq(S) /\ Len(a) = n /\ \A i \in 1..n : a[i] = e[i]
    <3>1. \A i \in 1..n : e[i] \in S BY <1>1, <1>3, <1>4, LenProperties
    <3>2. a \in Seq(S) /\ Len(a) = (IF 1 <= n THEN n - 1 + 1 ELSE 0)
          /\ \A i \in 1..(n - 1 + 1) : a[i] = e[1 + i - 1]
      BY <3>1, <1>1, SubSeqProperties
    <3> HIDE DEF a
    <3> QED BY <3>2, <1>1
  <2> HIDE DEF a
  <2>2. \A i \in 1..n : a[i] = s[i]
    BY <2>1, <1>1, <1>2, <1>3
  <2> QED BY <2>1, <2>2, SeqEqual DEF n
<1>7. b = t
  <2>1. /\ b \in Seq(S) /\ Len(b) = m /\ \A i \in 1..m : b[i] = e[i + (n + 1)]
    <3>1. \A i \in (n + 2)..Len(e) : e[i] \in S BY <1>1, <1>3, <1>4, LenProperties
    <3>2. b \in Seq(S) /\ Len(b) = (IF n + 2 <= Len(e) THEN Len(e) - (n + 2) + 1 ELSE 0)
          /\ \A i \in 1..(Len(e) - (n + 2) + 1) : b[i] = e[(n + 2) + i - 1]
      BY <3>1, <1>1, <1>3, SubSeqProperties
    <3> HIDE DEF b
    <3>3. Len(e) - (n + 2) + 1 = m /\ (n + 2 > Len(e) => m = 0) BY <1>1, <1>3
    <3>4. \A i \in 1..m : (n + 2) + i - 1 = i + (n + 1) BY <1>1
    <3> QED BY <3>2, <3>3, <3>4, <1>1
  <2> HIDE DEF b
  <2>2. \A i \in 1..m : b[i] = t[i]
    <3> SUFFICES ASSUME NEW i \in 1..m PROVE b[i] = t[i]
      OBVIOUS
    <3>1. i + (n + 1) \in 1..((n + 1) + m) /\ ~(i + (n + 1) <= n + 1)
          /\ (i + (n + 1)) - (n + 1) = i
      BY <1>1
    <3> QED BY <3>1, <2>1, <1>3
  <2> QED BY <2>1, <2>2, SeqEqual DEF m
<1>8. RemoveAt(e, n + 1) = SubSeq(e, 1, (n + 1) - 1) \o SubSeq(e, (n + 1) + 1, Len(e))
  BY DEF RemoveAt
<1>9. (n + 1) - 1 = n /\ (n + 1) + 1 = n + 2 BY <1>1
<1> HIDE DEF a, b
<1>10. RemoveAt(e, n + 1) = s \o t
  BY <1>6, <1>7, <1>8, <1>9 DEF a, b
<1> QED BY <1>0, <1>10

\* RemoveAt takes one place out and closes the gap.
LEMMA RemoveLemma ==
    ASSUME NEW S, NEW s \in Seq(S), NEW k \in 1..Len(s),
           NEW r, r = RemoveAt(s, k)
    PROVE  /\ r \in Seq(S) /\ Len(r) = Len(s) - 1
           /\ \A i \in 1..Len(r) : r[i] = s[IF i < k THEN i ELSE i + 1]
PROOF
<1> DEFINE n == Len(s)
           a == SubSeq(s, 1, k - 1)
           b == SubSeq(s, k + 1, n)
<1>1. n \in Nat /\ DOMAIN s = 1..n /\ (\A i \in 1..n : s[i] \in S) /\ k \in 1..n
  BY LenProperties
<1>2. r = a \o b
  BY DEF RemoveAt
<1>3. a \in Seq(S) /\ Len(a) = k - 1 /\ \A i \in 1..(k - 1) : a[i] = s[i]
  <2>1. \A i \in 1..(k - 1) : s[i] \in S BY <1>1
  <2>2. a \in Seq(S) /\ Len(a) = (IF 1 <= k - 1 THEN k - 1 - 1 + 1 ELSE 0)
        /\ \A i \in 1..(k - 1 - 1 + 1) : a[i] = s[1 + i - 1]
    BY <2>1, <1>1, SubSeqProperties
  <2> HIDE DEF a, n
  <2> QED BY <2>2, <1>1
<1>4. b \in Seq(S) /\ Len(b) = n - k /\ \A i \in 1..(n - k) : b[i] = s[k + i]
  <2>1. \A i \in (k + 1)..n : s[i] \in S BY <1>1
  <2>2. b \in Seq(S) /\ Len(b) = (IF k + 1 <= n THEN n - (k + 1) + 1 ELSE 0)
        /\ \A i \in 1..(n - (k + 1) + 1) : b[i] = s[(k + 1) + i - 1]
    BY <2>1, <1>1, SubSeqProperties
  <2> HIDE DEF b, n
  <2>3. n - (k + 1) + 1 = n - k /\ (~(k + 1 <= n) => n - k = 0)
    BY <1>1
  <2>4. \A i \in 1..(n - k) : (k + 1) + i - 1 = k + i
    BY <1>1
  <2> QED BY <2>2, <2>3, <2>4
<1> HIDE DEF a, b, n
<1>5. /\ r \in Seq(S) /\ Len(r) = Len(a) + Len(b)
      /\ \A i \in 1..(Len(a) + Len(b)) : r[i] = IF i <= Len(a) THEN a[i] ELSE b[i - Len(a)]
  <2>1. a \in Seq(S) /\ b \in Seq(S)
    BY <1>3, <1>4
  <2> QED BY ONLY <2>1, <1>2, ConcatProperties
<1>6. Len(r) = n - 1
  BY <1>1, <1>3, <1>4, <1>5
<1>7. ASSUME NEW i \in 1..Len(r), i < k PROVE r[i] = s[i]
  <2>1. i <= Len(a) /\ i \in 1..(k - 1) BY <1>1, <1>3, <1>6, <1>7
  <2> QED BY <2>1, <1>1, <1>3, <1>4, <1>5, <1>6
<1>8. ASSUME NEW i \in 1..Len(r), ~(i < k) PROVE r[i] = s[i + 1]
  <2>1. ~(i <= Len(a)) /\ i - Len(a) \in 1..(n - k) /\ k + (i - Len(a)) = i + 1
    BY <1>1, <1>3, <1>6, <1>8
  <2> QED BY <2>1, <1>1, <1>3, <1>4, <1>5, <1>6
<1> QED BY <1>5, <1>6, <1>7, <1>8 DEF n

\* list_del takes its element out of the set: an element that was on the list
\* once is not on it any more, and the others stay, once each.
LEMMA DeleteLemma ==
    ASSUME NEW S, NEW s \in Seq(S), IsInjective(s), NEW k \in DOMAIN s,
           NEW r, r = RemoveAt(s, k)
    PROVE  /\ r \in Seq(S) /\ IsInjective(r)
           /\ ToSet(r) = ToSet(s) \ {s[k]}
           /\ s[k] \in ToSet(s)
PROOF
<1>1. /\ DOMAIN s = 1..Len(s) /\ Len(s) \in Nat /\ k \in 1..Len(s)
  BY LenProperties
<1>2. /\ r \in Seq(S) /\ Len(r) = Len(s) - 1
      /\ \A i \in 1..Len(r) : r[i] = s[IF i < k THEN i ELSE i + 1]
  BY <1>1, RemoveLemma
<1>3. DOMAIN r = 1..Len(r) /\ Len(r) \in Nat
  BY <1>2, LenProperties
<1> DEFINE g(i) == IF i < k THEN i ELSE i + 1
<1>4. \A i \in DOMAIN r : g(i) \in DOMAIN s \ {k} /\ r[i] = s[g(i)]
  BY <1>1, <1>2, <1>3
<1>5. \A i, j \in DOMAIN r : g(i) = g(j) => i = j
  BY <1>3
<1>6. \A j \in DOMAIN s \ {k} :
        (j \in DOMAIN r /\ j = g(j)) \/ (j - 1 \in DOMAIN r /\ j = g(j - 1))
  BY <1>1, <1>2, <1>3
<1>7. \A j \in DOMAIN s \ {k} : s[j] # s[k]
  BY DEF IsInjective
<1>8. \A x : x \in ToSet(r) <=> \E j \in DOMAIN s \ {k} : x = s[j]
  BY <1>4, <1>6 DEF ToSet
<1>9. \A i, j \in DOMAIN s : s[i] = s[j] => i = j
  BY DEF IsInjective
<1>10. IsInjective(r)
  BY <1>4, <1>5, <1>9 DEF IsInjective
<1>11. ToSet(r) = ToSet(s) \ {s[k]}
  <2>1. \A x : x \in ToSet(s) <=> \E j \in DOMAIN s : x = s[j]
    BY DEF ToSet
  <2>2. \A x : x \in ToSet(r) <=> x \in ToSet(s) /\ x # s[k]
    BY ONLY <1>7, <1>8, <2>1
  <2> QED BY ONLY <2>2
<1> QED BY <1>2, <1>10, <1>11 DEF ToSet

\* Front and Last of a list that is not empty.
LEMMA FrontLemma ==
    ASSUME NEW S, NEW s \in Seq(S), s # <<>>
    PROVE  /\ Front(s) \in Seq(S) /\ Last(s) \in S
           /\ Len(s) = 1 <=> Front(s) = <<>>
PROOF
<1> DEFINE n == Len(s)
           f == SubSeq(s, 1, n - 1)
<1>1. n \in Nat /\ n # 0 /\ \A i \in 1..n : s[i] \in S
  BY LenProperties, EmptySeq
<1>2. \A i \in 1..(n - 1) : s[i] \in S
  BY <1>1
<1>3. f \in Seq(S) /\ Len(f) = (IF 1 <= n - 1 THEN n - 1 - 1 + 1 ELSE 0)
  BY <1>1, <1>2, SubSeqProperties
<1> HIDE DEF f, n
<1>4. Len(f) = n - 1
  BY <1>1, <1>3
<1>5. f = <<>> <=> Len(f) = 0
  BY <1>3, EmptySeq
<1>6. Front(s) = f /\ Last(s) = s[n]
  BY DEF Front, Last, f, n
<1> QED BY <1>1, <1>3, <1>4, <1>5, <1>6 DEF n

\* The part of a list behind its place k.
LEMMA RestLemma ==
    ASSUME NEW S, NEW s \in Seq(S), NEW k \in 0 .. Len(s),
           NEW r, r = SubSeq(s, k + 1, Len(s))
    PROVE  /\ r \in Seq(S) /\ Len(r) = Len(s) - k
           /\ \A i \in 1 .. Len(s) - k : r[i] = s[i + k]
PROOF
<1> DEFINE n == Len(s)
<1>1. n \in Nat /\ k \in 0 .. n /\ r = SubSeq(s, k + 1, n) /\ \A i \in 1 .. n : s[i] \in S
  BY LenProperties, ElementOfSeq
<1> HIDE DEF n
<1>2. (\A i \in k + 1 .. n : s[i] \in S) /\ k + 1 \in Int /\ n \in Int
  BY <1>1
<1>3. /\ r \in Seq(S) /\ Len(r) = (IF k + 1 <= n THEN n - (k + 1) + 1 ELSE 0)
      /\ \A i \in 1 .. (n - (k + 1) + 1) : r[i] = s[(k + 1) + i - 1]
  BY ONLY <1>1, <1>2, SubSeqProperties
<1>4. (IF k + 1 <= n THEN n - (k + 1) + 1 ELSE 0) = n - k /\ n - (k + 1) + 1 = n - k
      /\ \A i \in Int : (k + 1) + i - 1 = i + k
  BY <1>1
<1>5. r \in Seq(S) /\ Len(r) = n - k /\ \A i \in 1 .. n - k : r[i] = s[i + k]
  <2>1. \A i \in 1 .. n - k : i \in Int
    OBVIOUS
  <2> QED BY ONLY <2>1, <1>3, <1>4
<1> QED BY <1>5 DEF n

\* The part of a list up to its place k.
LEMMA FirstPart ==
    ASSUME NEW S, NEW s \in Seq(S), NEW k \in 0 .. Len(s),
           NEW r, r = SubSeq(s, 1, k)
    PROVE  r \in Seq(S) /\ Len(r) = k /\ \A i \in 1 .. k : r[i] = s[i]
PROOF
<1> DEFINE n == Len(s)
<1>1. n \in Nat /\ k \in 0 .. n /\ \A i \in 1 .. n : s[i] \in S
  BY LenProperties, ElementOfSeq
<1> HIDE DEF n
<1>2. (\A i \in 1 .. k : s[i] \in S) /\ 1 \in Int /\ k \in Int
  BY <1>1
<1>3. /\ r \in Seq(S) /\ Len(r) = (IF 1 <= k THEN k - 1 + 1 ELSE 0)
      /\ \A i \in 1 .. (k - 1 + 1) : r[i] = s[1 + i - 1]
  BY ONLY <1>2, r = SubSeq(s, 1, k), SubSeqProperties
<1>4. (IF 1 <= k THEN k - 1 + 1 ELSE 0) = k /\ k - 1 + 1 = k
      /\ \A i \in Int : 1 + i - 1 = i
  BY <1>1
<1> QED BY <1>3, <1>4

\* A loop over a list moves its next entry from what is left to what is done.
LEMMA OneFurther ==
    ASSUME NEW S, NEW s \in Seq(S), NEW k \in 0 .. Len(s) - 1
    PROVE  /\ Append(SubSeq(s, 1, k), s[k + 1]) = SubSeq(s, 1, k + 1)
           /\ RemoveAt(SubSeq(s, k + 1, Len(s)), 1) = SubSeq(s, (k + 1) + 1, Len(s))
PROOF
<1> DEFINE n == Len(s)
           a == SubSeq(s, 1, k)
           b == SubSeq(s, 1, k + 1)
           c == SubSeq(s, k + 1, n)
           d == SubSeq(s, (k + 1) + 1, n)
           x == s[k + 1]
           e == Append(a, x)
           f == RemoveAt(c, 1)
<1>1. n \in Nat /\ n = Len(s) /\ k \in 0 .. n /\ k + 1 \in 0 .. n /\ k \in Int
  BY LenProperties
<1>2. x \in S
  BY <1>1, ElementOfSeq
<1> HIDE DEF n, x
<1>3. a \in Seq(S) /\ Len(a) = k /\ \A i \in 1 .. k : a[i] = s[i]
  BY <1>1, FirstPart
<1>4. b \in Seq(S) /\ Len(b) = k + 1 /\ \A i \in 1 .. k + 1 : b[i] = s[i]
  BY <1>1, FirstPart
<1>5. c \in Seq(S) /\ Len(c) = n - k /\ \A i \in 1 .. n - k : c[i] = s[i + k]
  BY <1>1, RestLemma DEF n
<1>6. d \in Seq(S) /\ Len(d) = n - (k + 1) /\ \A i \in 1 .. n - (k + 1) : d[i] = s[i + (k + 1)]
  BY <1>1, RestLemma DEF n
<1> HIDE DEF a, b, c, d
<1>7. /\ e \in Seq(S) /\ Len(e) = k + 1
      /\ (\A i \in 1 .. k : e[i] = a[i]) /\ e[k + 1] = x
  BY <1>2, <1>3, AppendProperties
<1>8. /\ f \in Seq(S) /\ Len(f) = Len(c) - 1
      /\ \A i \in 1 .. Len(f) : f[i] = c[IF i < 1 THEN i ELSE i + 1]
  <2>1. 1 \in 1 .. Len(c)
    BY <1>1, <1>5
  <2> QED BY <2>1, <1>5, RemoveLemma
<1> HIDE DEF e, f
<1>9. e = b
  <2>1. ASSUME NEW i \in 1 .. k + 1 PROVE e[i] = b[i]
    <3>1. CASE i = k + 1
      BY <3>1, <1>4, <1>7 DEF x
    <3>2. CASE i # k + 1
      <4>1. i \in 1 .. k
        BY <3>2, <1>1
      <4> QED BY <4>1, <1>3, <1>4, <1>7
    <3> QED BY <3>1, <3>2
  <2> QED BY <2>1, <1>4, <1>7, SeqEqual
<1>10. f = d
  <2>1. Len(f) = n - (k + 1)
    BY <1>1, <1>5, <1>8
  <2>2. ASSUME NEW i \in 1 .. n - (k + 1) PROVE f[i] = d[i]
    <3>1. ~ (i < 1) /\ i + 1 \in 1 .. n - k /\ (i + 1) + k = i + (k + 1)
      BY <1>1
    <3> QED BY <3>1, <2>1, <1>5, <1>6, <1>8
  <2> QED BY <2>1, <2>2, <1>6, <1>8, SeqEqual
<1> QED BY <1>9, <1>10 DEF a, b, c, d, e, f, n, x
=============================================================================
