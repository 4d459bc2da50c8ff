-------------------------------- MODULE Lists --------------------------------
(***************************************************************************)
(* What the operations of agent/emlist.h promise: some lists, each a       *)
(* sequence of entries, no entry twice.  The other modules take the lists  *)
(* of the agent to be such sequences.                                      *)
(*                                                                         *)
(* EmList, which has the pointers, implements this specification           *)
(* (EmList!ListsSpec).                                                     *)
(***************************************************************************)
EXTENDS Integers, Sequences, SequencesExt

CONSTANTS Anchor, Node

VARIABLE lists  \* for each head the entries behind it, in order

Init == lists = [h \in Anchor |-> <<>>]

Held == UNION {ToSet(lists[h]) : h \in Anchor}

PutFirst(x, h) == /\ x \notin Held
                  /\ lists' = [lists EXCEPT ![h] = <<x>> \o @]

PutLast(x, h) == /\ x \notin Held
                 /\ lists' = [lists EXCEPT ![h] = Append(@, x)]

\* The entry at place k of h is taken out, or put elsewhere, or replaced.
Without(h, k) == [lists EXCEPT ![h] = RemoveAt(@, k)]

TakeOut(h, k)      == lists' = Without(h, k)
MoveFirst(h, k, g) == lists' = [Without(h, k) EXCEPT ![g] = <<lists[h][k]>> \o @]
MoveLast(h, k, g)  == lists' = [Without(h, k) EXCEPT ![g] = Append(@, lists[h][k])]

Exchange(h, k, y) == /\ y \notin Held
                     /\ lists' = [lists EXCEPT ![h] = [@ EXCEPT ![k] = y]]

\* All of g goes before, or behind, the entries of h.
JoinFirst(g, h) == lists' = [lists EXCEPT ![h] = lists[g] \o @, ![g] = <<>>]
JoinLast(g, h)  == lists' = [lists EXCEPT ![h] = @ \o lists[g], ![g] = <<>>]

\* The first n entries of h become those of g, which had none.
Cut(g, h, n) == /\ lists[g] = <<>>
                /\ lists' = [lists EXCEPT ![g] = SubSeq(lists[h], 1, n),
                                          ![h] = SubSeq(@, n + 1, Len(@))]

Next == \/ \E x \in Node, h \in Anchor : PutFirst(x, h) \/ PutLast(x, h)
        \/ \E h \in Anchor : \E k \in DOMAIN lists[h] :
              \/ TakeOut(h, k) \/ \E y \in Node : Exchange(h, k, y)
              \/ \E g \in Anchor : MoveFirst(h, k, g) \/ MoveLast(h, k, g)
        \/ \E g, h \in Anchor : /\ g # h
                                /\ \/ JoinFirst(g, h) \/ JoinLast(g, h)
                                   \/ \E n \in 0 .. Len(lists[h]) : Cut(g, h, n)

Spec == Init /\ [][Next]_lists
=============================================================================
