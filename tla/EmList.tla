------------------------------- MODULE EmList -------------------------------
(***************************************************************************)
(* The circular lists of agent/emlist.h: the pointers of the heads and of  *)
(* the entries, the operations on them, and the loop                       *)
(* list_for_each_entry_safe with the bodies the agent gives it.            *)
(*                                                                         *)
(* An operation is one step: the lists of the agent are only changed under *)
(* the lock of their owner.  An entry is added only when it is on no list, *)
(* which is for the owner to see to (Sched!TaskOwnership,                  *)
(* Core!AgentOwnership).                                                   *)
(***************************************************************************)
EXTENDS Integers, Sequences, FiniteSets, SequencesExt

CONSTANTS Anchor, \* list heads
          Node,   \* the list_head members of tasks, triggers, agents
          Poison, \* LIST_POISON1 and LIST_POISON2
          NoLoop

ASSUME EmListAssumption ==
    Anchor \cap Node = {} /\ Poison \notin Anchor \cup Node /\ IsFiniteSet(Node)

Cell == Anchor \cup Node

VARIABLES heap,  \* the next and the prev pointer of each cell
          loop   \* a running list_for_each_entry_safe, or NoLoop

vars == <<heap, loop>>

\* INIT_LIST_HEAD on every head and, in task_alloc and its like, every entry.
Init == /\ heap = [next |-> [c \in Cell |-> c], prev |-> [c \in Cell |-> c]]
        /\ loop = NoLoop

next == heap.next
prev == heap.prev

Idle(x)   == next[x] \in {x, Poison}
OnList(x) == ~ Idle(x)
Empty(h)  == next[h] = h

-----------------------------------------------------------------------------
(* The pointers an operation leaves: m is a heap.                           *)

InitHead(m, c) == [next |-> [m.next EXCEPT ![c] = c], prev |-> [m.prev EXCEPT ![c] = c]]

\* Fault: the old neighbour keeps its prev.
AddBetweenForgets(m, new, p, n) ==
    [next |-> [m.next EXCEPT ![new] = n, ![p] = new],
     prev |-> [m.prev EXCEPT ![new] = p]]

\* __list_add
AddBetween(m, new, p, n) ==
    [next |-> [m.next EXCEPT ![new] = n, ![p] = new],
     prev |-> [m.prev EXCEPT ![n] = new, ![new] = p]]

\* __list_del
DelBetween(m, p, n) ==
    [next |-> [m.next EXCEPT ![p] = n], prev |-> [m.prev EXCEPT ![n] = p]]

AddFirst(m, x, h)  == AddBetween(m, x, h, m.next[h])
AddLast(m, x, h)   == AddBetween(m, x, m.prev[h], h)
DelEntry(m, x)     == DelBetween(m, m.prev[x], m.next[x])

\* Fault: the entry keeps its pointers.
DelUnpoisoned(m, x) == DelEntry(m, x)

Del(m, x) == LET d == DelEntry(m, x)
             IN  [next |-> [d.next EXCEPT ![x] = Poison], prev |-> [d.prev EXCEPT ![x] = Poison]]

Replace(m, old, new) ==
    LET n == m.next[old]
        p == [m.prev EXCEPT ![n] = new][old]
    IN  [next |-> [m.next EXCEPT ![new] = n, ![p] = new],
         prev |-> [m.prev EXCEPT ![n] = new, ![new] = p]]

\* __list_splice
Splice(m, g, p, n) ==
    LET first == m.next[g]
        last  == m.prev[g]
    IN  [next |-> [m.next EXCEPT ![p] = first, ![last] = n],
         prev |-> [m.prev EXCEPT ![first] = p, ![n] = last]]

\* __list_cut_position
CutAt(m, g, h, entry) ==
    LET rest == m.next[entry]
    IN  [next |-> [m.next EXCEPT ![g] = m.next[h], ![entry] = g, ![h] = rest],
         prev |-> [m.prev EXCEPT ![m.next[h]] = g, ![g] = entry, ![rest] = h]]

-----------------------------------------------------------------------------
(* The operations.                                                          *)

\* The lists are their owner's: none is changed while a loop runs but by it.
Becomes(m) == loop = NoLoop /\ heap' = m /\ UNCHANGED loop

ListAdd(x, h)      == Idle(x) /\ Becomes(AddFirst(heap, x, h))
ListAddTail(x, h)  == Idle(x) /\ Becomes(AddLast(heap, x, h))
ListDel(x)         == OnList(x) /\ Becomes(Del(heap, x))
ListDelInit(x)     == OnList(x) /\ Becomes(InitHead(DelEntry(heap, x), x))
ListMove(x, h)     == OnList(x) /\ Becomes(AddFirst(DelEntry(heap, x), x, h))
ListMoveTail(x, h) == OnList(x) /\ Becomes(AddLast(DelEntry(heap, x), x, h))

ListReplaceInit(x, y) == /\ OnList(x) /\ Idle(y)
                         /\ Becomes(InitHead(Replace(heap, x, y), x))

ListRotateLeft(h) == ~ Empty(h) /\ Becomes(AddLast(DelEntry(heap, next[h]), next[h], h))

ListSpliceInit(g, h) ==
    ~ Empty(g) /\ g # h /\ Becomes(InitHead(Splice(heap, g, h, next[h]), g))

ListSpliceTailInit(g, h) ==
    ~ Empty(g) /\ g # h /\ Becomes(InitHead(Splice(heap, g, prev[h], h), g))

\* The entries behind a head, in the order of list_for_each_entry, which goes
\* from the head to its next, and on while it is at an entry: cell[n] is where
\* it is after n steps.
Order(m, h) ==
    LET N == Cardinality(Node)
        cell[n \in 0 .. N] == IF n = 0 THEN h
                              ELSE IF n > 1 /\ cell[n - 1] \notin Node THEN cell[n - 1]
                              ELSE m.next[cell[n - 1]]
    IN  [i \in {n \in 1 .. N : cell[n] \in Node} |-> cell[i]]

OrderOf(h) == Order(heap, h)

\* The entry is on the list h, or h itself, which cuts nothing off.
ListCutPosition(g, h, entry) ==
    /\ g # h /\ Empty(g) /\ ~ Empty(h)
    /\ entry = h \/ entry \in ToSet(OrderOf(h))
    /\ Becomes(IF entry = h THEN InitHead(heap, g) ELSE CutAt(heap, g, h, entry))

-----------------------------------------------------------------------------
(* list_for_each_entry_safe.  Its bodies look at the entry, delete and free *)
(* it (sched.c:815, triggers.c:400), or move it to another list (sched.c:852). *)

LoopBegin(h, body, g) ==
    /\ loop = NoLoop /\ g # h
    /\ loop' = [head |-> h, body |-> body, to |-> g,
                cur |-> next[h], saved |-> next[next[h]],
                seen |-> <<>>, start |-> OrderOf(h), old |-> OrderOf(g)]
    /\ UNCHANGED heap

Body(m, x) == CASE loop.body = "look" -> m
                [] loop.body = "free" -> Del(m, x)
                [] loop.body = "move" -> AddFirst(Del(m, x), x, loop.to)

\* Fault: the next entry is read after the body (list_for_each_entry).
LoopStepUnsafe ==
    /\ loop # NoLoop /\ loop.cur # loop.head
    /\ heap' = Body(heap, loop.cur)
    /\ loop' = [loop EXCEPT !.seen = Append(@, loop.cur), !.cur = heap'.next[loop.cur]]

\* The body, then pos = n and n = the one after it.
LoopStep ==
    /\ loop # NoLoop /\ loop.cur # loop.head
    /\ heap' = Body(heap, loop.cur)
    /\ loop' = [loop EXCEPT !.seen = Append(@, loop.cur),
                            !.cur = loop.saved, !.saved = heap'.next[loop.saved]]

\* The loop has come round to the head, or its body breaks out of it.
LoopEnd == loop # NoLoop /\ loop' = NoLoop /\ UNCHANGED heap

-----------------------------------------------------------------------------
Operation ==
    \/ \E x \in Node : ListDel(x) \/ ListDelInit(x)
    \/ \E x \in Node, y \in Node : ListReplaceInit(x, y)
    \/ \E x \in Node, h \in Anchor : \/ ListAdd(x, h) \/ ListAddTail(x, h)
                                  \/ ListMove(x, h) \/ ListMoveTail(x, h)
    \/ \E h \in Anchor : ListRotateLeft(h)
    \/ \E g \in Anchor, h \in Anchor : \/ ListSpliceInit(g, h) \/ ListSpliceTailInit(g, h)
                                  \/ \E entry \in Cell : ListCutPosition(g, h, entry)

Next == \/ Operation \/ LoopStep \/ LoopEnd
        \/ \E g \in Anchor, h \in Anchor, body \in {"look", "free", "move"} : LoopBegin(h, body, g)

Spec == Init /\ [][Next]_vars

-----------------------------------------------------------------------------
(* What is checked.                                                         *)

\* Types; a running loop never holds a poisoned pointer (list_del, emlist.h:153).
TypeOK ==
    /\ heap.next \in [Cell -> Cell \cup {Poison}] /\ heap.prev \in [Cell -> Cell \cup {Poison}]
    /\ loop = NoLoop \/ (loop.cur \in Cell /\ loop.saved \in Cell)

\* The two pointers of every cell are each other's inverse, or both poisoned:
\* what list_del and list_add need to leave the neighbours linked.
DoublyLinked ==
    \A c \in Cell :
        IF c \in Node /\ next[c] = Poison
        THEN prev[c] = Poison
        ELSE next[c] \in Cell /\ prev[c] \in Cell /\ prev[next[c]] = c /\ next[prev[c]] = c

\* The pointers behind the heads make up the sequences the other modules use.
Orders == [h \in Anchor |-> OrderOf(h)]
L == INSTANCE Lists WITH lists <- Orders
ListsSpec == L!Spec

\* list_for_each_entry_safe meets every entry the list had, once and in order,
\* while its body frees the entries or moves them to the head of another list,
\* where they end up reversed (what Sched!Restore relies on).
InTurn ==
    loop # NoLoop =>
        LET k    == Len(loop.seen)
            rest == SubSeq(loop.start, k + 1, Len(loop.start))
        IN  /\ loop.seen = SubSeq(loop.start, 1, k)
            /\ loop.cur = IF rest = <<>> THEN loop.head ELSE rest[1]
            /\ OrderOf(loop.head) = IF loop.body = "look" THEN loop.start ELSE rest
            /\ OrderOf(loop.to) = IF loop.body = "move" THEN Reverse(loop.seen) \o loop.old
                                  ELSE loop.old

-----------------------------------------------------------------------------
(* Why it holds: the pointers of the heap m are those of the lists l, but   *)
(* for entries in X, which an operation has taken off but not yet settled.  *)

\* The cell at place i of the ring of h whose entries are s: the head is at 0
\* and, since the ring is closed, behind the last.
At(s, h, i) == IF i \in 1 .. Len(s) THEN s[i] ELSE h

\* No entry is at two places.
Apart(l) == \A g, h \in Anchor : \A i \in 1 .. Len(l[g]), j \in 1 .. Len(l[h]) :
                l[g][i] = l[h][j] => g = h /\ i = j

\* A cell and the one behind it point to each other.
Rings(m, l) == \A h \in Anchor : \A i \in 0 .. Len(l[h]) :
                  /\ m.next[At(l[h], h, i)] = At(l[h], h, i + 1)
                  /\ m.prev[At(l[h], h, i + 1)] = At(l[h], h, i)

Off(l, x) == \A h \in Anchor : \A i \in 1 .. Len(l[h]) : l[h][i] # x

\* An entry on no list points to itself or is poisoned.
Settled(m, x) == m.next[x] = m.prev[x] /\ m.next[x] \in {x, Poison}

Represents(m, l, X) ==
    /\ m.next \in [Cell -> Cell \cup {Poison}] /\ m.prev \in [Cell -> Cell \cup {Poison}]
    /\ l \in [Anchor -> Seq(Node)]
    /\ Apart(l) /\ Rings(m, l)
    /\ \A x \in Node : Off(l, x) => x \in X \/ Settled(m, x)
    /\ \A x \in X : Off(l, x)

\* What a running loop holds: InTurn, and the entry behind the next one.
LoopHolds ==
    loop # NoLoop =>
        /\ loop \in [head : Anchor, body : {"look", "free", "move"}, to : Anchor,
                     cur : Cell, saved : Cell,
                     seen : Seq(Node), start : Seq(Node), old : Seq(Node)]
        /\ loop.head # loop.to
        /\ Len(loop.seen) <= Len(loop.start)
        /\ loop.cur # loop.head =>
              loop.saved = At(loop.start, loop.head, Len(loop.seen) + 2)

IInv == Represents(heap, Orders, {}) /\ InTurn /\ LoopHolds
=============================================================================
