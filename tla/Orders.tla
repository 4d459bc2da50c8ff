------------------------------- MODULE Orders -------------------------------
(***************************************************************************)
(* What an agent promises to the controller that asks it for something:    *)
(* an order stays open until it is carried out, a single one is carried    *)
(* out at most once, and carrying it out calls the callback emage.h names  *)
(* for it.  Open orders may be forgotten, with the connection or for want  *)
(* of memory; nothing is carried out that was not asked, or was forgotten. *)
(*                                                                         *)
(* Intake implements this specification (Intake!OrdersSpec).               *)
(***************************************************************************)
EXTENDS Naturals, Sequences

CONSTANTS Request,  \* what may be asked
          Wants,    \* the callback of each request, or None
          Endless,  \* the requests that are carried out again and again
          None

VARIABLES asked,  \* the requests, in the order in which they were made
          open,   \* the places in asked of those still to be carried out
          calls   \* for each the callbacks it led to, as far as Noted goes

vars == <<asked, open, calls>>

\* One more call; the third and later ones of an order are not told apart.
Noted(s, callback) == IF Len(s) < 2 THEN Append(s, callback) ELSE s

Init == asked = <<>> /\ open = {} /\ calls = <<>>

Ask(q) == /\ asked' = Append(asked, q)
          /\ open' = open \cup {Len(asked) + 1}
          /\ calls' = Append(calls, <<>>)

CarryOut(m) == /\ m \in open
               /\ Wants[asked[m]] # None
               /\ calls' = [calls EXCEPT ![m] = Noted(@, Wants[asked[m]])]
               /\ open' = IF asked[m] \in Endless THEN open ELSE open \ {m}
               /\ UNCHANGED asked

Forget == open' \subseteq open /\ UNCHANGED <<asked, calls>>

Next == \/ \E q \in Request : Ask(q)
        \/ \E m \in open : CarryOut(m)
        \/ Forget

Spec == Init /\ [][Next]_vars
=============================================================================
