------------------------------ MODULE Escrow ------------------------------
(***************************************************************************)
(* What a staked task or session promises a party about each stake it was  *)
(* asked for: the money it puts up comes back or is claimed, once, and is  *)
(* claimed only from a party that itself called off the task.  Nothing is  *)
(* said of handlers, records or the order in which they run.               *)
(***************************************************************************)
EXTENDS Naturals

CONSTANTS Side, Invoice, Owner

VARIABLES
    fund,    \* "none", "open", "held", "settled" or "cancelled", per invoice
    quit     \* the sides that called off the task

Init ==
    /\ fund = [i \in Invoice |-> "none"]
    /\ quit = {}

Becomes(i, from, to) ==
    /\ fund[i] \in from
    /\ fund' = [fund EXCEPT ![i] = to]
    /\ UNCHANGED quit

Offer(i)  == Becomes(i, {"none"}, "open")
Record(i) == Becomes(i, {"none"}, "held")   \* a rail that only keeps a record
Fund(i)   == Becomes(i, {"open"}, "held")
Return(i) == Becomes(i, {"open", "held"}, "cancelled")
Claim(i)  == Owner[i] \in quit /\ Becomes(i, {"held"}, "settled")

Quit(s) == quit' = quit \cup {s} /\ UNCHANGED fund

Next ==
    \/ \E i \in Invoice : Offer(i) \/ Record(i) \/ Fund(i) \/ Return(i) \/ Claim(i)
    \/ \E s \in Side : Quit(s)

Spec == Init /\ [][Next]_<<fund, quit>>
=============================================================================
