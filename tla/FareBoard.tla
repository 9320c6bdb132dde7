------------------------------ MODULE FareBoard ------------------------------
(***************************************************************************)
(* What settlement may rely on of a ride's fare: once the ride is          *)
(* requested it has one, and it may change at any step.  Fares implements  *)
(* it; Settlement is built on it.                                          *)
(***************************************************************************)
EXTENDS Naturals

CONSTANT Fare  \* figures a fare may take, never 0

VARIABLES
    fare,      \* ride.fare, 0 while there is no ride
    provider   \* whether the ride has a driver

Init == fare = 0 /\ provider = FALSE

Post  == fare = 0 /\ fare' \in Fare /\ UNCHANGED provider
Move  == fare # 0 /\ fare' \in Fare \ {fare} /\ UNCHANGED provider
Match == fare # 0 /\ ~provider /\ provider' = TRUE /\ UNCHANGED fare

Next == Post \/ Move \/ Match

Spec == Init /\ [][Next]_<<fare, provider>>

=============================================================================
