---------------------------- MODULE MCDirectAndDoor -----------------------------
(***************************************************************************)
(* Instances of DirectRide and Admission for TLC: a ride without an        *)
(* operator, and an operator's door.  The two share no state: a behaviour  *)
(* is of one or of the other, the signature gate with its limiters and the *)
(* suspensions of accounts being two parts.                                *)
(***************************************************************************)
EXTENDS MCDirectRide, Admission

CONSTANTS p1, p2, mast

MCPersons   == {p1, p2}
MCAddresses == {mast}
MCBehind    == [p \in MCPersons |-> mast]
MCBudget    == [l \in Limiters |-> 1]
MCSpan      == [l \in Limiters |-> IF l = "creation" THEN 5 ELSE 2]

VARIABLE part

MCInit == Init /\ AdmissionInit /\ part \in {"ride", "gate", "suspensions"}

MCNext ==
    \/ part = "ride"        /\ Next           /\ UNCHANGED <<admissionVars, part>>
    \/ part = "gate"        /\ AdmissionNext  /\ UNCHANGED <<vars, part>>
    \/ part = "suspensions" /\ SuspensionNext /\ UNCHANGED <<vars, part>>

MCSpec == MCInit /\ [][MCNext]_<<vars, admissionVars, part>>
===============================================================================
