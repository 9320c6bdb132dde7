----------------------------- MODULE MCManagedApp -----------------------------
(***************************************************************************)
(* Two rides one after the other, or one ride and a restart, with one poll *)
(* or refetch and one operation on their way; and a driver's shifts, with  *)
(* two calls on their way.  A behaviour is of the one or of the other.     *)
(***************************************************************************)
EXTENDS ManagedApp, DriverShift

CONSTANTS r1, r2, c1, c2

MCRides   == {r1, r2}
MCErrands == {c1, c2}

VARIABLE part

MCInit ==
    /\ AppInit /\ ShiftInit /\ part \in {"app", "shift"}
    /\ part = "shift" => me = "driver"
    /\ part = "app" => setting = [native |-> FALSE, direct |-> FALSE]

\* Not both: a restart leaves the second ride unasked for.  The first is used first.
AppBound == boots' > 0 \/ ride'[r1].status = "none" => ride'[r2].status = "none"

\* Nothing is promised of a shift once something crossed a change of it.
ShiftBound == crossed \subseteq {"unheard"}

MCNext ==
    \/ part = "app"   /\ AppNext   /\ AppBound   /\ UNCHANGED <<shiftVars, part>>
    \/ part = "shift" /\ ShiftNext /\ ShiftBound /\ UNCHANGED <<appVars, part>>

MCSpec == MCInit /\ [][MCNext]_<<appVars, shiftVars, part>> /\ AppFairness
===============================================================================
