------------------------------ MODULE MCDispatch ------------------------------
(***************************************************************************)
(* Instances of Dispatch for TLC.                                          *)
(***************************************************************************)
EXTENDS Dispatch, TLC

CONSTANTS d, other

MCDrivers == {d, other}
MCApps    == {d}

At(claims, distance) == [claims |-> claims, distance |-> distance]

MCProfiles ==
    { d :> At({"woman", "access", "licence"}, 0) @@ other :> At({"woman", "licence"}, 1),
      d :> At({"woman", "licence"}, 1) @@ other :> At({"class", "licence"}, 0),
      d :> At({"class", "licence"}, 0) @@ other :> At({"licence"}, 0),
      d :> At({"woman"}, 0) @@ other :> At({"class", "woman", "licence"}, 0) }

Immediate(needs, preferred) ==
    [needs |-> needs, preferred |-> preferred, scheduled |-> FALSE]

MCAsks ==
    { Immediate({}, {}), Immediate({"woman", "access"}, {}), Immediate({}, {d}),
      Immediate({"class"}, {other}),
      [needs |-> {"woman"}, preferred |-> {}, scheduled |-> TRUE] }
===============================================================================
