-------------------------- MODULE MCSessionStakes --------------------------
(***************************************************************************)
(* Instances of SessionStakes for TLC: a rider, two drivers, one stake     *)
(* each, and every rail list an operator can run.                          *)
(***************************************************************************)
EXTENDS SessionStakes, TLC

CONSTANTS q1, q2, rider, d1, d2, i0, i1, i2

MCReqs     == {q1, q2}
MCDrivers  == {d1, d2}
MCInvoices == {i0, i1, i2}

MCOwner == [i \in Invoice |-> IF i = i0 THEN rider ELSE IF i = i1 THEN d1 ELSE d2]

\* A record-only rail, a node that other nodes fall back on, a node whose fallback
\* is of another trust model, and a rail of a third party.
MCLists == {<<"cash">>, <<"core-lightning", "lnd">>, <<"lnd", "cash">>, <<"alby">>}

MCSymmetry == Permutations(Req)
=============================================================================
