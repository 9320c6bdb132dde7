------------------------------ MODULE LegacyPages ------------------------------
(***************************************************************************)
(* What the two stand-alone pages (public/rider-app.js and                 *)
(* public/driver-app.js) have in common: the rides they name, and the      *)
(* bound on what one page has asked the operator at a time.                *)
(***************************************************************************)
EXTENDS Naturals

CONSTANTS
    Ride,     \* ids of rides
    NoRide,   \* absent value
    MaxCalls  \* bound: fetches of a page under way

ASSUME LegacyPagesAssumption == NoRide \notin Ride /\ MaxCalls \in Nat \ {0}
================================================================================
