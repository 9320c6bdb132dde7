------------------------------- MODULE MCRatings -------------------------------
(***************************************************************************)
(* Two rides of one rider with one driver, for TLC.                        *)
(***************************************************************************)
EXTENDS Ratings

CONSTANTS j1, j2, p1

MCJourneys  == {j1, j2}
MCPassenger == [j \in MCJourneys |-> p1]
================================================================================
