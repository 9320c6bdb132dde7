--------------------------- MODULE MCStakesAndPages ---------------------------
(***************************************************************************)
(* Instances for TLC of the task-flow stakes, of the stand-alone pages and *)
(* of the ratings of a driver.  They share no state: a behaviour is of one *)
(* of the four.                                                            *)
(***************************************************************************)
EXTENDS TaskStakes, LegacyRider, LegacyDriver, MCRatings

CONSTANTS r1, r2, q1, q2, i1, i2, i3

MCRides    == {r1, r2}
MCSides    == {"requester", "provider"}
MCReqs     == {q1, q2}
MCInvoices == {i1, i2, i3}

\* Two invoices for the requester, the first used first, and one for the provider.
MCOwner == [i \in Invoice |-> IF i = i2 THEN "provider" ELSE "requester"]

VARIABLE part

mcVars == <<calmVars, riderVars, driverVars, ratingVars, part>>

MCInit ==
    /\ CalmInit /\ RiderInit /\ DriverInit /\ RatingsInit
    /\ part \in {"stakes", "rider", "driver", "ratings"}
    /\ part # "ratings" => ~strict

\* One hold expires.  The requester stakes twice only on a task nobody has accepted, and
\* which ends, if it does, by being called off.
StakesBound ==
    /\ Cardinality(lapsed') <= 1
    /\ invoice'[i3] # "none" =>
         /\ invoice'[i1] # "none" /\ invoice'[i2] = "none"
         /\ status' \in {Profile.initial, Profile.cancelled}

\* Two requests in flight on the stakes of one ride.
StakesNext ==
    /\ CalmNext /\ StakesBound
    /\ UNCHANGED <<riderVars, driverVars, ratingVars, part>>

\* The rider's second ride comes without reloads, and with one fetch at a time; the
\* rides are alike, and the first is used first.
RiderBound ==
    session'[r2] # "none" =>
        session'[r1] # "none" /\ reloads' = 0 /\ Cardinality(calls') <= 1

\* The driver has two fetches under way while there is one ride on offer, or none of
\* the two has been taken up.
DriverBound ==
    /\ deal'[r1] = "waiting" => deal'[r2] = "waiting"
    /\ BagCardinality(fetches') > 1 =>
         \/ /\ r2 \notin driver'.pending /\ job'[r2] = "requested" /\ deal'[r2] = "waiting"
            /\ \A i \in DOMAIN news' : news'[i].ride = r1
         \/ \A r \in Ride : job'[r] \in {"requested", "other"}

\* The rides of a driver are alike: the first ends, and is forgotten, first.
RatingsBound ==
    /\ journey'[j2] # "live" => journey'[j1] # "live"
    /\ journey'[j2] = "gone" => journey'[j1] = "gone"

MCNext ==
    \/ part = "stakes" /\ StakesNext
    \/ /\ part = "rider" /\ RiderNext /\ RiderBound
       /\ UNCHANGED <<calmVars, driverVars, ratingVars, part>>
    \/ /\ part = "driver" /\ DriverNext /\ DriverBound
       /\ UNCHANGED <<calmVars, riderVars, ratingVars, part>>
    \/ /\ part = "ratings" /\ RatingsNext /\ RatingsBound
       /\ UNCHANGED <<calmVars, riderVars, driverVars, part>>

\* What is fair of the pages is never enabled in a behaviour of another part; a profile
\* may be asked for at once, so that its fairness is asked of its own part alone.
MCSpec ==
    /\ MCInit /\ [][MCNext]_mcVars
    /\ RiderFairness /\ DriverFairness
    /\ WF_ratingVars(RatingsRead) /\ WF_ratingVars(PanicsRead) /\ WF_ratingVars(CacheExpires)
    /\ WF_ratingVars(part = "ratings" /\ GetProfile)
===============================================================================
