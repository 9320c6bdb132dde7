------------------------------- MODULE Ratings --------------------------------
(***************************************************************************)
(* The ratings of one driver: the riders' apps, which sign a rating and    *)
(* hand it to the relay and to the operator (api.ts), the operator, which  *)
(* checks it, publishes it again, keeps it and serves a cached profile     *)
(* (nostr/reputation.js, /rate and /reputation of server.js), and the apps *)
(* that read the relay themselves (services/reputation.ts).                *)
(*                                                                         *)
(* A rating is named by its ride and by when it was signed; no two are     *)
(* signed in one second.  Its stars are what the mean is taken of: what    *)
(* counts is which ratings are in it.  A driver rates the same way.        *)
(***************************************************************************)
EXTENDS Naturals, FiniteSets

CONSTANTS
    Journey,
    Passenger,    \* Passenger[t]: who rode
    Unread,       \* no profile
    MaxSigned,    \* bound: ratings signed
    MaxRestarts,  \* bound: restarts of the operator
    MaxPosts      \* bound: handlers of /rate that wait at once

ASSUME RatingsAssumption ==
    /\ DOMAIN Passenger = Journey /\ MaxSigned \in Nat /\ MaxRestarts \in Nat /\ MaxPosts \in Nat

VARIABLES
    strict,   \* REPUTATION_STRICT: a rating no relay took in is refused
    journey,     \* the operator's record of each ride
    signed,   \* ratings signed so far
    toRelay,  \* on their way to the relay, from an app or from the operator
    toRate,   \* on their way to /rate
    relay,    \* what the relay holds
    posts,    \* handlers of /rate that wait for the relay
    buffer,   \* localBuffers.ratings of the driver
    read,     \* a getProfile under way: what it was built from so far
    cache,    \* profileCache of the driver: the ratings it counts
    accepted, \* history: ratings /rate answered with success since the last start
    reached,  \* history: ratings the relay took in
    restarts

ratingVars == <<strict, journey, signed, toRelay, toRate, relay, posts, buffer, read, cache,
                accepted, reached, restarts>>

RatingsInit ==
    /\ strict \in BOOLEAN
    /\ journey = [t \in Journey |-> "live"]
    /\ signed = {} /\ toRelay = {} /\ toRate = {} /\ relay = {} /\ posts = {}
    /\ buffer = {} /\ read = Unread /\ cache = Unread
    /\ accepted = {} /\ reached = {} /\ restarts = 0

--------------------------------------------------------------------------------
(* The rides.                                                                  *)

Ends(t) ==
    /\ journey[t] = "live"
    /\ journey' \in {[journey EXCEPT ![t] = end] : end \in {"completed", "cancelled"}}
    /\ UNCHANGED <<strict, signed, toRelay, toRate, relay, posts, buffer, read, cache,
                   accepted, reached, restarts>>

\* The record of an ended ride is dropped in time, and no restart brings it back.
Forget(t) ==
    /\ journey[t] \in {"completed", "cancelled"}
    /\ journey' = [journey EXCEPT ![t] = "gone"]
    /\ UNCHANGED <<strict, signed, toRelay, toRate, relay, posts, buffer, read, cache,
                   accepted, reached, restarts>>

OperatorRestarts ==
    /\ restarts < MaxRestarts
    /\ restarts' = restarts + 1
    /\ journey' = [t \in Journey |-> IF journey[t] = "live" THEN "live" ELSE "gone"]
    /\ posts' = {} /\ buffer' = {} /\ read' = Unread /\ cache' = Unread /\ accepted' = {}
    /\ UNCHANGED <<strict, signed, toRelay, toRate, relay, reached>>

--------------------------------------------------------------------------------
(* The apps.                                                                   *)

Signs(t, flagged) ==
    LET e == [journey |-> t, at |-> Cardinality(signed) + 1, flagged |-> flagged] IN
    /\ Cardinality(signed) < MaxSigned
    /\ signed' = signed \cup {e}
    /\ toRelay' = toRelay \cup {e} /\ toRate' = toRate \cup {e}
    /\ UNCHANGED <<strict, journey, relay, posts, buffer, read, cache, accepted, reached, restarts>>

\* The page of an ended ride outlives the operator's record, and forgets on a reload
\* that it was rated.
SubmitRating(t) == journey[t] \in {"completed", "gone"} /\ Signs(t, FALSE)

\* "They never turned up", or "they dropped it after the grace window".
ReportNonEvent(t) == journey[t] \in {"cancelled", "gone"} /\ Signs(t, TRUE)

--------------------------------------------------------------------------------
(* The relay.  It holds one event of an author under each `d` tag of this kind *)
(* (kinds.js says so of panics), and a rating has none.                        *)

Supersedes(e, f) == Passenger[e.journey] = Passenger[f.journey] /\ e.at > f.at

TakesIn(held, e) ==
    IF \E f \in held : Supersedes(f, e) THEN held
    ELSE {f \in held : ~Supersedes(e, f)} \cup {e}

RelayTakes(e) ==
    /\ e \in toRelay
    /\ toRelay' = toRelay \ {e}
    /\ relay' = TakesIn(relay, e)
    /\ reached' = reached \cup {e}
    /\ UNCHANGED <<strict, journey, signed, toRate, posts, buffer, read, cache, accepted, restarts>>

\* It is down, or too slow: five seconds, and no one tries again.
RelayMisses(e) ==
    /\ e \in toRelay
    /\ toRelay' = toRelay \ {e}
    /\ UNCHANGED <<strict, journey, signed, toRate, relay, posts, buffer, read, cache, accepted,
                   reached, restarts>>

--------------------------------------------------------------------------------
(* POST /rate.                                                                 *)

\* Of a ride that did not happen, only that it did not may be said.
Ratable(e) == journey[e.journey] = "completed" \/ (journey[e.journey] = "cancelled" /\ e.flagged)

\* parseRatingEvent has no more to refuse in what an app of the rider signs.
Rate(e) ==
    /\ e \in toRate /\ Ratable(e) /\ Cardinality(posts) < MaxPosts
    /\ toRate' = toRate \ {e}
    /\ toRelay' = toRelay \cup {e}
    /\ posts' = posts \cup {e}
    /\ UNCHANGED <<strict, journey, signed, relay, buffer, read, cache, accepted, reached, restarts>>

\* Refused, or lost on the way: to the app it is all the same.
RateFails(e) ==
    /\ e \in toRate
    /\ toRate' = toRate \ {e}
    /\ UNCHANGED <<strict, journey, signed, toRelay, relay, posts, buffer, read, cache, accepted,
                   reached, restarts>>

Kept_IfRelayMissed(e) == IF e \in reached THEN buffer ELSE buffer \cup {e}

\* cacheLocalEvent, whatever the relays said.
Kept(e) == buffer \cup {e}

\* The relays have answered, or five seconds have passed.
Rated(e) ==
    /\ e \in posts /\ e \notin toRelay /\ (strict => e \in reached)
    /\ posts' = posts \ {e}
    /\ buffer' = Kept(e)
    /\ cache' = Unread
    /\ accepted' = accepted \cup {e}
    /\ UNCHANGED <<strict, journey, signed, toRelay, toRate, relay, read, reached, restarts>>

\* No relay took in what the operator published, whatever the app's own copy did.
NotRecorded(e) ==
    /\ e \in posts /\ e \notin toRelay /\ strict
    /\ posts' = posts \ {e}
    /\ UNCHANGED <<strict, journey, signed, toRelay, toRate, relay, buffer, read, cache, accepted,
                   reached, restarts>>

--------------------------------------------------------------------------------
(* GET /reputation.                                                            *)

\* dedupeRatings: of one rider and ride, the last.
Deduped(events) ==
    {e \in events : ~\E f \in events : f.journey = e.journey /\ f.at > e.at}

\* A cached profile is served as it is.
GetProfile ==
    /\ cache = Unread /\ read = Unread
    /\ read' = [stage |-> "ratings", events |-> {}]
    /\ UNCHANGED <<strict, journey, signed, toRelay, toRate, relay, posts, buffer, cache, accepted,
                   reached, restarts>>

\* The relay's answer is merged with the buffer of that moment; a relay that is down, or
\* says no more for five seconds, counts as having none.
RatingsRead ==
    /\ read # Unread /\ read.stage = "ratings"
    /\ \E answer \in {{}, relay} :
         read' = [stage |-> "panics", events |-> answer \cup buffer]
    /\ UNCHANGED <<strict, journey, signed, toRelay, toRate, relay, posts, buffer, cache, accepted,
                   reached, restarts>>

PanicsRead ==
    /\ read # Unread /\ read.stage = "panics"
    /\ cache' = Deduped(read.events)
    /\ read' = Unread
    /\ UNCHANGED <<strict, journey, signed, toRelay, toRate, relay, posts, buffer, accepted,
                   reached, restarts>>

CacheExpires ==
    /\ cache # Unread
    /\ cache' = Unread
    /\ UNCHANGED <<strict, journey, signed, toRelay, toRate, relay, posts, buffer, read, accepted,
                   reached, restarts>>

RatingsNext ==
    \/ \E t \in Journey : Ends(t) \/ Forget(t) \/ SubmitRating(t) \/ ReportNonEvent(t)
    \/ OperatorRestarts
    \/ \E e \in signed :
         RelayTakes(e) \/ RelayMisses(e) \/ Rate(e) \/ RateFails(e)
         \/ Rated(e) \/ NotRecorded(e)
    \/ GetProfile \/ RatingsRead \/ PanicsRead \/ CacheExpires

\* Timeouts answer what relays do not; a cached profile grows old and is asked for again.
RatingsFairness ==
    /\ WF_ratingVars(RatingsRead) /\ WF_ratingVars(PanicsRead)
    /\ WF_ratingVars(GetProfile) /\ WF_ratingVars(CacheExpires)

RatingsSpec == RatingsInit /\ [][RatingsNext]_ratingVars /\ RatingsFairness

--------------------------------------------------------------------------------
(* Properties.                                                                 *)

Counts(profile, e) == \E f \in profile : f.journey = e.journey /\ f.at >= e.at

\* A rating the operator said it has recorded counts in the profile it serves, or a later
\* one of the same ride does, from some time on and for as long as the process lives:
\* whichever relays took it in, and though a read under way when it came in may have
\* been cached after it (publishRating clears the cache, getProfile fills it after two
\* awaits).
CountsInTheEnd == <>[](cache # Unread => \A e \in accepted : Counts(cache, e))

\* A rating that has reached the relay stays there, or a later one of the same ride
\* does (submitRating of api.ts: "The relay copy is the real one and reaches every
\* operator"; services/reputation.ts: no operator can hide a counterparty's history).
RelayCopyStays == \A e \in reached : Counts(relay, e)
================================================================================
