-------------------------------- MODULE Fares --------------------------------
(***************************************************************************)
(* The fare of one priced ride: the upfront quote (/api/trips/estimate)    *)
(* and the request that redeems it, pickup and drop-off changes, waiting   *)
(* time, and a provider's quote for the job (server.js).  Every price      *)
(* needs a route and a BTC price, so the handlers that price read part of  *)
(* the ride before an await and part of it after.                          *)
(*                                                                         *)
(* A price is Tariff * multiplier + the drift of the BTC price.  Service   *)
(* classes are one multiplier more and are left out; so are notes,         *)
(* addresses, stops, and participant_encrypted rides, whose journey cannot *)
(* be edited.  Moves of the task engine are in TaskManager; here the       *)
(* states are the five the fare depends on.                                *)
(***************************************************************************)
EXTENDS Integers

CONSTANTS
    Req,      \* bound: requests in flight at once
    Pickup,   \* places a ride may start from
    Dropoff,  \* places it may end
    Tariff,   \* Tariff[p][d]: the rate card for the road from p to d
    Surge,    \* multipliers surgeFor may answer
    Drift,    \* how far the BTC price moves a fare
    Waiting,  \* the charge for waiting past the free minutes
    Offer,    \* what a provider may quote for the job
    QuoteId,  \* bound: quotes remembered at once
    None      \* absent value

ASSUME FaresAssumption ==
    /\ Surge \subseteq Nat \ {0} /\ 1 \in Surge
    /\ Drift \subseteq Nat /\ Drift # {}
    /\ Offer \subseteq Nat \ {0}
    /\ Waiting \in Nat \ {0}
    /\ Tariff \in [Pickup -> [Dropoff -> Nat \ {0}]]

VARIABLES
    ride,    \* the task, as far as its fare goes
    quotes,  \* quoteStore
    req,     \* req[q]: the request in slot q
    agreed,  \* history: the last figure agreed, waiting apart
    late     \* history: the fare is a pickup change's, priced after the accept

vars == <<ride, quotes, req, agreed, late>>

State == {"none", "requested", "matched", "arrived", "started", "ended"}
Idle == [kind |-> "none"]

Price(pickup, dropoff, multiplier, drift) == Tariff[pickup][dropoff] * multiplier + drift

Quote == [pickup: Pickup, dropoff: Dropoff, surge: Nat, sats: Nat]

\* redeemQuote, and what it makes of an expired or a mismatched quote.
Redeems(k, pickup, dropoff) ==
    /\ k # None
    /\ quotes[k] # None
    /\ quotes[k].pickup = pickup
    /\ quotes[k].dropoff = dropoff

Init ==
    /\ ride = [state |-> "none", provider |-> FALSE, pickup |-> None, dropoff |-> None, surge |-> 1,
               fare |-> 0, waiting |-> 0, quote |-> None]
    /\ quotes = [k \in QuoteId |-> None]
    /\ req = [q \in Req |-> Idle]
    /\ agreed = 0 /\ late = FALSE

Begin(q, r) == req[q] = Idle /\ req' = [req EXCEPT ![q] = r]
End(q)      == req' = [req EXCEPT ![q] = Idle]

Remember(k, entry) == quotes[k] = None /\ quotes' = [quotes EXCEPT ![k] = entry]

-------------------------------------------------------------------------------
(* Estimate, and the request that spends it. *)

Estimate ==
    /\ ride.state = "none"
    /\ \E k \in QuoteId, p \in Pickup, d \in Dropoff, s \in Surge, c \in Drift :
            Remember(k, [pickup |-> p, dropoff |-> d, surge |-> s, sats |-> Price(p, d, s, c)])
    /\ UNCHANGED <<ride, req, agreed, late>>

\* The 10 minutes of a quote pass.
QuoteExpires ==
    /\ \E k \in QuoteId : quotes[k] # None /\ quotes' = [quotes EXCEPT ![k] = None]
    /\ UNCHANGED <<ride, req, agreed, late>>

\* Demand is read now, and shown is what the client says it was shown; the quote
\* is looked up when the route and the price are in.
Honoured(live, shown) == IF shown < live THEN shown ELSE live

Request(q) ==
    /\ ride.state = "none"
    /\ \A r \in Req : req[r] = Idle
    /\ \E p \in Pickup, d \in Dropoff, live, shown \in Surge, k \in QuoteId \cup {None} :
            Begin(q, [kind |-> "request", pickup |-> p, dropoff |-> d,
                      surge |-> Honoured(live, shown), quote |-> k])
    /\ UNCHANGED <<ride, quotes, agreed, late>>

\* The quoted figure for this journey, if the quote still stands.
Quoted(r, live) ==
    IF Redeems(r.quote, r.pickup, r.dropoff) /\ quotes[r.quote].surge = r.surge
      THEN quotes[r.quote].sats
      ELSE live

RequestPriced(q) ==
    LET r == req[q] IN
    /\ r.kind = "request"
    /\ \E c \in Drift :
            LET fare == Quoted(r, Price(r.pickup, r.dropoff, r.surge, c)) IN
            /\ ride' = [ride EXCEPT !.state = "requested", !.pickup = r.pickup,
                                    !.dropoff = r.dropoff, !.surge = r.surge, !.fare = fare]
            /\ agreed' = fare
    /\ End(q)
    /\ UNCHANGED <<quotes, late>>

-------------------------------------------------------------------------------
(* The moves of the ride the fare depends on. *)

Moves(from, to) == ride.state \in from /\ ride' = [ride EXCEPT !.state = to]

Live == {"requested", "matched", "arrived", "started"}

Accept ==
    /\ ride.state = "requested"
    /\ ride' = [ride EXCEPT !.state = "matched", !.provider = TRUE]
    /\ UNCHANGED <<quotes, req, agreed, late>>

Arrive     == Moves({"matched"}, "arrived")   /\ UNCHANGED <<quotes, req, agreed, late>>
Transition == Moves({"arrived"}, "started")   /\ UNCHANGED <<quotes, req, agreed, late>>
Complete   == Moves({"started"}, "ended")     /\ UNCHANGED <<quotes, req, agreed, late>>
Cancel     == Moves({"requested", "matched", "arrived"}, "ended")
                                              /\ UNCHANGED <<quotes, req, agreed, late>>

\* /start moves first; only then does it price the wait, if there was one.
Start(q) ==
    /\ Moves({"arrived"}, "started")
    /\ ride.waiting = 0
    /\ Begin(q, [kind |-> "start"])
    /\ UNCHANGED <<quotes, agreed, late>>

StartCosted(q) ==
    /\ req[q].kind = "start"
    /\ ride' = [ride EXCEPT !.waiting = Waiting, !.fare = @ + Waiting]
    /\ End(q)
    /\ UNCHANGED <<quotes, agreed, late>>

-------------------------------------------------------------------------------
(* The requester moves an end of the journey. *)

\* /pickup decides whether the job is committed before its awaits.
MovePickup(q) ==
    /\ ride.state \in {"requested", "matched"}
    /\ \E p \in Pickup :
            Begin(q, [kind |-> "pickup", pickup |-> p, matched |-> ride.state = "matched",
                      dropoff |-> ride.dropoff])
    /\ UNCHANGED <<ride, quotes, agreed, late>>

\* It prices without the demand multiplier, and the ride takes the new pickup in
\* whatever state it is by now.  A fare set once a provider has the job is no
\* figure the two agreed on.
MovePickupPriced(q) ==
    LET r == req[q] IN
    /\ r.kind = "pickup"
    /\ \/ /\ r.matched
          /\ ride' = [ride EXCEPT !.pickup = r.pickup]
          /\ UNCHANGED <<agreed, late>>
       \/ /\ ~r.matched
          /\ \E c \in Drift :
                LET fare == Price(r.pickup, r.dropoff, 1, c) IN
                /\ ride' = [ride EXCEPT !.pickup = r.pickup, !.fare = fare]
                /\ agreed' = IF ride.provider THEN agreed ELSE fare
          /\ late' = ride.provider
    /\ End(q)
    /\ UNCHANGED quotes

\* /dropoff: the state is checked before the route is asked for.
MoveDropoff(q) ==
    /\ ride.state \in Live
    /\ \E d \in Dropoff, k \in QuoteId \cup {None}, preview \in BOOLEAN :
            /\ preview => k = None
            /\ Begin(q, [kind |-> "dropoff", pickup |-> ride.pickup, dropoff |-> d, quote |-> k,
                         preview |-> preview, surge |-> ride.surge, waiting |-> ride.waiting])
    /\ UNCHANGED <<ride, quotes, agreed, late>>

Carried_BeforeRouting(r) == r.waiting

\* The waiting charge carried over is the one on the ride now.
Carried(r) == ride.waiting

MoveDropoffPreviewed(q) ==
    LET r == req[q] IN
    /\ r.kind = "dropoff" /\ r.preview
    /\ \E k \in QuoteId, c \in Drift :
            Remember(k, [pickup |-> ride.pickup, dropoff |-> r.dropoff, surge |-> r.surge,
                         sats |-> Price(r.pickup, r.dropoff, r.surge, c)])
    /\ End(q)
    /\ UNCHANGED <<ride, agreed, late>>

HeldChange_OrNothing(r, live) ==
    IF Redeems(r.quote, ride.pickup, r.dropoff) THEN quotes[r.quote].sats ELSE 0

\* The previewed price, if it is for this journey and still stands.
HeldChange(r, live) ==
    IF Redeems(r.quote, ride.pickup, r.dropoff) THEN quotes[r.quote].sats ELSE live

MoveDropoffPriced(q) ==
    LET r == req[q] IN
    /\ r.kind = "dropoff" /\ ~r.preview
    /\ \E c \in Drift :
            LET est == HeldChange(r, Price(r.pickup, r.dropoff, r.surge, c)) IN
            /\ ride' = [ride EXCEPT !.dropoff = r.dropoff, !.fare = est + Carried(r)]
            /\ agreed' = est
    /\ late' = FALSE
    /\ End(q)
    /\ UNCHANGED quotes

\* No road route: an error, and nothing has changed.
RouteFails(q) ==
    /\ req[q].kind \in {"request", "pickup", "dropoff"}
    /\ End(q)
    /\ UNCHANGED <<ride, quotes, agreed, late>>

-------------------------------------------------------------------------------
(* The provider's own quote for the job. *)

SubmitQuote ==
    /\ ride.provider
    /\ \E o \in Offer : ride' = [ride EXCEPT !.quote = o]
    /\ UNCHANGED <<quotes, req, agreed, late>>

\* The figure accepted is the whole fare, any waiting included.
AcceptQuote ==
    /\ ride.quote # None
    /\ ride' = [ride EXCEPT !.quote = None, !.fare = ride.quote]
    /\ agreed' = ride.quote - ride.waiting
    /\ late' = FALSE
    /\ UNCHANGED <<quotes, req>>

DeclineQuote ==
    /\ ride.quote # None
    /\ ride' = [ride EXCEPT !.quote = None]
    /\ UNCHANGED <<quotes, req, agreed, late>>

Next ==
    \/ Estimate \/ QuoteExpires
    \/ Accept \/ Arrive \/ Transition \/ Complete \/ Cancel
    \/ SubmitQuote \/ AcceptQuote \/ DeclineQuote
    \/ \E q \in Req :
            \/ Request(q) \/ RequestPriced(q)
            \/ Start(q) \/ StartCosted(q)
            \/ MovePickup(q) \/ MovePickupPriced(q)
            \/ MoveDropoff(q) \/ MoveDropoffPreviewed(q) \/ MoveDropoffPriced(q)
            \/ RouteFails(q)
Spec == Init /\ [][Next]_vars

-------------------------------------------------------------------------------
(* Properties. *)

TypeOK ==
    /\ ride \in [state: State, provider: BOOLEAN, pickup: Pickup \cup {None},
                 dropoff: Dropoff \cup {None}, surge: Surge, fare: Nat, waiting: {0, Waiting},
                 quote: Offer \cup {None}]
    /\ quotes \in [QuoteId -> Quote \cup {None}]
    /\ \A q \in Req : req[q].kind \in {"none", "request", "start", "pickup", "dropoff"}
    /\ agreed \in Int /\ late \in BOOLEAN

\* However destination changes, accepted quotes and the waiting charge fall among
\* each other's awaits, the fare is the last figure agreed with the waiting charged
\* once: /start adds it, /dropoff carries it over, and neither drops it or doubles
\* it.  Not of a fare a late pickup change set: see CommittedFareStands.
FareAddsUp == ~late => ride.fare = agreed + ride.waiting

\* "Once a provider has committed ... the AGREED FARE IS NEVER CHANGED - a short
\* walk must not re-price the job in either direction" (/pickup): a step that moves
\* the pickup of a ride that has its provider leaves the fare.
CommittedFareStands ==
    [][ride.provider /\ ride'.pickup # ride.pickup => ride'.fare = ride.fare]_vars

\* The fare as settlement sees it: see FareBoard.
Board == INSTANCE FareBoard WITH
            Fare <- Nat \ {0}, fare <- ride.fare, provider <- ride.provider

\* A ride has a fare from its request on, and a driver only from then on; no
\* answer that arrives late takes either away or gives it to a ride that has none.
KeepsBoard == Board!Spec

=============================================================================
