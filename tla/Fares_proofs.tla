---------------------------- MODULE Fares_proofs ----------------------------
(***************************************************************************)
(* Proofs that a ride's fare adds up, and that it is the fare settlement   *)
(* relies on (FareBoard), for any rate card, demand, price of bitcoin and  *)
(* number of requests in flight.                                           *)
(*                                                                         *)
(* The sum is not inductive: the request and the start answer after an     *)
(* await, and would break it if the waiting were charged by then.  That a  *)
(* request under way has the ride to itself, and that the ride is started  *)
(* once, is what InFlight adds.                                            *)
(*                                                                         *)
(* And that the ride is recorded at the figure tapped, for any prices and  *)
(* number of calls under way.  What makes it so is that a quote that       *)
(* stands says what the screen says, and a request what its quote says:    *)
(* PricesInv.                                                              *)
(***************************************************************************)
EXTENDS Fares, Prices, TLAPS

Figure == Nat \ {0}

\* What each kind of request keeps across its awaits.
Requesting == [kind : {"request"}, pickup : Pickup, dropoff : Dropoff, surge : Surge,
               quote : QuoteId \cup {None}]
Starting   == [kind : {"start"}]
MovingPickup  == [kind : {"pickup"}, pickup : Pickup, matched : BOOLEAN, dropoff : Dropoff]
MovingDropoff == [kind : {"dropoff"}, pickup : Pickup, dropoff : Dropoff,
                  quote : QuoteId \cup {None}, preview : BOOLEAN, surge : Surge,
                  waiting : {0, Waiting}]

Held == Requesting \cup Starting \cup MovingPickup \cup MovingDropoff

RideType ==
    [state : State, provider : BOOLEAN, pickup : Pickup \cup {None},
     dropoff : Dropoff \cup {None}, surge : Surge, fare : Nat, waiting : {0, Waiting},
     quote : Offer \cup {None}]

QuoteType == [pickup : Pickup, dropoff : Dropoff, surge : Surge, sats : Figure]

FaresTyped ==
    /\ ride \in RideType
    /\ quotes \in [QuoteId -> QuoteType \cup {None}]
    /\ req \in [Req -> Held \cup {Idle}]
    /\ agreed \in Int
    /\ late \in BOOLEAN

\* A ride has a journey and a fare from its request on, and a driver after that.
Posted ==
    IF ride.state = "none"
      THEN ride.fare = 0 /\ ride.waiting = 0 /\ ~ride.provider /\ ride.quote = None
      ELSE ride.fare # 0 /\ ride.pickup \in Pickup /\ ride.dropoff \in Dropoff

NotDriven == ride.state = "requested" => ~ride.provider

\* Nobody is waited for, and nothing is late, before there is a driver.
Unserved ==
    ride.provider \/ (ride.state \in {"none", "requested", "ended"} /\ ride.waiting = 0 /\ ~late)

\* A request has the ride to itself, the wait is priced once, and an edit is of a
\* ride there is.
InFlight ==
    \A q \in Req :
        /\ req[q].kind = "request" =>
             ride.state = "none" /\ \A r \in Req : r # q => req[r] = Idle
        /\ req[q].kind = "start" =>
             /\ ride.state \in {"started", "ended"} /\ ride.waiting = 0 /\ ride.provider
             /\ \A r \in Req : r # q => req[r].kind # "start"
        /\ req[q].kind \in {"pickup", "dropoff"} => ride.state # "none"

FaresInv ==
    /\ FaresTyped
    /\ Posted
    /\ NotDriven
    /\ Unserved
    /\ InFlight
    /\ FareAddsUp

\* A step as settlement sees it.
OnBoard == Board!Next \/ UNCHANGED <<ride.fare, ride.provider>>

-----------------------------------------------------------------------------
(* Prices and requests.                                                    *)

LEMMA Products == \A a, b \in Figure, c \in Nat : a * b + c \in Figure
<1> SUFFICES ASSUME NEW a \in Figure, NEW b \in Figure, NEW c \in Nat
             PROVE  a * b + c \in Figure
  OBVIOUS
<1>1. a * b \in Nat /\ a * b # 0
  BY DEF Figure
<1> QED BY <1>1 DEF Figure

LEMMA PriceIsFigure ==
    ASSUME NEW p \in Pickup, NEW d \in Dropoff, NEW s \in Surge, NEW c \in Drift
    PROVE  Price(p, d, s, c) \in Figure
<1>1. Tariff[p][d] \in Figure /\ s \in Figure /\ c \in Nat
  BY FaresAssumption DEF Figure
<1> QED BY <1>1, Products DEF Price

LEMMA Kinds ==
    /\ Idle.kind = "none" /\ Idle \notin Held
    /\ \A r \in Held :
         /\ r.kind = "request" => r \in Requesting
         /\ r.kind = "start" => r \in Starting
         /\ r.kind = "pickup" => r \in MovingPickup
         /\ r.kind = "dropoff" => r \in MovingDropoff
<1>1. \A r \in Held : r.kind \in {"request", "start", "pickup", "dropoff"}
  BY DEF Held, Requesting, Starting, MovingPickup, MovingDropoff
<1>2. Idle.kind = "none"
  BY DEF Idle
<1> QED
  BY <1>1, <1>2 DEF Held, Requesting, Starting, MovingPickup, MovingDropoff

\* The request in slot q ends, or begins.
LEMMA OneSlot ==
    ASSUME FaresInv, NEW q \in Req, NEW r \in Held \cup {Idle}, req' = [req EXCEPT ![q] = r]
    PROVE  /\ req' \in [Req -> Held \cup {Idle}]
           /\ \A p \in Req : req'[p] = IF p = q THEN r ELSE req[p]
BY DEF FaresInv, FaresTyped

\* What a redeemed quote says.
LEMMA Redeemed ==
    ASSUME FaresInv, NEW k \in QuoteId \cup {None}, NEW p, NEW d, Redeems(k, p, d)
    PROVE  quotes[k] \in QuoteType /\ quotes[k].sats \in Figure
BY DEF Redeems, FaresInv, FaresTyped, QuoteType

-----------------------------------------------------------------------------
(* The steps.                                                              *)

\* A quote is remembered, or forgotten.
LEMMA QuotesInv ==
    ASSUME FaresInv, Estimate \/ QuoteExpires
    PROVE  FaresInv' /\ OnBoard
<1>1. UNCHANGED <<ride, req, agreed, late>>
  BY DEF Estimate, QuoteExpires
<1>2. quotes' \in [QuoteId -> QuoteType \cup {None}]
  <2>1. CASE QuoteExpires
    BY <2>1 DEF QuoteExpires, FaresInv, FaresTyped
  <2>2. CASE Estimate
    <3>1. PICK k \in QuoteId, p \in Pickup, d \in Dropoff, s \in Surge, c \in Drift :
            quotes' = [quotes EXCEPT
                         ![k] = [pickup |-> p, dropoff |-> d, surge |-> s,
                                 sats |-> Price(p, d, s, c)]]
      BY <2>2 DEF Estimate, Remember
    <3>2. Price(p, d, s, c) \in Figure
      BY PriceIsFigure
    <3> QED BY <3>1, <3>2 DEF FaresInv, FaresTyped, QuoteType
  <2> QED BY <2>1, <2>2
<1> QED
  BY <1>1, <1>2 DEF FaresInv, FaresTyped, Posted, NotDriven, Unserved, InFlight, FareAddsUp, OnBoard

LEMMA RequestInv ==
    ASSUME FaresInv, NEW q \in Req, Request(q)
    PROVE  FaresInv' /\ OnBoard
<1>1. PICK p \in Pickup, d \in Dropoff, live \in Surge, shown \in Surge,
           k \in QuoteId \cup {None} :
        Begin(q, [kind |-> "request", pickup |-> p, dropoff |-> d,
                  surge |-> Honoured(live, shown), quote |-> k])
  BY DEF Request
<1>2. PICK r : r = [kind |-> "request", pickup |-> p, dropoff |-> d,
                    surge |-> Honoured(live, shown), quote |-> k]
  OBVIOUS
<1>3. r \in Held /\ r.kind = "request"
  BY <1>2 DEF Held, Requesting, Honoured
<1>4. /\ req' = [req EXCEPT ![q] = r] /\ UNCHANGED <<ride, quotes, agreed, late>>
      /\ ride.state = "none" /\ \A o \in Req : req[o] = Idle
  BY <1>1, <1>2 DEF Request, Begin
<1>5. /\ req' \in [Req -> Held \cup {Idle}]
      /\ \A o \in Req : req'[o] = IF o = q THEN r ELSE Idle
  BY <1>3, <1>4, OneSlot
<1>6. InFlight'
  BY <1>3, <1>4, <1>5, Kinds DEF InFlight
<1> QED
  BY <1>4, <1>5, <1>6 DEF FaresInv, FaresTyped, Posted, NotDriven, Unserved, FareAddsUp, OnBoard

LEMMA RequestPricedInv ==
    ASSUME FaresInv, NEW q \in Req, RequestPriced(q)
    PROVE  FaresInv' /\ OnBoard
<1>1. PICK r : r = req[q]
  OBVIOUS
<1>2. r \in Requesting /\ r.kind = "request"
  BY <1>1, Kinds DEF RequestPriced, FaresInv, FaresTyped
<1>3. /\ ride.state = "none" /\ ride \in RideType /\ ride.waiting = 0 /\ ride.fare = 0
      /\ ~ride.provider /\ ~late /\ \A o \in Req : o # q => req[o] = Idle
  BY <1>1, <1>2 DEF FaresInv, InFlight, Posted, Unserved, FaresTyped
<1>4. PICK c, fare :
        /\ c \in Drift
        /\ fare = Quoted(r, Price(r.pickup, r.dropoff, r.surge, c))
        /\ ride' = [ride EXCEPT !.state = "requested", !.pickup = r.pickup,
                                !.dropoff = r.dropoff, !.surge = r.surge, !.fare = fare]
        /\ agreed' = fare
  BY <1>1 DEF RequestPriced
<1>5. fare \in Figure
  <2>1. Price(r.pickup, r.dropoff, r.surge, c) \in Figure
    BY <1>2, <1>4, PriceIsFigure DEF Requesting
  <2>2. r.quote \in QuoteId \cup {None}
    BY <1>2 DEF Requesting
  <2>3. Redeems(r.quote, r.pickup, r.dropoff) => quotes[r.quote].sats \in Figure
    BY <2>2, Redeemed
  <2> QED BY <1>4, <2>1, <2>3 DEF Quoted
<1>6. /\ ride' \in RideType /\ ride'.state = "requested" /\ ride'.fare = fare
      /\ ride'.pickup \in Pickup /\ ride'.dropoff \in Dropoff
      /\ ride'.waiting = 0 /\ ride'.provider = ride.provider
  BY <1>2, <1>3, <1>4, <1>5 DEF RideType, State, Requesting, Figure
<1>7. /\ req' = [req EXCEPT ![q] = Idle] /\ UNCHANGED <<quotes, late>>
  BY DEF RequestPriced, End
<1>8. req' \in [Req -> Held \cup {Idle}] /\ \A o \in Req : req'[o] = Idle
  BY <1>3, <1>7, OneSlot
<1>9. InFlight'
  BY <1>8, Kinds DEF InFlight
<1>10. FareAddsUp' /\ Posted' /\ NotDriven' /\ Unserved' /\ FaresTyped'
  BY <1>3, <1>4, <1>5, <1>6, <1>7, <1>8
     DEF FareAddsUp, Posted, NotDriven, Unserved, FaresTyped, FaresInv, Figure
<1>11. Board!Post
  BY <1>3, <1>5, <1>6 DEF Board!Post, Figure
<1> QED BY <1>9, <1>10, <1>11 DEF FaresInv, OnBoard, Board!Next

\* The ride moves on, with its fare as it is.
LEMMA MovesInv ==
    ASSUME FaresInv, Accept \/ Arrive \/ Transition \/ Complete \/ Cancel
    PROVE  FaresInv' /\ OnBoard
<1>1. ride \in RideType /\ UNCHANGED <<quotes, req, agreed, late>>
  BY DEF FaresInv, FaresTyped, Accept, Arrive, Transition, Complete, Cancel
<1>2. PICK to \in State, driven \in BOOLEAN :
        /\ ride.state \notin {"none", "ended"}
        /\ ride' = [ride EXCEPT !.state = to, !.provider = driven]
        /\ to \notin {"none", "requested"}
        /\ ride.state = "started" => to \in {"started", "ended"}
        /\ driven = ride.provider \/ (~ride.provider /\ driven)
        /\ driven \/ to = "ended"
  <2>1. CASE Accept
    BY <1>1, <2>1 DEF Accept, FaresInv, NotDriven, RideType, State
  <2>2. CASE ~Accept
    <3>1. PICK to \in {"arrived", "started", "ended"} :
            /\ ride' = [ride EXCEPT !.state = to] /\ ride.state \notin {"none", "ended"}
            /\ ride.state = "started" => to = "ended"
            /\ ride.provider \/ to = "ended"
      BY <2>2 DEF Arrive, Transition, Complete, Cancel, Moves, FaresInv, Unserved
    <3>2. [ride EXCEPT !.state = to] = [ride EXCEPT !.state = to, !.provider = ride.provider]
      BY <1>1 DEF RideType
    <3> QED BY <1>1, <3>1, <3>2 DEF State, RideType
  <2> QED BY <2>1, <2>2
<1>3. /\ ride' \in RideType /\ ride'.state = to /\ ride'.provider = driven
      /\ ride'.fare = ride.fare /\ ride'.waiting = ride.waiting /\ ride'.quote = ride.quote
      /\ ride'.pickup = ride.pickup /\ ride'.dropoff = ride.dropoff
  BY <1>1, <1>2 DEF RideType
<1>4. FaresTyped' /\ Posted' /\ NotDriven' /\ Unserved' /\ FareAddsUp'
  BY <1>1, <1>2, <1>3 DEF FaresInv, FaresTyped, Posted, NotDriven, Unserved, FareAddsUp
<1>5. InFlight'
  BY <1>1, <1>2, <1>3 DEF FaresInv, InFlight
<1>6. OnBoard
  <2>1. CASE driven = ride.provider
    BY <1>3, <2>1 DEF OnBoard
  <2>2. CASE driven # ride.provider
    <3>1. Board!Match
      BY <1>2, <1>3, <2>2 DEF Board!Match, FaresInv, Posted
    <3> QED BY <3>1 DEF OnBoard, Board!Next
  <2> QED BY <2>1, <2>2
<1> QED BY <1>4, <1>5, <1>6 DEF FaresInv

LEMMA StartInv ==
    ASSUME FaresInv, NEW q \in Req, Start(q)
    PROVE  FaresInv' /\ OnBoard
<1>1. PICK r : r = [kind |-> "start"]
  OBVIOUS
<1>2. r \in Held /\ r.kind = "start"
  BY <1>1 DEF Held, Starting
<1>3. /\ ride \in RideType /\ ride.state = "arrived" /\ ride.waiting = 0
      /\ ride' = [ride EXCEPT !.state = "started"]
      /\ req' = [req EXCEPT ![q] = r] /\ req[q] = Idle
      /\ UNCHANGED <<quotes, agreed, late>>
  BY <1>1 DEF Start, Moves, Begin, FaresInv, FaresTyped
<1>4. /\ ride' \in RideType /\ ride'.state = "started"
      /\ ride'.fare = ride.fare /\ ride'.waiting = ride.waiting /\ ride'.quote = ride.quote
      /\ ride'.pickup = ride.pickup /\ ride'.dropoff = ride.dropoff
      /\ ride'.provider = ride.provider
  BY <1>3 DEF RideType, State
<1>5. /\ req' \in [Req -> Held \cup {Idle}]
      /\ \A o \in Req : req'[o] = IF o = q THEN r ELSE req[o]
  BY <1>2, <1>3, OneSlot
<1>6. \A o \in Req : req[o].kind \notin {"start", "request"}
  BY <1>3 DEF FaresInv, InFlight
<1>7. InFlight'
  <2>1. ride'.provider
    BY <1>3, <1>4 DEF FaresInv, Unserved
  <2> QED BY <1>2, <1>3, <1>4, <1>5, <1>6, <2>1 DEF InFlight
<1>8. FaresTyped' /\ Posted' /\ NotDriven' /\ Unserved' /\ FareAddsUp' /\ OnBoard
  BY <1>3, <1>4, <1>5
     DEF FaresInv, FaresTyped, Posted, NotDriven, Unserved, FareAddsUp, OnBoard
<1> QED BY <1>7, <1>8 DEF FaresInv

\* The fare changes, of a ride there is: what the steps that price have in common.
LEMMA FareMoves ==
    ASSUME FaresInv, ride.state # "none", NEW fare \in Figure, NEW waiting \in {0, Waiting},
           ride' \in RideType, ride'.state = ride.state, ride'.provider = ride.provider,
           ride'.fare = fare, ride'.waiting = waiting,
           ride'.pickup \in Pickup, ride'.dropoff \in Dropoff,
           agreed' \in Int, late' \in BOOLEAN, ~late' => agreed' = fare - waiting,
           ride.provider \/ (waiting = 0 /\ ~late'),
           quotes' \in [QuoteId -> QuoteType \cup {None}],
           req' \in [Req -> Held \cup {Idle}],
           \A o \in Req : req'[o] \in {req[o], Idle},
           \A o \in Req : req'[o].kind = "start" => waiting = 0
    PROVE  FaresInv' /\ OnBoard
<1>1. FaresTyped'
  BY FaresAssumption DEF FaresTyped, Figure
<1>2. Posted' /\ NotDriven' /\ Unserved'
  BY DEF FaresInv, Posted, NotDriven, Unserved, Figure
<1>3. InFlight'
  BY Kinds DEF FaresInv, InFlight
<1>4. FareAddsUp'
  BY FaresAssumption DEF FareAddsUp, Figure
<1>5. OnBoard
  <2>1. CASE fare = ride.fare
    BY <2>1 DEF OnBoard
  <2>2. CASE fare # ride.fare
    <3>1. Board!Move
      BY <2>2 DEF Board!Move, Figure, FaresInv, Posted
    <3> QED BY <3>1 DEF OnBoard, Board!Next
  <2> QED BY <2>1, <2>2
<1> QED BY <1>1, <1>2, <1>3, <1>4, <1>5 DEF FaresInv

\* The wait is priced once the ride is started, and was not charged before.
LEMMA StartCostedInv ==
    ASSUME FaresInv, NEW q \in Req, StartCosted(q)
    PROVE  FaresInv' /\ OnBoard
<1>1. /\ ride \in RideType /\ req[q].kind = "start" /\ ride.waiting = 0
      /\ ride.state \in {"started", "ended"}
      /\ \A o \in Req : o # q => req[o].kind # "start"
      /\ ride.provider
  BY DEF FaresInv, FaresTyped, InFlight, StartCosted
<1>2. /\ ride' = [ride EXCEPT !.waiting = Waiting, !.fare = ride.fare + Waiting]
      /\ req' = [req EXCEPT ![q] = Idle] /\ UNCHANGED <<quotes, agreed, late>>
  BY <1>1 DEF StartCosted, End, RideType
<1>3. ride.fare + Waiting \in Figure
  BY <1>1, FaresAssumption DEF RideType, Figure
<1>4. /\ ride' \in RideType /\ ride'.fare = ride.fare + Waiting /\ ride'.waiting = Waiting
      /\ ride'.state = ride.state /\ ride'.provider = ride.provider
      /\ ride'.pickup = ride.pickup /\ ride'.dropoff = ride.dropoff
  BY <1>1, <1>2, <1>3 DEF RideType, Figure
<1>5. /\ req' \in [Req -> Held \cup {Idle}]
      /\ \A o \in Req : req'[o] = IF o = q THEN Idle ELSE req[o]
  BY <1>2, OneSlot
<1>6. ~late' => agreed' = (ride.fare + Waiting) - Waiting
  BY <1>1, <1>2, FaresAssumption DEF FaresInv, FareAddsUp, FaresTyped, RideType
<1>7. /\ ride.pickup \in Pickup /\ ride.dropoff \in Dropoff
      /\ quotes' \in [QuoteId -> QuoteType \cup {None}]
  BY <1>1, <1>2 DEF FaresInv, FaresTyped, Posted
<1>8. PICK fare \in Figure : fare = ride.fare + Waiting
  BY <1>3
<1>9. \A o \in Req : req'[o] \in {req[o], Idle} /\ req'[o].kind # "start"
  BY <1>1, <1>5, Kinds
<1>10. PICK waiting \in {0, Waiting} : waiting = Waiting
  OBVIOUS
<1>11. /\ ride.state # "none" /\ ride'.fare = fare /\ ride'.waiting = waiting
       /\ agreed' \in Int /\ late' \in BOOLEAN /\ (~late' => agreed' = fare - waiting)
       /\ \A o \in Req : req'[o].kind = "start" => waiting = 0
  <2>1. ride.state # "none"
    BY <1>1
  <2>2. ride'.fare = fare /\ ride'.waiting = waiting
    BY <1>4, <1>8, <1>10
  <2>3. ~late' => agreed' = fare - waiting
    BY <1>6, <1>8, <1>10
  <2>4. \A o \in Req : req'[o].kind = "start" => waiting = 0
    BY <1>9
  <2>5. agreed' \in Int /\ late' \in BOOLEAN
    BY <1>2 DEF FaresInv, FaresTyped
  <2> QED BY <2>1, <2>2, <2>3, <2>4, <2>5
<1>12. ride'.pickup \in Pickup /\ ride'.dropoff \in Dropoff
  BY <1>4, <1>7
<1> QED BY <1>1, <1>4, <1>5, <1>7, <1>9, <1>11, <1>12, FareMoves

\* The edit of an end of the journey sets out, while the ride is on.
LEMMA EditInv ==
    ASSUME FaresInv, NEW q \in Req, MovePickup(q) \/ MoveDropoff(q)
    PROVE  FaresInv' /\ OnBoard
<1>1. ride.state # "none" /\ req[q] = Idle /\ UNCHANGED <<ride, quotes, agreed, late>>
  BY DEF MovePickup, MoveDropoff, Live, Begin
<1>2. /\ ride \in RideType /\ ride.pickup \in Pickup /\ ride.dropoff \in Dropoff
      /\ ride.surge \in Surge /\ ride.waiting \in {0, Waiting}
  BY <1>1 DEF FaresInv, FaresTyped, Posted, RideType
<1>3. PICK r \in MovingPickup \cup MovingDropoff : req' = [req EXCEPT ![q] = r]
  <2>1. CASE MovePickup(q)
    <3>1. PICK matched \in BOOLEAN : matched = (ride.state = "matched")
      OBVIOUS
    <3>2. PICK p \in Pickup :
            req' = [req EXCEPT ![q] = [kind |-> "pickup", pickup |-> p,
                                       matched |-> matched, dropoff |-> ride.dropoff]]
      BY <2>1, <3>1 DEF MovePickup, Begin
    <3> QED BY <1>2, <3>2 DEF MovingPickup
  <2>2. CASE MoveDropoff(q)
    <3>1. PICK d \in Dropoff, k \in QuoteId \cup {None}, preview \in BOOLEAN :
            req' = [req EXCEPT
                      ![q] = [kind |-> "dropoff", pickup |-> ride.pickup, dropoff |-> d,
                              quote |-> k, preview |-> preview, surge |-> ride.surge,
                              waiting |-> ride.waiting]]
      BY <2>2 DEF MoveDropoff, Begin
    <3> QED BY <1>2, <3>1 DEF MovingDropoff
  <2> QED BY <2>1, <2>2
<1>4. r \in Held /\ r.kind \in {"pickup", "dropoff"}
  BY <1>3 DEF Held, MovingPickup, MovingDropoff
<1>5. /\ req' \in [Req -> Held \cup {Idle}]
      /\ \A o \in Req : req'[o] = IF o = q THEN r ELSE req[o]
  BY <1>3, <1>4, OneSlot
<1>6. InFlight'
  BY <1>1, <1>4, <1>5 DEF FaresInv, InFlight
<1> QED
  BY <1>1, <1>5, <1>6 DEF FaresInv, FaresTyped, Posted, NotDriven, Unserved, FareAddsUp, OnBoard

LEMMA MovePickupPricedInv ==
    ASSUME FaresInv, NEW q \in Req, MovePickupPriced(q)
    PROVE  FaresInv' /\ OnBoard
<1>1. PICK r : r = req[q]
  OBVIOUS
<1>2. r \in MovingPickup /\ ride.state # "none"
  BY <1>1, Kinds DEF MovePickupPriced, FaresInv, FaresTyped, InFlight
<1>3. /\ ride \in RideType /\ ride.fare \in Figure /\ ride.dropoff \in Dropoff
      /\ ride.waiting \in {0, Waiting} /\ agreed \in Int /\ late \in BOOLEAN
      /\ ride.provider \/ (ride.waiting = 0 /\ ~late)
  BY <1>2 DEF FaresInv, FaresTyped, Posted, Unserved, RideType, Figure
<1>4. PICK fare \in Figure :
        /\ ride' = [ride EXCEPT !.pickup = r.pickup, !.fare = fare]
        /\ agreed' \in Int /\ late' \in BOOLEAN
        /\ ~late' => agreed' = fare - ride.waiting
        /\ ride.provider \/ ~late'
  <2>1. CASE r.matched
    <3>1. ride' = [ride EXCEPT !.pickup = r.pickup] /\ UNCHANGED <<agreed, late>>
      BY <1>1, <2>1 DEF MovePickupPriced
    <3>2. [ride EXCEPT !.pickup = r.pickup] = [ride EXCEPT !.pickup = r.pickup, !.fare = ride.fare]
      BY <1>3 DEF RideType
    <3>3. ~late => agreed = ride.fare - ride.waiting
      BY <1>3, FaresAssumption DEF FaresInv, FareAddsUp, Figure
    <3> QED BY <1>3, <3>1, <3>2, <3>3
  <2>2. CASE ~r.matched
    <3>1. PICK c, fare :
            /\ c \in Drift
            /\ fare = Price(r.pickup, r.dropoff, 1, c)
            /\ ride' = [ride EXCEPT !.pickup = r.pickup, !.fare = fare]
            /\ agreed' = (IF ride.provider THEN agreed ELSE fare)
            /\ late' = ride.provider
      BY <1>1, <2>2 DEF MovePickupPriced
    <3>2. fare \in Figure
      BY <1>2, <3>1, PriceIsFigure, FaresAssumption DEF MovingPickup
    <3>3. ride.provider \in BOOLEAN
      BY <1>3 DEF RideType
    <3>4. CASE ride.provider
      BY <1>3, <3>1, <3>2, <3>4
    <3>5. CASE ~ride.provider
      <4>1. ride.provider = FALSE
        BY <3>3, <3>5
      <4>2. agreed' = fare /\ late' = FALSE /\ ride.waiting = 0
        BY <1>3, <3>1, <4>1
      <4>3. fare \in Int /\ fare = fare - 0
        BY <3>2 DEF Figure
      <4> QED BY <3>1, <3>2, <4>2, <4>3
    <3> QED BY <3>4, <3>5
  <2> QED BY <2>1, <2>2
<1>5. /\ ride' \in RideType /\ ride'.fare = fare /\ ride'.waiting = ride.waiting
      /\ ride'.state = ride.state /\ ride'.provider = ride.provider
      /\ ride'.pickup \in Pickup /\ ride'.dropoff = ride.dropoff
  BY <1>2, <1>3, <1>4 DEF RideType, MovingPickup, Figure
<1>6. req' = [req EXCEPT ![q] = Idle] /\ UNCHANGED quotes
  BY DEF MovePickupPriced, End
<1>7. /\ req' \in [Req -> Held \cup {Idle}]
      /\ \A o \in Req : req'[o] = IF o = q THEN Idle ELSE req[o]
  BY <1>6, OneSlot
<1>8. \A o \in Req : req'[o].kind = "start" => ride.waiting = 0
  BY <1>7, Kinds DEF FaresInv, InFlight
<1>9. quotes' \in [QuoteId -> QuoteType \cup {None}]
  BY <1>6 DEF FaresInv, FaresTyped
<1>10. \A o \in Req : req'[o] \in {req[o], Idle}
  BY <1>7
<1>11. ride.provider \/ (ride.waiting = 0 /\ ~late')
  BY <1>3, <1>4
<1> QED BY <1>2, <1>3, <1>4, <1>5, <1>7, <1>8, <1>9, <1>10, <1>11, FareMoves

LEMMA PreviewedInv ==
    ASSUME FaresInv, NEW q \in Req, MoveDropoffPreviewed(q)
    PROVE  FaresInv' /\ OnBoard
<1>1. PICK r : r = req[q]
  OBVIOUS
<1>2. r \in MovingDropoff /\ ride.state # "none"
  BY <1>1, Kinds DEF MoveDropoffPreviewed, FaresInv, FaresTyped, InFlight
<1>3. PICK k \in QuoteId, c \in Drift :
        quotes' = [quotes EXCEPT ![k] = [pickup |-> ride.pickup, dropoff |-> r.dropoff,
                                         surge |-> r.surge,
                                         sats |-> Price(r.pickup, r.dropoff, r.surge, c)]]
  <2>1. PICK k \in QuoteId, c \in Drift :
          quotes' = [quotes EXCEPT ![k] =
                       [pickup |-> ride.pickup, dropoff |-> req[q].dropoff,
                        surge |-> req[q].surge,
                        sats |-> Price(req[q].pickup, req[q].dropoff, req[q].surge, c)]]
    BY DEF MoveDropoffPreviewed, Remember
  <2> QED BY <1>1, <2>1
<1>4. quotes' \in [QuoteId -> QuoteType \cup {None}]
  <2>1. ride.pickup \in Pickup
    BY <1>2 DEF FaresInv, Posted
  <2>2. Price(r.pickup, r.dropoff, r.surge, c) \in Figure
    BY <1>2, <1>3, PriceIsFigure DEF MovingDropoff
  <2> QED BY <1>2, <1>3, <2>1, <2>2 DEF FaresInv, FaresTyped, QuoteType, MovingDropoff
<1>5. req' = [req EXCEPT ![q] = Idle] /\ UNCHANGED <<ride, agreed, late>>
  BY DEF MoveDropoffPreviewed, End
<1>6. /\ req' \in [Req -> Held \cup {Idle}]
      /\ \A o \in Req : req'[o] = IF o = q THEN Idle ELSE req[o]
  BY <1>5, OneSlot
<1>7. InFlight'
  BY <1>5, <1>6, Kinds DEF FaresInv, InFlight
<1> QED
  BY <1>4, <1>5, <1>6, <1>7 DEF FaresInv, FaresTyped, Posted, NotDriven, Unserved, FareAddsUp, OnBoard

\* The waiting carried over is the ride's of now, and so is what is agreed.
LEMMA MoveDropoffPricedInv ==
    ASSUME FaresInv, NEW q \in Req, MoveDropoffPriced(q)
    PROVE  FaresInv' /\ OnBoard
<1>1. PICK r : r = req[q]
  OBVIOUS
<1>2. r \in MovingDropoff /\ ride.state # "none"
  BY <1>1, Kinds DEF MoveDropoffPriced, FaresInv, FaresTyped, InFlight
<1>3. PICK c, est :
        /\ c \in Drift
        /\ est = HeldChange(r, Price(r.pickup, r.dropoff, r.surge, c))
        /\ ride' = [ride EXCEPT !.dropoff = r.dropoff, !.fare = est + ride.waiting]
        /\ agreed' = est
        /\ late' = FALSE
  BY <1>1 DEF MoveDropoffPriced, Carried
<1>4. /\ ride \in RideType /\ ride.pickup \in Pickup /\ ride.waiting \in {0, Waiting}
      /\ ride.provider \/ ride.waiting = 0
  BY <1>2 DEF FaresInv, FaresTyped, Posted, Unserved, RideType
<1>5. est \in Figure
  <2>1. Price(r.pickup, r.dropoff, r.surge, c) \in Figure
    BY <1>2, <1>3, PriceIsFigure DEF MovingDropoff
  <2>2. r.quote \in QuoteId \cup {None}
    BY <1>2 DEF MovingDropoff
  <2>3. Redeems(r.quote, ride.pickup, r.dropoff) => quotes[r.quote].sats \in Figure
    BY <2>2, Redeemed
  <2> QED BY <1>3, <2>1, <2>3 DEF HeldChange
<1>6. PICK fare \in Figure : fare = est + ride.waiting
  BY <1>4, <1>5, FaresAssumption DEF Figure
<1>7. /\ ride' \in RideType /\ ride'.fare = fare /\ ride'.waiting = ride.waiting
      /\ ride'.state = ride.state /\ ride'.provider = ride.provider
      /\ ride'.pickup = ride.pickup /\ ride'.dropoff \in Dropoff
  BY <1>2, <1>3, <1>4, <1>6 DEF RideType, MovingDropoff, Figure
<1>8. agreed' \in Int /\ agreed' = fare - ride.waiting /\ late' = FALSE
  BY <1>3, <1>4, <1>5, <1>6, FaresAssumption DEF Figure
<1>9. req' = [req EXCEPT ![q] = Idle] /\ UNCHANGED quotes
  BY DEF MoveDropoffPriced, End
<1>10. /\ req' \in [Req -> Held \cup {Idle}]
       /\ \A o \in Req : req'[o] = IF o = q THEN Idle ELSE req[o]
  BY <1>9, OneSlot
<1>11. \A o \in Req : req'[o].kind = "start" => ride.waiting = 0
  BY <1>10, Kinds DEF FaresInv, InFlight
<1>12. quotes' \in [QuoteId -> QuoteType \cup {None}]
  BY <1>9 DEF FaresInv, FaresTyped
<1> QED BY <1>2, <1>4, <1>7, <1>8, <1>10, <1>11, <1>12, FareMoves

LEMMA RouteFailsInv ==
    ASSUME FaresInv, NEW q \in Req, RouteFails(q)
    PROVE  FaresInv' /\ OnBoard
<1>1. req' = [req EXCEPT ![q] = Idle] /\ UNCHANGED <<ride, quotes, agreed, late>>
  BY DEF RouteFails, End
<1>2. /\ req' \in [Req -> Held \cup {Idle}]
      /\ \A o \in Req : req'[o] = IF o = q THEN Idle ELSE req[o]
  BY <1>1, OneSlot
<1>3. InFlight'
  BY <1>1, <1>2, Kinds DEF FaresInv, InFlight
<1> QED
  BY <1>1, <1>2, <1>3 DEF FaresInv, FaresTyped, Posted, NotDriven, Unserved, FareAddsUp, OnBoard

\* The provider's figure is offered, taken or turned down.
LEMMA OfferInv ==
    ASSUME FaresInv, SubmitQuote \/ AcceptQuote \/ DeclineQuote
    PROVE  FaresInv' /\ OnBoard
<1>1. /\ ride \in RideType /\ ride.state # "none" /\ UNCHANGED <<quotes, req>>
      /\ ride.pickup \in Pickup /\ ride.dropoff \in Dropoff
  BY DEF FaresInv, FaresTyped, Posted, SubmitQuote, AcceptQuote, DeclineQuote
<1>2. CASE AcceptQuote
  <2>1. PICK fare \in Figure : fare = ride.quote
    BY <1>1, <1>2, FaresAssumption DEF AcceptQuote, RideType, Figure
  <2>2. /\ ride' = [ride EXCEPT !.quote = None, !.fare = fare]
        /\ agreed' = fare - ride.waiting /\ late' = FALSE
    BY <1>2, <2>1 DEF AcceptQuote
  <2>3. /\ ride' \in RideType /\ ride'.fare = fare /\ ride'.waiting = ride.waiting
        /\ ride'.state = ride.state /\ ride'.provider = ride.provider
        /\ ride'.pickup = ride.pickup /\ ride'.dropoff = ride.dropoff
        /\ ride.waiting \in {0, Waiting}
    BY <1>1, <2>1, <2>2 DEF RideType, Figure
  <2>5. agreed' \in Int /\ (ride.provider \/ ride.waiting = 0)
    BY <1>1, <2>1, <2>2, <2>3, FaresAssumption DEF FaresInv, Unserved, Figure
  <2>4. /\ req' \in [Req -> Held \cup {Idle}] /\ \A o \in Req : req'[o] = req[o]
        /\ quotes' \in [QuoteId -> QuoteType \cup {None}]
        /\ \A o \in Req : req'[o].kind = "start" => ride.waiting = 0
    BY <1>1 DEF FaresInv, FaresTyped, InFlight
  <2> QED BY <1>1, <2>1, <2>2, <2>3, <2>4, <2>5, FareMoves
<1>3. CASE SubmitQuote \/ DeclineQuote
  <2>1. PICK o \in Offer \cup {None} : ride' = [ride EXCEPT !.quote = o]
    BY <1>3 DEF SubmitQuote, DeclineQuote
  <2>2. /\ ride' \in RideType /\ ride'.fare = ride.fare /\ ride'.waiting = ride.waiting
        /\ ride'.state = ride.state /\ ride'.provider = ride.provider
        /\ ride'.pickup = ride.pickup /\ ride'.dropoff = ride.dropoff
    BY <1>1, <2>1 DEF RideType
  <2>3. UNCHANGED <<agreed, late>>
    BY <1>3 DEF SubmitQuote, DeclineQuote
  <2> QED BY <1>1, <2>2, <2>3
          DEF FaresInv, FaresTyped, Posted, NotDriven, Unserved, InFlight, FareAddsUp, OnBoard
<1> QED BY <1>2, <1>3

-----------------------------------------------------------------------------
(* The invariant, and what follows from it.                                *)

LEMMA FaresInitInv == Init => FaresInv
<1> SUFFICES ASSUME Init PROVE FaresInv
  OBVIOUS
<1>1. FaresTyped
  <2>1. ride \in RideType /\ quotes \in [QuoteId -> QuoteType \cup {None}]
    BY FaresAssumption DEF Init, RideType, State
  <2>2. req \in [Req -> Held \cup {Idle}]
    BY DEF Init
  <2>3. agreed = 0 /\ late = FALSE
    BY DEF Init
  <2>4. agreed \in Int
    BY <2>3
  <2>5. late \in BOOLEAN
    BY <2>3, Zenon
  <2> QED BY <2>1, <2>2, <2>4, <2>5 DEF FaresTyped
<1>2. InFlight
  BY Kinds DEF Init, InFlight
<1> QED BY <1>1, <1>2 DEF Init, FaresInv, Posted, NotDriven, Unserved, FareAddsUp

LEMMA FaresNextInv == FaresInv /\ [Next]_vars => FaresInv' /\ OnBoard
<1> SUFFICES ASSUME FaresInv, [Next]_vars PROVE FaresInv' /\ OnBoard
  OBVIOUS
<1>1. CASE Next
  BY <1>1, QuotesInv, MovesInv, OfferInv, RequestInv, RequestPricedInv, StartInv,
     StartCostedInv, EditInv, MovePickupPricedInv, PreviewedInv, MoveDropoffPricedInv,
     RouteFailsInv DEF Next
<1>2. CASE UNCHANGED vars
  BY <1>2 DEF vars, FaresInv, FaresTyped, Posted, NotDriven, Unserved, InFlight, FareAddsUp, OnBoard
<1> QED BY <1>1, <1>2

LEMMA FaresAreSound == Spec => []FaresInv
BY FaresInitInv, FaresNextInv, PTL DEF Spec

\* For any rate card, demand and order of answers, the fare is the last figure agreed
\* and the waiting charged once (/start, /dropoff, /quote/accept), unless a pickup
\* change asked for before the accept was priced after it.
THEOREM FareIsTheSum == Spec => []FareAddsUp
<1>1. FaresInv => FareAddsUp
  BY DEF FaresInv
<1> QED BY <1>1, FaresAreSound, PTL

\* What settlement is built on: a ride has a fare from its request on, which may move
\* at any step, and gets one driver; no late answer undoes either.
THEOREM ImplementsBoard == Spec => KeepsBoard
<1>1. Init => Board!Init
  BY DEF Init, Board!Init
<1>2. FaresInv /\ [Next]_vars => [Board!Next]_<<ride.fare, ride.provider>>
  BY FaresNextInv DEF OnBoard
<1> QED BY <1>1, <1>2, FaresAreSound, PTL DEF Spec, KeepsBoard, Board!Spec

--------------------------------------------------------------------------------
(* From the quote to the ride: what a request under way may rely on.           *)

HandlerFields ==
    {"kind", "via", "tenths", "at", "readings", "base", "src", "tgt", "sats", "option",
     "quote", "shown", "own", "asked", "live"}

PricesTypeOK ==
    /\ DOMAIN call = Call
    /\ \A c \in Call : call[c] = NoCall \/ DOMAIN call[c] = HandlerFields
    /\ DOMAIN slip = Slip
    /\ DOMAIN screen = {"via", "estimate", "estimating", "option", "loading", "edits"}

\* A quote, while it stands, says what the estimate on the screen says.
Says(kept, e) ==
    /\ e.quote \in Slip
    /\ kept[e.quote] # Absent =>
         kept[e.quote] = [via |-> e.via, tenths |-> e.tenths, fares |-> e.fares]

\* A request for the very stops on the screen carries what its quote says.
Carries(kept, h) ==
    /\ h.quote \in Slip
    /\ h.tenths = HonouredSurge(h.live, h.asked)
    /\ kept[h.quote] # Absent =>
         /\ kept[h.quote].via = h.via
         /\ kept[h.quote].tenths = h.asked
         /\ kept[h.quote].fares[h.option] = h.shown

PricesInv ==
    /\ PricesTypeOK
    /\ screen.estimate # Absent => Says(slip, screen.estimate)
    /\ \A c \in Call : call[c].kind = "request" /\ call[c].own => Carries(slip, call[c])
    /\ RecordedAsShown

--------------------------------------------------------------------------------
(* A handler on its way to its prices changes nothing of what it was asked.     *)

SameRequest(g, h) ==
    /\ DOMAIN g = HandlerFields
    /\ g.kind = h.kind /\ g.via = h.via /\ g.tenths = h.tenths /\ g.option = h.option
    /\ g.quote = h.quote /\ g.shown = h.shown /\ g.own = h.own /\ g.asked = h.asked
    /\ g.live = h.live

LEMMA ReadKeeps ==
    ASSUME NEW h, DOMAIN h = HandlerFields, NEW price
    PROVE  SameRequest(Read(h, price), h)
<1> DEFINE left == [h EXCEPT !.readings = Tail(@),
                             !.at = IF Len(h.readings) = 1 THEN "priced" ELSE "price"]
           r == Head(h.readings)
<1>1. SameRequest(left, h)
  BY DEF SameRequest, HandlerFields
<1>2. PICK src, tgt, sats :
        Read(h, price) \in {left, [left EXCEPT !.src = src], [left EXCEPT !.tgt = tgt],
                            [left EXCEPT !.src = 0, !.tgt = 0, !.sats = sats]}
  <2> DEFINE sats == [left.sats EXCEPT ![r.class] =
                         Sats(h.via, h.tenths * TenthsOf(r.class), h.src, h.tgt, price[RideMoney])]
  <2>1. CASE r.of = "card"
    <3>1. Read(h, price) = [left EXCEPT !.src = price[CardMoney]]
      BY <2>1 DEF Read
    <3> QED
      BY <3>1
  <2>2. CASE r.of = "ride"
    <3>1. Read(h, price) = [left EXCEPT !.tgt = price[RideMoney]]
      BY <2>2 DEF Read
    <3> QED
      BY <3>1
  <2>3. CASE r.of = "fare"
    <3>1. Read(h, price) = [left EXCEPT !.src = 0, !.tgt = 0, !.sats = sats]
      BY <2>3 DEF Read
    <3> QED
      BY <3>1
  <2>4. CASE r.of \notin {"card", "ride", "fare"}
    <3>1. Read(h, price) = left
      BY <2>4 DEF Read
    <3> QED
      BY <3>1
  <2> QED
    BY <2>1, <2>2, <2>3, <2>4
<1> HIDE DEF left, r
<1> QED
  BY <1>1, <1>2 DEF SameRequest, HandlerFields

\* The step of a handler that goes on, the quotes and the screen as they were.
LEMMA HandlerGoesOn ==
    ASSUME PricesInv, NEW c \in Call, NEW g, call[c].kind # "none",
           SameRequest(g, call[c]), Goes(c, g), UNCHANGED <<slip, screen, booked>>
    PROVE  PricesInv'
<1>1. call' = [call EXCEPT ![c] = g]
  BY DEF Goes
<1>2. PricesTypeOK'
  BY <1>1 DEF PricesInv, PricesTypeOK, SameRequest
<1>3. (screen.estimate # Absent => Says(slip, screen.estimate))' /\ RecordedAsShown'
  BY DEF PricesInv, RecordedAsShown, DemandIsAsShown, Says
<1>4. ASSUME NEW d \in Call, call'[d].kind = "request", call'[d].own
      PROVE  Carries(slip, call'[d])
  <2>1. CASE d = c
    <3>1. call'[d] = g
      BY <1>1, <2>1 DEF PricesInv, PricesTypeOK
    <3>2. Carries(slip, call[c])
      BY <1>4, <3>1 DEF SameRequest, PricesInv
    <3> QED
      BY <3>1, <3>2 DEF SameRequest, Carries
  <2>2. CASE d # c
    BY <1>1, <1>4, <2>2 DEF PricesInv, PricesTypeOK
  <2> QED
    BY <2>1, <2>2
<1> QED
  BY <1>2, <1>3, <1>4 DEF PricesInv, Carries

\* The step of a handler that ends without a quote or a ride.
LEMMA HandlerEnds ==
    ASSUME PricesInv, NEW c \in Call, Ends(c), UNCHANGED <<slip, booked>>,
           DOMAIN screen' = DOMAIN screen, screen'.estimate = screen.estimate
    PROVE  PricesInv'
<1>1. call' = [call EXCEPT ![c] = NoCall]
  BY DEF Ends
<1>2. PricesTypeOK'
  BY <1>1 DEF PricesInv, PricesTypeOK
<1>3. (screen.estimate # Absent => Says(slip, screen.estimate))' /\ RecordedAsShown'
  BY DEF PricesInv, RecordedAsShown, DemandIsAsShown, Says
<1>4. ASSUME NEW d \in Call, call'[d].kind = "request", call'[d].own
      PROVE  Carries(slip, call'[d])
  <2>1. d # c
    BY <1>1, <1>4 DEF PricesInv, PricesTypeOK, NoCall
  <2> QED
    BY <1>1, <1>4, <2>1 DEF PricesInv, PricesTypeOK
<1> QED
  BY <1>2, <1>3, <1>4 DEF PricesInv, Carries

--------------------------------------------------------------------------------
(* The steps.                                                                  *)

LEMMA HandlingKeeps ==
    ASSUME PricesInv, NEW c \in Call, Handling(c)
    PROVE  PricesInv'
<1>0. call[c].kind # "none" => DOMAIN call[c] = HandlerFields
  BY DEF PricesInv, PricesTypeOK, NoCall
<1>1. CASE PriceRead(c)
  BY <1>0, <1>1, ReadKeeps, HandlerGoesOn DEF PriceRead
<1>2. CASE PriceAsked(c)
  <2>1. SameRequest([call[c] EXCEPT !.at = "feed"], call[c])
    BY <1>0, <1>2 DEF PriceAsked, SameRequest, HandlerFields
  <2> QED
    BY <1>2, <2>1, HandlerGoesOn DEF PriceAsked
<1>3. CASE FeedAnswers(c)
  <2>1. PICK answer \in FeedAnswer :
          Goes(c, [call[c] EXCEPT !.at = "rates", !.base = Base(answer)])
    BY <1>3 DEF FeedAnswers
  <2>2. SameRequest([call[c] EXCEPT !.at = "rates", !.base = Base(answer)], call[c])
    BY <1>0, <1>3 DEF FeedAnswers, SameRequest, HandlerFields
  <2> QED
    BY <1>3, <2>1, <2>2, HandlerGoesOn DEF FeedAnswers
<1>4. CASE RatesAnswer(c)
  <2> DEFINE h == [call[c] EXCEPT !.base = Absent]
  <2>1. PICK price : Ends(c) \/ Goes(c, Read(h, price))
    BY <1>4 DEF RatesAnswer
  <2>2. SameRequest(h, call[c])
    BY <1>0, <1>4 DEF RatesAnswer, SameRequest, HandlerFields
  <2> HIDE DEF h
  <2>3. SameRequest(Read(h, price), call[c])
    BY <2>2, ReadKeeps DEF SameRequest
  <2> QED
    BY <1>4, <2>1, <2>3, HandlerGoesOn, HandlerEnds DEF RatesAnswer
<1>5. CASE RoadFound(c)
  <2>1. SameRequest([call[c] EXCEPT !.at = "price"], call[c])
    BY <1>0, <1>5 DEF RoadFound, SameRequest, HandlerFields
  <2> QED
    BY <1>5, <2>1, HandlerGoesOn DEF RoadFound
<1>6. CASE CallFails(c)
  <2>1. DOMAIN screen' = DOMAIN screen /\ screen'.estimate = screen.estimate
    BY <1>6 DEF CallFails, Failed, PricesInv, PricesTypeOK
  <2> QED
    BY <1>6, <2>1, HandlerEnds DEF CallFails
<1> QED
  BY <1>1, <1>2, <1>3, <1>4, <1>5, <1>6 DEF Handling

\* A handler takes a free slot for what is no request.
LEMMA HandlerStarts ==
    ASSUME PricesInv, NEW c \in Call, NEW g, Goes(c, g),
           DOMAIN g = HandlerFields, g.kind # "request", UNCHANGED <<slip, booked>>,
           DOMAIN screen' = DOMAIN screen, screen'.estimate = screen.estimate
    PROVE  PricesInv'
<1>1. call' = [call EXCEPT ![c] = g]
  BY DEF Goes
<1>2. PricesTypeOK'
  BY <1>1 DEF PricesInv, PricesTypeOK
<1>3. (screen.estimate # Absent => Says(slip, screen.estimate))' /\ RecordedAsShown'
  BY DEF PricesInv, RecordedAsShown, DemandIsAsShown, Says
<1>4. ASSUME NEW d \in Call, call'[d].kind = "request", call'[d].own
      PROVE  Carries(slip, call'[d])
  <2>1. d # c
    BY <1>1, <1>4 DEF PricesInv, PricesTypeOK
  <2> QED
    BY <1>1, <1>4, <2>1 DEF PricesInv, PricesTypeOK
<1> QED
  BY <1>2, <1>3, <1>4 DEF PricesInv, Carries

LEMMA AsksKeep ==
    ASSUME PricesInv, NEW c \in Call,
           AskTicker(c) \/ TickerSent(c) \/ AskRefresh(c) \/ \E v \in Via : AskEstimate(c, v)
    PROVE  PricesInv'
<1>0. ASSUME NEW kind, NEW v, NEW s, NEW readings
      PROVE  DOMAIN Handler(kind, v, s, readings) = HandlerFields
             /\ Handler(kind, v, s, readings).kind = kind
  BY DEF Handler, HandlerFields
<1>1. CASE AskTicker(c) \/ AskRefresh(c)
  <2>1. PICK h : DOMAIN h = HandlerFields /\ h.kind \in {"ticker", "refresh"}
                 /\ Goes(c, [h EXCEPT !.at = "price"])
    BY <1>0, <1>1 DEF AskTicker, AskRefresh
  <2>2. DOMAIN [h EXCEPT !.at = "price"] = HandlerFields
        /\ [h EXCEPT !.at = "price"].kind # "request"
    BY <2>1 DEF HandlerFields
  <2> QED
    BY <1>1, <2>1, <2>2, HandlerStarts DEF AskTicker, AskRefresh
<1>2. CASE TickerSent(c)
  BY <1>2, HandlerEnds DEF TickerSent
<1>3. CASE \E v \in Via : AskEstimate(c, v)
  <2>1. PICK v \in Via : AskEstimate(c, v)
    BY <1>3
  <2>2. PICK s \in Surges : Goes(c, Handler("estimate", v, s, EstimateReadings))
    BY <2>1 DEF AskEstimate
  <2>3. DOMAIN screen' = DOMAIN screen /\ screen'.estimate = screen.estimate
    BY <2>1 DEF AskEstimate, PricesInv, PricesTypeOK
  <2> DEFINE g == Handler("estimate", v, s, EstimateReadings)
  <2>4. DOMAIN g = HandlerFields /\ g.kind = "estimate"
    BY <1>0
  <2>5. Goes(c, g) /\ UNCHANGED <<slip, booked>>
    BY <2>1, <2>2 DEF AskEstimate
  <2> HIDE DEF g
  <2> QED
    BY <2>3, <2>4, <2>5, HandlerStarts
<1> QED
  BY <1>1, <1>2, <1>3

\* The name of a new quote is on no request, so that no request comes to mean it.
LEMMA EstimateSentKeeps ==
    ASSUME PricesInv, NEW c \in Call, EstimateSent(c)
    PROVE  PricesInv'
<1> DEFINE h == call[c]
<1>1. PICK s \in Slip :
        /\ slip[s] = Absent /\ ~Spending(s)
        /\ slip' = [slip EXCEPT ![s] = [via |-> h.via, tenths |-> h.tenths, fares |-> FaresOf(h)]]
        /\ screen' = [screen EXCEPT
                          !.estimate = [quote |-> s, via |-> h.via, tenths |-> h.tenths,
                                        fares |-> FaresOf(h)],
                          !.estimating = FALSE]
  BY DEF EstimateSent
<1>2. call' = [call EXCEPT ![c] = NoCall] /\ booked' = booked
  BY DEF EstimateSent, Ends
<1> HIDE DEF h
<1>3. PricesTypeOK'
  BY <1>1, <1>2 DEF PricesInv, PricesTypeOK
<1>4. screen'.estimate = [quote |-> s, via |-> h.via, tenths |-> h.tenths, fares |-> FaresOf(h)]
  BY <1>1 DEF PricesInv, PricesTypeOK
<1>5. Says(slip', screen'.estimate)
  BY <1>1, <1>4 DEF PricesInv, PricesTypeOK, Says
<1>6. RecordedAsShown'
  BY <1>2 DEF PricesInv, RecordedAsShown, DemandIsAsShown
<1>7. ASSUME NEW d \in Call, call'[d].kind = "request", call'[d].own
      PROVE  Carries(slip', call'[d])
  <2>1. d # c
    BY <1>2, <1>7 DEF PricesInv, PricesTypeOK, NoCall
  <2>2. call'[d] = call[d]
    BY <1>2, <2>1 DEF PricesInv, PricesTypeOK
  <2>3. Carries(slip, call[d])
    BY <1>7, <2>2 DEF PricesInv
  <2>4. call[d].quote # s
    BY <1>1, <1>7, <2>2 DEF Spending
  <2>5. slip'[call[d].quote] = slip[call[d].quote]
    BY <1>1, <2>3, <2>4 DEF PricesInv, PricesTypeOK, Carries
  <2> QED
    BY <2>2, <2>3, <2>5 DEF Carries
<1>8. (screen.estimate # Absent => Says(slip, screen.estimate))'
  BY <1>5 DEF Says
<1> QED
  BY <1>3, <1>6, <1>7, <1>8 DEF PricesInv, Carries

LEMMA SlipExpiresKeeps ==
    ASSUME PricesInv, NEW s \in Slip, SlipExpires(s)
    PROVE  PricesInv'
<1>1. slip' = [slip EXCEPT ![s] = Absent] /\ UNCHANGED <<call, screen, booked>>
  BY DEF SlipExpires
<1>2. PricesTypeOK'
  BY <1>1 DEF PricesInv, PricesTypeOK
<1>3. \A t \in Slip : slip'[t] # Absent => slip'[t] = slip[t]
  BY <1>1 DEF PricesInv, PricesTypeOK
<1>4. (screen.estimate # Absent => Says(slip, screen.estimate))'
  BY <1>1, <1>3 DEF PricesInv, Says
<1>5. RecordedAsShown'
  BY <1>1 DEF PricesInv, RecordedAsShown, DemandIsAsShown
<1>6. \A d \in Call : call[d].kind = "request" /\ call[d].own => Carries(slip', call[d])
  BY <1>3 DEF PricesInv, Carries
<1> QED
  BY <1>1, <1>2, <1>4, <1>5, <1>6 DEF PricesInv, Carries

LEMMA ChooseClassKeeps ==
    ASSUME PricesInv, NEW o, ChooseClass(o)
    PROVE  PricesInv'
<1>1. UNCHANGED <<call, slip, booked>> /\ screen' = [screen EXCEPT !.option = o]
  BY DEF ChooseClass
<1>2. DOMAIN screen' = DOMAIN screen /\ screen'.estimate = screen.estimate
  BY <1>1 DEF PricesInv, PricesTypeOK
<1> QED
  BY <1>1, <1>2 DEF PricesInv, PricesTypeOK, Says, Carries, RecordedAsShown, DemandIsAsShown

LEMMA TapKeeps ==
    ASSUME PricesInv, NEW c \in Call, Tap(c)
    PROVE  PricesInv'
<1> DEFINE e == screen.estimate
<1>1. PICK own \in BOOLEAN : own = (e # Absent /\ e.via = screen.via)
  OBVIOUS
<1>2. PICK live \in Surges :
        Goes(c, [Handler("request", screen.via, HonouredSurge(live, ShownSurge),
                         ReadingsOf(screen.option))
                 EXCEPT !.option = screen.option, !.shown = Headline, !.asked = ShownSurge,
                        !.live = live,
                        !.quote = IF e = Absent THEN Absent ELSE e.quote,
                        !.own = own])
  BY <1>1 DEF Tap
<1> DEFINE h == Handler("request", screen.via, HonouredSurge(live, ShownSurge),
                        ReadingsOf(screen.option))
           quote == IF e = Absent THEN Absent ELSE e.quote
           g == [h EXCEPT !.option = screen.option, !.shown = Headline, !.asked = ShownSurge,
                          !.live = live, !.quote = quote, !.own = own]
<1>3. /\ DOMAIN h = HandlerFields /\ h.kind = "request" /\ h.via = screen.via
      /\ h.tenths = HonouredSurge(live, ShownSurge)
  BY DEF Handler, HandlerFields
<1>4. Goes(c, g)
  BY <1>2
<1> HIDE DEF h, quote
<1>5. /\ DOMAIN g = HandlerFields /\ g.kind = "request" /\ g.via = screen.via
      /\ g.tenths = HonouredSurge(live, ShownSurge) /\ g.option = screen.option
      /\ g.shown = Headline /\ g.asked = ShownSurge /\ g.live = live /\ g.quote = quote
      /\ g.own = own
  BY <1>3 DEF HandlerFields
<1> HIDE DEF g
<1>6. ASSUME own
      PROVE  Carries(slip, g)
  <2>1. e # Absent /\ e.via = screen.via /\ quote = e.quote
    BY <1>1, <1>6 DEF quote
  <2>2. Headline = e.fares[screen.option] /\ ShownSurge = e.tenths
    BY <2>1 DEF Headline, ShownSurge
  <2>3. Says(slip, e)
    BY <2>1 DEF PricesInv
  <2> HIDE DEF e
  <2>4. g.tenths = HonouredSurge(g.live, g.asked)
    BY <1>5
  <2>5. CASE slip[e.quote] = Absent
    BY <1>5, <2>1, <2>3, <2>4, <2>5 DEF Carries, Says
  <2>6. CASE slip[e.quote] # Absent
    <3>1. slip[e.quote].via = e.via /\ slip[e.quote].tenths = e.tenths
          /\ slip[e.quote].fares = e.fares
      BY <2>3, <2>6 DEF Says
    <3> QED
      BY <1>5, <2>1, <2>2, <2>3, <2>4, <3>1 DEF Carries, Says
  <2> QED
    BY <2>5, <2>6
<1>7. call' = [call EXCEPT ![c] = g] /\ UNCHANGED <<slip, booked>>
  BY <1>4 DEF Goes, Tap
<1>8. DOMAIN screen' = DOMAIN screen /\ screen'.estimate = screen.estimate
  BY DEF Tap, PricesInv, PricesTypeOK
<1>9. PricesTypeOK'
  BY <1>5, <1>7, <1>8 DEF PricesInv, PricesTypeOK
<1>10. (screen.estimate # Absent => Says(slip, screen.estimate))' /\ RecordedAsShown'
  BY <1>7, <1>8 DEF PricesInv, RecordedAsShown, DemandIsAsShown, Says
<1>11. ASSUME NEW d \in Call, call'[d].kind = "request", call'[d].own
       PROVE  Carries(slip, call'[d])
  <2>1. CASE d = c
    <3>1. call'[d] = g
      BY <1>7, <2>1 DEF PricesInv, PricesTypeOK
    <3>2. own
      BY <1>5, <1>11, <3>1
    <3> QED
      BY <1>6, <3>1, <3>2
  <2>2. CASE d # c
    <3>1. call'[d] = call[d]
      BY <1>7, <2>2 DEF PricesInv, PricesTypeOK
    <3> QED
      BY <1>11, <3>1 DEF PricesInv
  <2> QED
    BY <2>1, <2>2
<1> QED
  BY <1>7, <1>9, <1>10, <1>11 DEF PricesInv, Carries

\* The multiplier that is honoured is the one that was shown, if demand is as shown.
LEMMA HonouredAsShown ==
    ASSUME NEW live, NEW asked, live = asked \/ (10 < asked /\ asked < live)
    PROVE  HonouredSurge(live, asked) = asked
BY DEF HonouredSurge

LEMMA RequestRecordedKeeps ==
    ASSUME PricesInv, NEW c \in Call, RequestRecorded(c)
    PROVE  PricesInv'
<1> DEFINE h == call[c]
<1>0. h.kind = "request"
  BY DEF RequestRecorded
<1>1. PICK stood \in BOOLEAN : stood = Stands(h)
  BY DEF Stands
<1>2. /\ booked' = [fare |-> RecordedFare(h), shown |-> h.shown, asked |-> h.asked,
                    live |-> h.live, own |-> h.own, stood |-> stood]
      /\ call' = [call EXCEPT ![c] = NoCall]
      /\ UNCHANGED <<slip, screen>>
  BY <1>1 DEF RequestRecorded, Ends
<1>3. /\ booked'.fare = RecordedFare(h) /\ booked'.shown = h.shown /\ booked'.asked = h.asked
      /\ booked'.live = h.live /\ booked'.own = h.own /\ booked'.stood = stood
  BY <1>2
<1>4. ASSUME h.own, stood, h.live = h.asked \/ (10 < h.asked /\ h.asked < h.live)
      PROVE  RecordedFare(h) = h.shown
  <2>1. Carries(slip, h)
    BY <1>0, <1>4 DEF PricesInv
  <2>2. slip[h.quote] # Absent /\ h.quote # Absent
    BY <1>1, <1>4 DEF Stands
  <2>3. h.tenths = h.asked
    BY <1>4, <2>1, HonouredAsShown DEF Carries
  <2>4. HeldQuote(h) /\ SurgeHeld(h)
    BY <2>1, <2>2, <2>3 DEF HeldQuote, SurgeHeld, Carries, Stands
  <2> QED
    BY <2>1, <2>2, <2>4 DEF RecordedFare, Carries
<1> HIDE DEF h
<1>5. RecordedAsShown'
  BY <1>3, <1>4 DEF RecordedAsShown, DemandIsAsShown
<1>6. PricesTypeOK' /\ (screen.estimate # Absent => Says(slip, screen.estimate))'
  BY <1>2 DEF PricesInv, PricesTypeOK, Says
<1>7. ASSUME NEW d \in Call, call'[d].kind = "request", call'[d].own
      PROVE  Carries(slip, call'[d])
  <2>1. d # c
    BY <1>2, <1>7 DEF PricesInv, PricesTypeOK, NoCall
  <2> QED
    BY <1>2, <1>7, <2>1 DEF PricesInv, PricesTypeOK
<1> QED
  BY <1>2, <1>5, <1>6, <1>7 DEF PricesInv, Carries

--------------------------------------------------------------------------------
(* What holds of every behaviour.                                              *)

LEMMA PricesInitInv == PricesInit => PricesInv
<1> SUFFICES ASSUME PricesInit
             PROVE  PricesInv
  OBVIOUS
<1>1. \A c \in Call : call[c] = NoCall /\ call[c].kind # "request"
  BY DEF PricesInit, NoCall
<1> QED
  BY <1>1 DEF PricesInit, PricesInv, PricesTypeOK, RecordedAsShown

LEMMA PricesNextInv == PricesInv /\ [PricesNext]_pricesVars => PricesInv'
<1> SUFFICES ASSUME PricesInv, [PricesNext]_pricesVars
             PROVE  PricesInv'
  OBVIOUS
<1>1. CASE PricesStale \/ UNCHANGED pricesVars
  <2>1. UNCHANGED <<call, slip, screen, booked>>
    BY <1>1 DEF PricesStale, pricesVars
  <2> QED
    BY <2>1 DEF PricesInv, PricesTypeOK, Says, Carries, RecordedAsShown, DemandIsAsShown
<1>2. CASE \E s \in Slip : SlipExpires(s)
  BY <1>2, SlipExpiresKeeps
<1>3. CASE \E o \in Class \cup {Default} : ChooseClass(o)
  BY <1>3, ChooseClassKeeps
<1>4. CASE \E c \in Call : Handling(c)
  BY <1>4, HandlingKeeps
<1>5. CASE \E c \in Call : \/ AskTicker(c) \/ TickerSent(c) \/ AskRefresh(c)
                           \/ \E v \in Via : AskEstimate(c, v)
  BY <1>5, AsksKeep
<1>6. CASE \E c \in Call : EstimateSent(c)
  BY <1>6, EstimateSentKeeps
<1>7. CASE \E c \in Call : Tap(c)
  BY <1>7, TapKeeps
<1>8. CASE \E c \in Call : RequestRecorded(c)
  BY <1>8, RequestRecordedKeeps
<1> QED
  BY <1>1, <1>2, <1>3, <1>4, <1>5, <1>6, <1>7, <1>8 DEF PricesNext

\* A rider who taps on the estimate of the very stops on the screen gets that figure on
\* the ride, however often the price of a bitcoin was read anew in between, unless the
\* quote lapsed or demand is not what was shown (RecordedAsShown), for any rate card,
\* classes, prices, demand and number of calls under way.
THEOREM RidesAreAsShown == PricesSpec => []RecordedAsShown
<1>1. PricesInv => RecordedAsShown
  BY DEF PricesInv
<1>2. PricesSpec => []PricesInv
  BY PricesInitInv, PricesNextInv, PTL DEF PricesSpec
<1> QED
  BY <1>1, <1>2, PTL
=============================================================================
