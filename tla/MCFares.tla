------------------------------- MODULE MCFares -------------------------------
(***************************************************************************)
(* Instances of Fares and Prices for TLC.  Fares: two journeys, demand     *)
(* that doubles the rate card, and a BTC price that moves between          *)
(* readings.  Prices: one stop to add or drop, two service classes, a feed *)
(* that answers in full, in part or not at all.  The two share no state: a *)
(* behaviour is of one or of the other, and one of Prices ends with the    *)
(* ride it records.                                                        *)
(***************************************************************************)
EXTENDS Fares, Prices, TLC

CONSTANTS q1, q2, near, corner, home, away, k1, c1, c2, cafe

MCReqs     == {q1, q2}
MCPickups  == {near, corner}
MCDropoffs == {home, away}
MCTariff   == [p \in Pickup |-> [d \in Dropoff |-> IF d = home THEN 1 ELSE 2]]
MCSurges   == {1, 2}
MCDrifts   == {0, 1}
MCOffers   == {3}
MCQuoteIds == {k1}

MCCalls     == {c1, c2}
MCStops     == {cafe}
MCCard      == [v \in Via |-> IF v = Straight THEN [base |-> 2, distance |-> 3, time |-> 1]
                                              ELSE [base |-> 2, distance |-> 5, time |-> 2]]
MCClassRate == [o \in {"standard", "xl"} |-> IF o = "xl" THEN 15 ELSE 10]

VARIABLE part

MCInit == Init /\ PricesInit /\ part \in {"fares", "prices"}

\* A ticker that finds the cache fresh only reads it: one is asked when it is
\* stale.  Of tickers and refreshes, which differ in that alone, one runs at a time.
TickerBound ==
    \A c \in Call : call[c] = NoCall =>
        /\ call'[c].kind = "ticker" => ~feed.fresh
        /\ call'[c].kind \in {"ticker", "refresh"} =>
                \A d \in Call : call[d].kind \notin {"ticker", "refresh"}

MCNext ==
    \/ part = "fares"  /\ Next /\ UNCHANGED <<pricesVars, part>>
    \/ part = "prices" /\ booked = Absent /\ PricesNext /\ TickerBound /\ UNCHANGED <<vars, part>>

MCSpec == MCInit /\ [][MCNext]_<<vars, pricesVars, part>>

\* The tariff is the same from either pickup.
MCSymmetry == Permutations(Req) \cup Permutations(Call) \cup Permutations(Pickup)
=============================================================================
