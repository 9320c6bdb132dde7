-------------------------------- MODULE Prices --------------------------------
(***************************************************************************)
(* From the price of a bitcoin to the figure a ride is recorded at: the    *)
(* price feed and its cache (src/pricing/fiat-conversion.js), the road     *)
(* router (src/osrm-routing.js), the rate card, demand pricing, the quote  *)
(* of every service class (server.js), and the confirm screen that shows   *)
(* the quote and spends it (RequestPage.tsx, api.ts).                      *)
(*                                                                         *)
(* Every price is read through an await that may fetch for seconds, and    *)
(* one estimate reads several, so a figure may mix two fetches.  A money   *)
(* amount is a small integer; a multiplier is counted in tenths.  What     *)
(* becomes of the fare after the request is in Fares.                      *)
(***************************************************************************)
EXTENDS Integers, Sequences, Folds

CONSTANTS
    Call,        \* bound: HTTP calls at the operator at once
    Stop,        \* places a rider may add on the way
    Straight,    \* a journey without stops
    Card,        \* Card[v]: what the rate card asks for the road by v, row by row
    CardMoney,   \* RATE_CARD_CURRENCY
    RideMoney,   \* the currency of the ride
    ClassRate,   \* ClassRate[o]: the fareMultiplier of service option o, in tenths
    Level,       \* bitcoin prices the feed may give
    LastResort,  \* the price nobody gave: BTC_PRICE_FALLBACK_*
    Rate,        \* shillings a dollar: what the FX feed may give
    UsualRate,   \* and what stands in for it
    SatsPerBtc,
    Demand, Supply,         \* requests and providers near a pickup, as counted
    MinWaiting, MaxSurge,   \* SURGE_MIN_DEMAND; SURGE_MAX, in tenths
    Slip,        \* bound: names of quotes
    MaxEdits,    \* bound: changes of the stops
    MaxStale,    \* bound: times the cache goes stale
    Absent       \* no value

Major    == {"USD", "GBP"}      \* priced by CoinGecko; EUR is like GBP
Currency == Major \cup {"KES"}
Via      == Stop \cup {Straight}
Class    == DOMAIN ClassRate
Default  == "default"

ASSUME PricesAssumption ==
    /\ CardMoney \in Currency /\ RideMoney \in Currency
    /\ Card \in [Via -> [base: Nat, distance: Nat \ {0}, time: Nat]]
    /\ ClassRate \in [Class -> Nat \ {0}] /\ Default \notin Class
    /\ Level \subseteq Nat \ {0} /\ Rate \subseteq Nat \ {0}
    /\ LastResort \in Nat \ {0} /\ UsualRate \in Nat \ {0}

VARIABLES
    feed,    \* priceCache: price, and whether it is fresh, and whether a feed gave it
    call,    \* call[c]: a handler at the operator, or none
    slip,    \* quoteStore
    screen,  \* the rider's confirm screen
    booked   \* the ride that was recorded, or Absent

pricesVars == <<feed, call, slip, screen, booked>>

NoCall == [kind |-> "none"]

PricesInit ==
    /\ feed = [price |-> [c \in Currency |-> 0], fresh |-> FALSE, filled |-> FALSE, made |-> FALSE,
               stale |-> 0]
    /\ call = [c \in Call |-> NoCall]
    /\ slip = [s \in Slip |-> Absent]
    /\ screen = [via |-> Absent, estimate |-> Absent, estimating |-> TRUE, option |-> Default,
                 loading |-> FALSE, edits |-> 0]
    /\ booked = Absent

-------------------------------------------------------------------------------
(* Arithmetic of the rate card. *)

Round(n, d) == (2 * n + d) \div (2 * d)

Total(v) == Card[v].base + Card[v].distance + Card[v].time

TenthsOf(o) == IF o = Default THEN 10 ELSE ClassRate[o]

\* estimateTripCost: the rate card in the money of the ride, and then in sats.
Converted(fiat, src, tgt) ==
    IF CardMoney # RideMoney /\ src > 0 /\ tgt > 0 THEN <<fiat * tgt, src>> ELSE <<fiat, 1>>

Sats(v, tenths, src, tgt, price) ==
    LET fiat == Converted(Total(v) * tenths, src, tgt)
    IN  Round(fiat[1] * SatsPerBtc, fiat[2] * price * 100)

Below(n) == IF n < 0 THEN 0 ELSE n

\* Mutant of distanceRow: the row is rounded like its neighbours.
distanceRow_Rounded(v, sats) == Round(Card[v].distance * sats, Total(v))

\* breakdownSats: a row is its share of the total, the remainder is the road's.
baseRow(v, sats)     == Round(Card[v].base * sats, Total(v))
timeRow(v, sats)     == Round(Card[v].time * sats, Total(v))
distanceRow(v, sats) == Below(sats - baseRow(v, sats) - timeRow(v, sats))

\* surgeFor, from what demandNear and supplyNear count.
SurgeOf(waiting, available) ==
    IF waiting < MinWaiting \/ available = 0 \/ waiting <= available THEN 10
    ELSE LET raw == Round(10 * waiting, available) IN IF raw > MaxSurge THEN MaxSurge ELSE raw

Surges == {SurgeOf(w, a) : w \in Demand, a \in Supply}

-------------------------------------------------------------------------------
(* The price feed. *)

\* What a feed may answer: every price, some of them, or nothing of use.
FeedAnswer == [Major -> {0}] \cup [Major -> Level]
                 \cup {[m \in Major |-> IF m = "GBP" THEN 0 ELSE l] : l \in Level}

Candidate(answer) == \A m \in Major : answer[m] > 0

Cached == [m \in Major |-> feed.price[m]]
Hardcoded == [m \in Major |-> LastResort]

\* The first half of fetchBitcoinPrices, decided before its second await.
Base(answer) ==
    IF Candidate(answer) THEN [price |-> answer, made |-> FALSE]
    ELSE IF feed.price["USD"] > 0 THEN [price |-> Cached, made |-> FALSE]
    ELSE [price |-> Hardcoded, made |-> TRUE]

\* The second half: the cache is replaced as a whole.
Replaced(base, rate) ==
    [price |-> [c \in Currency |-> IF c = "KES" THEN base.price["USD"] * rate ELSE base.price[c]],
     fresh |-> TRUE, filled |-> TRUE, made |-> base.made, stale |-> feed.stale]

\* The five minutes of a price pass.
PricesStale ==
    /\ feed.fresh /\ feed.stale < MaxStale
    /\ feed' = [feed EXCEPT !.fresh = FALSE, !.stale = @ + 1]
    /\ UNCHANGED <<call, slip, screen, booked>>

-------------------------------------------------------------------------------
(* A handler that prices: the readings it has to make, one await each. *)

\* estimateTripCost reads the price for the rate card and for the sats; the
\* reading that only values the driver's part is left out.
ReadingsOf(o) ==
    (IF CardMoney # RideMoney THEN <<[of |-> "card", class |-> o], [of |-> "ride", class |-> o]>>
                              ELSE <<>>)
        \o <<[of |-> "fare", class |-> o]>>

\* A class at the default rate is not priced again.
PricedApart == {o \in Class : ClassRate[o] # 10}

EstimateReadings ==
    ReadingsOf(Default) \o MapThenFoldSet(LAMBDA x, y : x \o y, <<>>, ReadingsOf,
                                          LAMBDA S : CHOOSE o \in S : TRUE, PricedApart)

\* The ticker's readings of one currency after the other are one here.
TickerReadings == <<[of |-> "shown", class |-> Default]>>

Handler(kind, v, tenths, readings) ==
    [kind |-> kind, via |-> v, tenths |-> tenths, at |-> "road", readings |-> readings,
     base |-> Absent, src |-> 0, tgt |-> 0, sats |-> [o \in Class \cup {Default} |-> 0],
     option |-> Default, quote |-> Absent, shown |-> 0, own |-> FALSE, asked |-> 10, live |-> 10]

\* A reading is made: what the handler does with the price.
Read(h, price) ==
    LET r == Head(h.readings)
        left == [h EXCEPT !.readings = Tail(@), !.at = IF Len(h.readings) = 1 THEN "priced" ELSE "price"]
    IN CASE r.of = "card" -> [left EXCEPT !.src = price[CardMoney]]
         [] r.of = "ride" -> [left EXCEPT !.tgt = price[RideMoney]]
         [] r.of = "fare" -> [left EXCEPT !.src = 0, !.tgt = 0, !.sats[r.class] =
                                 Sats(h.via, h.tenths * TenthsOf(r.class), h.src, h.tgt, price[RideMoney])]
         [] OTHER         -> left

\* satsToFiat and fiatToSats refuse a price that is none.
Refuses(h, price) == Head(h.readings).of = "fare" /\ price[RideMoney] = 0

Ends(c)      == call' = [call EXCEPT ![c] = NoCall]
Goes(c, h)   == call' = [call EXCEPT ![c] = h]

\* getBitcoinPrice with a fresh cache.
PriceRead(c) ==
    /\ call[c].kind # "none" /\ call[c].at = "price" /\ call[c].readings # <<>>
    /\ feed.fresh /\ ~Refuses(call[c], feed.price)
    /\ Goes(c, Read(call[c], feed.price))
    /\ UNCHANGED <<feed, slip, screen, booked>>

\* getBitcoinPrice with none: it asks the feeds, whoever else is asking.
PriceAsked(c) ==
    /\ call[c].kind # "none" /\ call[c].at = "price"
    /\ ~feed.fresh \/ call[c].readings = <<>>
    /\ Goes(c, [call[c] EXCEPT !.at = "feed"])
    /\ UNCHANGED <<feed, slip, screen, booked>>

FeedAnswers(c) ==
    /\ call[c].kind # "none" /\ call[c].at = "feed"
    /\ \E answer \in FeedAnswer :
            Goes(c, [call[c] EXCEPT !.at = "rates", !.base = Base(answer)])
    /\ UNCHANGED <<feed, slip, screen, booked>>

RatesAnswer(c) ==
    /\ call[c].kind # "none" /\ call[c].at = "rates"
    /\ \E rate \in Rate \cup {UsualRate} :
            LET new == Replaced(call[c].base, rate)
                h == [call[c] EXCEPT !.base = Absent] IN
            /\ feed' = new
            /\ IF h.readings = <<>> THEN Ends(c)
               ELSE ~Refuses(h, new.price) /\ Goes(c, Read(h, new.price))
    /\ UNCHANGED <<slip, screen, booked>>

\* getRoute: a road, or null, and then routeAndPrice throws.
RoadFound(c) ==
    /\ call[c].kind # "none" /\ call[c].at = "road"
    /\ Goes(c, [call[c] EXCEPT !.at = "price"])
    /\ UNCHANGED <<feed, slip, screen, booked>>

\* What the screen makes of a call that failed, at either end of the wire.
Failed(h) ==
    CASE h.kind = "estimate" -> [screen EXCEPT !.estimating = FALSE]
      [] h.kind = "request"  -> [screen EXCEPT !.loading = FALSE]
      [] OTHER               -> screen

\* No road, no usable price, or no answer in time.
CallFails(c) ==
    /\ call[c].kind \in {"estimate", "request"}
    /\ screen' = Failed(call[c])
    /\ Ends(c)
    /\ UNCHANGED <<feed, slip, booked>>

-------------------------------------------------------------------------------
(* The endpoints of the prices themselves. *)

AskTicker(c) ==
    /\ call[c] = NoCall
    /\ Goes(c, [Handler("ticker", Straight, 10, TickerReadings) EXCEPT !.at = "price"])
    /\ UNCHANGED <<feed, slip, screen, booked>>

TickerSent(c) == call[c].kind = "ticker" /\ call[c].at = "priced" /\ Ends(c)
                 /\ UNCHANGED <<feed, slip, screen, booked>>

AskRefresh(c) ==
    /\ call[c] = NoCall
    /\ Goes(c, [Handler("refresh", Straight, 10, <<>>) EXCEPT !.at = "price"])
    /\ UNCHANGED <<feed, slip, screen, booked>>

-------------------------------------------------------------------------------
(* Estimate. *)

\* The effect of the screen asks again whenever the stops change; an answer
\* under way is not called off.  Demand is read once, for every class.
AskEstimate(c, v) ==
    /\ call[c] = NoCall /\ booked = Absent /\ ~screen.loading
    /\ v # screen.via /\ screen.edits < MaxEdits
    /\ \E s \in Surges : Goes(c, Handler("estimate", v, s, EstimateReadings))
    /\ screen' = [screen EXCEPT !.via = v, !.estimating = TRUE, !.edits = @ + 1]
    /\ UNCHANGED <<feed, slip, booked>>

\* What each class was priced at, kept for the quote.
FaresOf(h) == [o \in Class \cup {Default} |-> IF o \in PricedApart \cup {Default} THEN h.sats[o]
                                              ELSE h.sats[Default]]

Spending(s) == \E d \in Call : call[d].kind = "request" /\ call[d].quote = s

\* rememberQuote, and the screen on which it lands.  The name of a quote is
\* random: nobody holds it yet.
EstimateSent(c) ==
    LET h == call[c] IN
    /\ h.kind = "estimate" /\ h.at = "priced"
    /\ \E s \in Slip :
            /\ slip[s] = Absent /\ ~Spending(s)
            /\ slip' = [slip EXCEPT ![s] = [via |-> h.via, tenths |-> h.tenths, fares |-> FaresOf(h)]]
            /\ screen' = [screen EXCEPT
                              !.estimate = [quote |-> s, via |-> h.via, tenths |-> h.tenths,
                                            fares |-> FaresOf(h)],
                              !.estimating = FALSE]
    /\ Ends(c)
    /\ UNCHANGED <<feed, booked>>

\* QUOTE_TTL_MS passes: redeemQuote and quoteSweep treat it alike.
SlipExpires(s) ==
    /\ slip[s] # Absent
    /\ slip' = [slip EXCEPT ![s] = Absent]
    /\ UNCHANGED <<feed, call, screen, booked>>

-------------------------------------------------------------------------------
(* Request. *)

ChooseClass(o) ==
    /\ screen.estimate # Absent /\ ~screen.loading /\ o # screen.option
    /\ screen' = [screen EXCEPT !.option = o]
    /\ UNCHANGED <<feed, call, slip, booked>>

\* The figure on the button.
Headline == IF screen.estimate = Absent THEN 0 ELSE screen.estimate.fares[screen.option]

\* requestTask leaves the multiplier out unless there is one: then the operator
\* takes the demand of the moment, else the lower of the two.
HonouredSurge(live, shown) == IF shown > 10 /\ shown < live THEN shown ELSE live

ShownSurge == IF screen.estimate = Absent THEN 10 ELSE screen.estimate.tenths

Tap(c) ==
    /\ call[c] = NoCall /\ booked = Absent
    /\ screen.via # Absent /\ ~screen.estimating /\ ~screen.loading
    /\ \E live \in Surges :
            Goes(c, [Handler("request", screen.via, HonouredSurge(live, ShownSurge),
                             ReadingsOf(screen.option))
                     EXCEPT !.option = screen.option, !.shown = Headline, !.asked = ShownSurge, !.live = live,
                            !.quote = IF screen.estimate = Absent THEN Absent ELSE screen.estimate.quote,
                            !.own = screen.estimate # Absent /\ screen.estimate.via = screen.via])
    /\ screen' = [screen EXCEPT !.loading = TRUE]
    /\ UNCHANGED <<feed, slip, booked>>

\* redeemQuote compares the ends, and of the stops only how many there are.
StopCount(v) == IF v = Straight THEN 0 ELSE 1

Stands(h) == h.quote # Absent /\ slip[h.quote] # Absent

HeldQuote(h) == Stands(h) /\ StopCount(slip[h.quote].via) = StopCount(h.via)

SurgeHeld(h) == slip[h.quote].tenths = h.tenths

\* Mutant of RecordedFare: the ride is priced afresh, whatever was quoted.
RecordedFare_Live(h) == h.sats[h.option]

RecordedFare(h) ==
    IF HeldQuote(h) /\ SurgeHeld(h) THEN slip[h.quote].fares[h.option] ELSE h.sats[h.option]

RequestRecorded(c) ==
    LET h == call[c] IN
    /\ h.kind = "request" /\ h.at = "priced"
    /\ booked' = [fare |-> RecordedFare(h), shown |-> h.shown, asked |-> h.asked, live |-> h.live,
                  own |-> h.own, stood |-> Stands(h)]
    /\ Ends(c)
    /\ UNCHANGED <<feed, slip, screen>>

-------------------------------------------------------------------------------

Handling(c) ==
    \/ PriceRead(c) \/ PriceAsked(c) \/ FeedAnswers(c) \/ RatesAnswer(c)
    \/ RoadFound(c) \/ CallFails(c)

PricesNext ==
    \/ PricesStale
    \/ \E s \in Slip : SlipExpires(s)
    \/ \E o \in Class \cup {Default} : ChooseClass(o)
    \/ \E c \in Call :
        \/ Handling(c)
        \/ AskTicker(c) \/ TickerSent(c) \/ AskRefresh(c)
        \/ \E v \in Via : AskEstimate(c, v)
        \/ EstimateSent(c) \/ Tap(c) \/ RequestRecorded(c)

PricesSpec == PricesInit /\ [][PricesNext]_pricesVars

-------------------------------------------------------------------------------
(* Properties. *)

\* The button keeps its word (redeemQuote, quotedFareFor): a rider who taps on
\* the estimate of the very stops on the screen, for the class chosen there, gets
\* that figure on the ride, however often the price of a bitcoin was read anew
\* in between, unless the quote lapsed or demand is not what was shown.
DemandIsAsShown ==
    \/ booked.live = booked.asked
    \/ 10 < booked.asked /\ booked.asked < booked.live

RecordedAsShown ==
    (booked # Absent /\ booked.own /\ booked.stood /\ DemandIsAsShown) => booked.fare = booked.shown

\* What the operator's source says of the request ("the rider can only ever be
\* charged what they saw", server.js:4963): while the quote stands, demand that
\* rose since it was given costs the rider nothing.
NeverSurgedUnseen ==
    (booked # Absent /\ booked.own /\ booked.stood /\ booked.live > booked.asked)
        => booked.fare <= booked.shown
===============================================================================
