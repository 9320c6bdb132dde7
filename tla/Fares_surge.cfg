SPECIFICATION MCSpec
CONSTANTS
    q1 = q1
    q2 = q2
    near = near
    corner = corner
    home = home
    away = away
    k1 = k1
    Req <- MCReqs
    Pickup <- MCPickups
    Dropoff <- MCDropoffs
    Tariff <- MCTariff
    Surge <- MCSurges
    Drift <- MCDrifts
    Waiting = 1
    Offer <- MCOffers
    QuoteId <- MCQuoteIds
    None = None
    c1 = c1
    c2 = c2
    cafe = cafe
    Call <- MCCalls
    Stop <- MCStops
    Straight = Straight
    Card <- MCCard
    CardMoney = "GBP"
    RideMoney = "GBP"
    ClassRate <- MCClassRate
    Level = {1}
    LastResort = 2
    Rate = {2}
    UsualRate = 2
    SatsPerBtc = 7
    Demand = {0, 3}
    Supply = {2}
    MinWaiting = 2
    MaxSurge = 20
    Slip <- MCQuoteIds
    MaxEdits = 2
    MaxStale = 1
    Absent = Absent
SYMMETRY
    MCSymmetry
CHECK_DEADLOCK FALSE
INVARIANT
    NeverSurgedUnseen
