------------------------------ MODULE LegacyDriver ------------------------------
(***************************************************************************)
(* The stand-alone driver page (public/driver-app.js) against an operator  *)
(* whose rides other drivers take and riders cancel.  A driver accepts a   *)
(* session, pays a stake, accepts the ride, and is then driven by timers:  *)
(* the marker moves along a route, and at its end the page goes on.        *)
(*                                                                         *)
(* A handler runs to its fetch and goes on when the fetch has answered,    *)
(* with whatever the page holds by then.  job is a ride at the operator,   *)
(* deal its session; "other" is another driver's.                          *)
(***************************************************************************)
EXTENDS LegacyPages, Sequences, Bags

VARIABLES
    job,     \* the operator's rides
    deal,    \* the operator's sessions
    driver,  \* what the page holds
    fetches, \* fetches the operator has answered, the answer on its way
    news     \* frames on their way, in the order sent

driverVars == <<job, deal, driver, fetches, news>>

DriverInit ==
    /\ job = [r \in Ride |-> "requested"]
    /\ deal = [r \in Ride |-> "waiting"]
    /\ driver = [ online |-> FALSE, room |-> NoRide, socket |-> FALSE, pending |-> {},
                  ride |-> NoRide, last |-> NoRide, due |-> FALSE, arrival |-> FALSE,
                  start |-> FALSE, awaiting |-> FALSE, moving |-> "no", timer |-> FALSE,
                  halted |-> FALSE, shown |-> {}, off |-> {} ]
    /\ fetches = EmptyBag
    /\ news = <<>>

--------------------------------------------------------------------------------
(* Panels.                                                                     *)

\* A button that is shown again is enabled, so off is kept of shown ones only.
Show(d, b) == [d EXCEPT !.shown = @ \cup {b}, !.off = @ \ {b}]
Hide(d, b) == [d EXCEPT !.shown = @ \ {b}, !.off = @ \ {b}]
Enable(d, b) == [d EXCEPT !.off = @ \ {b}]
Disable(d, b) == [d EXCEPT !.off = @ \cup {b}]

HideControls(d) == Hide(Hide(d, "arrived"), "start")

\* clearActiveRide: the ride itself stays.
Cleared(d) ==
    [Hide(HideControls(Hide(d, "complete")), "stake") EXCEPT
        !.timer = FALSE, !.moving = "no", !.arrival = FALSE, !.start = FALSE,
        !.awaiting = FALSE]

\* handlePanicAlert, of the ride on the page; the completion timer goes on.
Alarmed(d) ==
    [HideControls(d) EXCEPT !.moving = "no", !.halted = TRUE, !.arrival = FALSE,
                            !.start = FALSE]

--------------------------------------------------------------------------------
(* Fetches.                                                                    *)

Reply(kind, r, ok) == SetToBag({[kind |-> kind, ride |-> r, ok |-> ok]})

Fetch(kind, r, ok) == fetches' = fetches (+) Reply(kind, r, ok)

MayFetch == BagCardinality(fetches) < MaxCalls

Press(b) == MayFetch /\ b \in driver.shown \ driver.off

AcceptRide(r) ==
    /\ r \in driver.pending /\ driver.ride = NoRide /\ MayFetch
    /\ driver' = [driver EXCEPT !.pending = @ \ {r}]
    /\ deal' = [deal EXCEPT ![r] = IF @ = "waiting" THEN "accepted" ELSE @]
    /\ Fetch("accept", r, deal[r] = "waiting")
    /\ UNCHANGED <<job, news>>

Decline(r) ==
    /\ r \in driver.pending
    /\ driver' = [driver EXCEPT !.pending = @ \ {r}]
    /\ UNCHANGED <<job, deal, fetches, news>>

\* confirmDriverStake, to its first fetch.
ConfirmStake ==
    LET r == driver.ride IN
    /\ Press("stake") /\ r # NoRide /\ driver.due
    /\ driver' = Disable(driver, "stake")
    /\ deal' = [deal EXCEPT ![r] = IF @ = "accepted" THEN "staked" ELSE @]
    /\ Fetch("stake", r, deal[r] = "accepted")
    /\ UNCHANGED <<job, news>>

\* The page takes any answer for an arrival.
MarkArrived ==
    LET r == driver.ride IN
    /\ Press("arrived") /\ r # NoRide /\ driver.arrival
    /\ driver' = Disable(driver, "arrived")
    /\ job' = [job EXCEPT ![r] = IF @ = "matched" THEN "arrived" ELSE @]
    /\ Fetch("arrive", r, TRUE)
    /\ UNCHANGED <<deal, news>>

StartTrip ==
    LET r == driver.ride IN
    /\ Press("start") /\ r # NoRide /\ driver.start
    /\ driver' = Disable(driver, "start")
    /\ job' = [job EXCEPT ![r] = IF @ = "arrived" THEN "active" ELSE @]
    /\ Fetch("start", r, job[r] = "arrived")
    /\ UNCHANGED <<deal, news>>

\* finishRide, of the ride on the page or the last one.
Finishes ==
    LET r == IF driver.ride # NoRide THEN driver.ride ELSE driver.last IN
    /\ driver' = [driver EXCEPT !.timer = FALSE]
    /\ job' = [s \in Ride |-> IF s = r /\ job[s] = "active" THEN "completed" ELSE job[s]]
    /\ IF r = NoRide THEN UNCHANGED fetches ELSE Fetch("complete", r, TRUE)
    /\ UNCHANGED <<deal, news>>

CompleteRide ==
    Press("complete") /\ (driver.ride # NoRide \/ driver.awaiting) /\ Finishes

\* Five seconds at the drop-off without a tap.
CompletionDue == driver.timer /\ Finishes

Alert ==
    /\ driver.ride # NoRide /\ MayFetch /\ ~driver.halted
    /\ Fetch("panic", driver.ride, TRUE)
    /\ UNCHANGED <<job, deal, driver, news>>

--------------------------------------------------------------------------------
(* Answers.                                                                    *)

Accepted_Anyway(d, c) ==
    [Show(d, "stake") EXCEPT !.last = NoRide, !.ride = c.ride, !.due = TRUE,
                             !.halted = FALSE,
                             !.room = IF d.socket THEN c.ride ELSE @]

\* The answer of the latest accept decides, whatever ride is on the page.
Accepted(d, c) ==
    IF c.ok
      THEN [Show(d, "stake") EXCEPT !.last = NoRide, !.ride = c.ride, !.due = TRUE,
                                    !.halted = FALSE,
                                    !.room = IF d.socket THEN c.ride ELSE @]
      ELSE [d EXCEPT !.ride = NoRide, !.due = FALSE]

\* showActiveRidePanel and startStageToPickup.
SetOut(d, c) ==
    [Hide(HideControls(Hide(d, "complete")), "stake") EXCEPT
        !.ride = c.ride, !.due = FALSE, !.timer = FALSE, !.arrival = FALSE,
        !.start = FALSE, !.halted = FALSE, !.moving = "pickup"]

Arrived(d, c) ==
    IF c.ok THEN [Show(Hide(d, "arrived"), "start") EXCEPT !.arrival = FALSE, !.start = TRUE]
            ELSE Enable(d, "arrived")

\* startStageToDropoff, of the ride in the answer.
Started(d, c) ==
    IF c.ok THEN [HideControls(d) EXCEPT !.start = FALSE, !.ride = c.ride,
                                         !.halted = FALSE, !.moving = "dropoff"]
            ELSE Enable(d, "start")

\* Whatever the answer, the page has done with the ride it now shows.
Finished(d, c) == [Cleared(d) EXCEPT !.last = c.ride, !.ride = NoRide]

DriverAnswered(d, c) ==
    CASE c.kind = "accept"         -> Accepted(d, c)
      [] c.kind = "stake"          -> Enable(d, "stake")
      [] c.kind = "job" /\ c.ok    -> SetOut(d, c)
      [] c.kind = "job" /\ ~c.ok   -> Enable(d, "stake")
      [] c.kind = "arrive"         -> Arrived(d, c)
      [] c.kind = "start"          -> Started(d, c)
      [] c.kind = "complete"       -> Finished(d, c)
      [] c.kind = "panic"          -> IF c.ok /\ d.ride # NoRide THEN Alarmed(d) ELSE d

\* Once the stake is locked the page accepts the ride it shows by then.
StakedThenAccepts(c) ==
    LET r == driver.ride IN
    /\ c.kind = "stake" /\ c.ok /\ r # NoRide
    /\ job' = [job EXCEPT ![r] = IF @ = "requested" THEN "matched" ELSE @]
    /\ fetches' = (fetches (-) SetToBag({c})) (+) Reply("job", r, job[r] = "requested")
    /\ UNCHANGED driver

DriverReturns(c) ==
    /\ ~(c.kind = "stake" /\ c.ok /\ driver.ride # NoRide)
    /\ driver' = DriverAnswered(driver, c)
    /\ fetches' = fetches (-) SetToBag({c})
    /\ UNCHANGED job

FetchEnds ==
    /\ \E c \in BagToSet(fetches) : StakedThenAccepts(c) \/ DriverReturns(c)
    /\ UNCHANGED <<deal, news>>

FetchFails ==
    /\ \E c \in BagToSet(fetches) :
         c.ok /\ fetches' = (fetches (-) SetToBag({c})) (+) Reply(c.kind, c.ride, FALSE)
    /\ UNCHANGED <<job, deal, driver, news>>

--------------------------------------------------------------------------------
(* Timers of the page.                                                         *)

\* onPickupRouteComplete
AtPickup(d) == [Show(Hide(d, "start"), "arrived") EXCEPT !.moving = "no", !.arrival = TRUE]

AtDropOff_Untimed(d) == [Show(d, "complete") EXCEPT !.moving = "no", !.awaiting = TRUE]

\* promptCompletion
AtDropOff(d) ==
    [Show(d, "complete") EXCEPT !.moving = "no", !.awaiting = TRUE, !.timer = TRUE]

RouteEnds ==
    /\ driver.moving # "no"
    /\ driver' = IF driver.moving = "pickup" THEN AtPickup(driver) ELSE AtDropOff(driver)
    /\ UNCHANGED <<job, deal, fetches, news>>

--------------------------------------------------------------------------------
(* Being online.                                                               *)

GoOnline ==
    /\ ~driver.online
    /\ driver' = [driver EXCEPT !.online = TRUE, !.socket = TRUE]
    /\ UNCHANGED <<job, deal, fetches, news>>

GoOffline ==
    /\ driver.online
    /\ driver' = [Cleared(driver) EXCEPT !.online = FALSE, !.socket = FALSE, !.room = NoRide,
                                         !.pending = {}, !.due = FALSE]
    /\ news' = <<>>
    /\ UNCHANGED <<job, deal, fetches>>

DriverSocketLost ==
    /\ driver.socket
    /\ driver' = [driver EXCEPT !.socket = FALSE, !.room = NoRide]
    /\ news' = <<>>
    /\ UNCHANGED <<job, deal, fetches>>

\* Four seconds later; the page registers, and does not watch its ride again.
Reconnects ==
    /\ driver.online /\ ~driver.socket
    /\ driver' = [driver EXCEPT !.socket = TRUE]
    /\ UNCHANGED <<job, deal, fetches, news>>

\* handleRideCancelled
CancelHeard(d, r) ==
    IF d.ride = r THEN [Cleared(d) EXCEPT !.ride = NoRide]
                  ELSE [d EXCEPT !.pending = @ \ {r}]

Told(d, n) ==
    CASE n.what = "request"   -> IF d.ride = NoRide THEN [d EXCEPT !.pending = @ \cup {n.ride}]
                                 ELSE d
      [] n.what = "cancelled" -> CancelHeard(d, n.ride)
      [] n.what = "panic"     -> IF d.ride = n.ride THEN Alarmed(d) ELSE d

Hears ==
    /\ news # <<>>
    /\ driver' = Told(driver, Head(news))
    /\ news' = Tail(news)
    /\ UNCHANGED <<job, deal, fetches>>

--------------------------------------------------------------------------------
(* Riders, other drivers, the operator.                                        *)

News(what, r) == news' = Append(news, [what |-> what, ride |-> r])

ToRoom(what, r) ==
    IF driver.socket /\ driver.room = r THEN News(what, r) ELSE UNCHANGED news

\* A frame of a new request; bounded: one on its way.
Offers(r) ==
    /\ driver.socket /\ job[r] = "requested" /\ r \notin driver.pending /\ news = <<>>
    /\ News("request", r)
    /\ UNCHANGED <<job, deal, driver, fetches>>

OtherTakes(r) ==
    /\ deal[r] = "waiting" /\ job[r] = "requested"
    /\ deal' = [deal EXCEPT ![r] = "other"]
    /\ job' = [job EXCEPT ![r] = "other"]
    /\ UNCHANGED <<driver, fetches, news>>

RiderCancels(r) ==
    /\ job[r] \in {"requested", "matched", "arrived", "active"}
    /\ job' = [job EXCEPT ![r] = "cancelled"]
    /\ deal' = [deal EXCEPT ![r] = IF @ = "waiting" THEN "other" ELSE "closed"]
    /\ ToRoom("cancelled", r)
    /\ UNCHANGED <<driver, fetches>>

RiderAlarms(r) ==
    /\ job[r] \in {"matched", "arrived", "active"} /\ news = <<>>
    /\ driver.room = r /\ ~driver.halted
    /\ ToRoom("panic", r)
    /\ UNCHANGED <<job, deal, driver, fetches>>

DriverNext ==
    \/ \E r \in Ride : \/ AcceptRide(r) \/ Decline(r)
                       \/ Offers(r) \/ OtherTakes(r) \/ RiderCancels(r) \/ RiderAlarms(r)
    \/ ConfirmStake \/ MarkArrived \/ StartTrip \/ CompleteRide \/ CompletionDue \/ Alert
    \/ FetchEnds \/ FetchFails \/ RouteEnds
    \/ GoOnline \/ GoOffline \/ DriverSocketLost \/ Reconnects \/ Hears

\* Timers fire and fetches end; nobody has to press anything.
DriverFairness ==
    WF_driverVars(RouteEnds) /\ WF_driverVars(CompletionDue) /\ WF_driverVars(FetchEnds)

DriverSpec == DriverInit /\ [][DriverNext]_driverVars /\ DriverFairness

--------------------------------------------------------------------------------
(* Properties.                                                                 *)

\* A stake is asked for, and paid, only for a ride whose session this driver holds or
\* held: never for one another driver has, whichever accepts are under way and in
\* whatever order they are answered (acceptRide and confirmDriverStake of driver-app.js).
StakesOwnRide ==
    driver.due /\ driver.ride # NoRide =>
        deal[driver.ride] \in {"accepted", "staked", "closed"}

TakingUp == \E c \in BagToSet(fetches) : c.kind \in {"accept", "stake", "job"}

\* A trip under way to its drop-off ends at the operator though the driver touches
\* nothing, unless an alarm halts the page, the driver goes offline, or the page has
\* come to show another ride or none (promptCompletion and finishRide).  An accept or
\* a stake still unanswered can send the page back to a pickup, and is left out.
DropOffEnds ==
    \A r \in Ride :
        (driver.ride = r /\ driver.moving = "dropoff" /\ ~TakingUp)
            ~> (job[r] # "active" \/ driver.ride # r \/ driver.halted \/ ~driver.online)
================================================================================
