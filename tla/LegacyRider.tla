------------------------------ MODULE LegacyRider ------------------------------
(***************************************************************************)
(* The stand-alone rider page (public/rider-app.js) against an operator    *)
(* whose rides and sessions move on by themselves.  The page keeps one     *)
(* ride in memory and its id in storage, hears of it only on a socket it   *)
(* never reopens, and watches over the rider during the trip: every two    *)
(* minutes it asks, and an unanswered question raises the alarm.           *)
(*                                                                         *)
(* A handler runs to its fetch, and goes on when the fetch has answered,   *)
(* with whatever the page holds by then.  told is how the ride stands to   *)
(* the page; alarm, that an alert was raised or heard since it last began  *)
(* to watch.  The page is not used before its restore is answered.         *)
(***************************************************************************)
EXTENDS LegacyPages, Sequences, FiniteSets

CONSTANT MaxReloads  \* bound: reloads of the page

ASSUME LegacyRiderAssumption == MaxReloads \in Nat

VARIABLES
    trip,    \* the operator's rides
    session, \* the operator's sessions
    page,    \* what the page holds
    calls,   \* fetches the operator has answered, the answer on its way
    frames,  \* frames on their way, in the order sent
    reloads  \* reloads so far

riderVars == <<trip, session, page, calls, frames, reloads>>

Under == {"requested", "matched", "arrived", "active"}

\* resetRide, and the page as it is loaded.
Blank(stored) ==
    [ ride |-> NoRide, stage |-> "none", stored |-> stored, told |-> "nothing",
      buttons |-> {"request"}, socket |-> "none", closing |-> FALSE,
      mode |-> "idle", check |-> FALSE, reply |-> FALSE, alarm |-> FALSE ]

Reset(p) == [Blank(NoRide) EXCEPT !.closing = p.closing]

RiderInit ==
    /\ trip = [r \in Ride |-> "none"]
    /\ session = [r \in Ride |-> "none"]
    /\ page = Blank(NoRide)
    /\ calls = {}
    /\ frames = <<>>
    /\ reloads = 0

--------------------------------------------------------------------------------
(* Watching over the rider.                                                    *)

\* clearSafetyTimers
Untimed(p) == [p EXCEPT !.check = FALSE, !.reply = FALSE]

\* scheduleSafetyCheck
Scheduled(p) == IF p.mode = "active" THEN [p EXCEPT !.check = TRUE] ELSE p

Standby(p)   == [Untimed(p) EXCEPT !.mode = "standby"]
Monitored(p) == Scheduled([p EXCEPT !.mode = "active", !.alarm = FALSE])
Unwatched(p) == [Untimed(p) EXCEPT !.mode = "idle"]

Prompted_AsksAgain(p) == [p EXCEPT !.check = p.mode = "active"]

\* promptSafetyCheck
Prompted(p) ==
    IF p.mode = "active" THEN [p EXCEPT !.check = FALSE, !.reply = TRUE]
                         ELSE [p EXCEPT !.check = FALSE]

--------------------------------------------------------------------------------
(* Fetches.                                                                    *)

Answer(kind, r, ok) ==
    [ kind |-> kind, ride |-> r, ok |-> ok,
      saw |-> IF kind = "restore" THEN trip[r] ELSE "none" ]

Call(kind, r, ok) == calls' = calls \cup {Answer(kind, r, ok)}

Calling(kind) == \E c \in calls : c.kind = kind

May(kind) == Cardinality(calls) < MaxCalls /\ kind \in page.buttons

Pressed(kind) == page' = [page EXCEPT !.buttons = @ \ {kind}]

\* Frames reach the page while its socket watches the ride.
Tell(r, what) ==
    frames' = IF page.socket = "open" /\ page.ride = r THEN Append(frames, what) ELSE frames

Become(r, status) == trip' = [trip EXCEPT ![r] = status]

\* requestRide: the estimate and the session under a new id.
RequestRide(r) ==
    /\ May("request")
    /\ page.stage \notin {"waiting_rider_payment", "searching"}
    /\ ~Calling("restore")
    /\ session[r] = "none" /\ trip[r] = "none"
    /\ Pressed("request")
    /\ session' = [session EXCEPT ![r] = "open"]
    /\ Call("session", r, TRUE)
    /\ UNCHANGED <<trip, frames, reloads>>

\* confirmStakePayment.  A stake locked before is refused.
PayStake ==
    LET r == page.ride IN
    /\ page.ride # NoRide /\ May("stake")
    /\ Pressed("stake")
    /\ session' = [session EXCEPT ![r] = IF @ = "open" THEN "staked" ELSE @]
    /\ Call("stake", r, session[r] = "open")
    /\ UNCHANGED <<trip, frames, reloads>>

\* The session is closed, and the ride with it; what is over or unknown already
\* closes the page all the same.
CancelRide ==
    LET r == page.ride IN
    /\ page.ride # NoRide /\ May("cancel")
    /\ page' = [page EXCEPT !.buttons = @ \ {"cancel", "stake"}]
    /\ session' = [session EXCEPT ![r] = "closed"]
    /\ trip' = IF trip[r] \in Under THEN [trip EXCEPT ![r] = "cancelled"] ELSE trip
    /\ IF session[r] # "closed" THEN Tell(r, "cancelled") ELSE UNCHANGED frames
    /\ Call("cancel", r, TRUE)
    /\ UNCHANGED reloads

\* completeSafetyCheck: the button, or the answer to the question.
CheckIn ==
    /\ page.ride # NoRide /\ page.told # "nothing"
    /\ Cardinality(calls) < MaxCalls
    /\ page' = [page EXCEPT !.reply = FALSE]
    /\ Call("check", page.ride, TRUE)
    /\ UNCHANGED <<trip, session, frames, reloads>>

\* triggerPanic: no more is asked, whether the alert gets through or not.
Panics ==
    /\ page' = [Unwatched(page) EXCEPT !.alarm = TRUE]
    /\ Call("panic", page.ride, TRUE)
    /\ Tell(page.ride, "panic")
    /\ UNCHANGED <<trip, session, reloads>>

\* By hand; bounded: not again before the page watches anew.
Panic ==
    /\ page.ride # NoRide /\ page.told # "nothing"
    /\ ~page.alarm /\ Cardinality(calls) < MaxCalls
    /\ Panics

CheckDue ==
    /\ page.check
    /\ page' = Prompted(page)
    /\ UNCHANGED <<trip, session, calls, frames, reloads>>

\* Twenty seconds without an answer.
NoReply == page.reply /\ Panics

--------------------------------------------------------------------------------
(* Answers.                                                                    *)

Subscribing(p) == [p EXCEPT !.socket = "connecting"]

Sessioned(p, c) ==
    IF c.ok THEN [p EXCEPT !.ride = c.ride, !.stage = "waiting_rider_payment",
                           !.buttons = @ \cup {"stake", "cancel"}]
            ELSE [p EXCEPT !.buttons = @ \cup {"request"}]

\* Without a current ride the handler throws, and takes it for a failure.
Submitted(p, c) ==
    IF c.ok /\ p.ride # NoRide
      THEN Subscribing([p EXCEPT !.stage = "searching", !.stored = p.ride,
                                 !.buttons = (@ \cup {"cancel"}) \ {"stake"}])
      ELSE [p EXCEPT !.buttons = @ \cup {"stake"}]

Restored(p, c) ==
    LET now == c.saw
        found == Subscribing([p EXCEPT !.ride = c.ride, !.stage = now, !.stored = c.ride,
                                       !.buttons = @ \ {"request"}])
    IN IF ~c.ok \/ now \notin Under THEN [p EXCEPT !.stored = NoRide]
       ELSE CASE now = "requested" -> [found EXCEPT !.buttons = @ \cup {"cancel"}]
              [] now = "active" -> Monitored([Standby(found) EXCEPT !.told = "started"])
              [] OTHER -> [Standby(found) EXCEPT !.told = "matched"]

\* The next question is put off until this check-in has been answered.
CheckedIn(p) == Scheduled(p)

RiderAnswered(c) ==
    CASE c.kind = "session" -> Sessioned(page, c)
      [] c.kind = "stake"   -> [page EXCEPT !.buttons = @ \cup {"stake"}]
      [] c.kind = "submit"  -> Submitted(page, c)
      [] c.kind = "cancel" /\ c.ok -> Reset(page)
      [] c.kind = "cancel" /\ ~c.ok -> [page EXCEPT !.buttons = @ \cup {"cancel", "stake"}]
      [] c.kind = "check"   -> CheckedIn(page)
      [] c.kind = "restore" -> Restored(page, c)
      [] OTHER              -> page

\* confirmStakePayment goes on to submitRideRequest, of the ride now current.
Submits(c) ==
    LET r == page.ride IN
    /\ c.kind = "stake" /\ c.ok
    /\ calls' = (calls \ {c}) \cup
                   IF r = NoRide THEN {} ELSE {Answer("submit", r, trip[r] = "none")}
    /\ trip' = [s \in Ride |-> IF s = r /\ trip[s] = "none" THEN "requested" ELSE trip[s]]
    /\ UNCHANGED <<page, frames>>

\* A page that is reset closes its socket.
RiderReturns(c) ==
    /\ ~(c.kind = "stake" /\ c.ok)
    /\ calls' = calls \ {c}
    /\ page' = RiderAnswered(c)
    /\ frames' = IF page'.socket = "open" THEN frames ELSE <<>>
    /\ UNCHANGED trip

Answers ==
    /\ \E c \in calls : Submits(c) \/ RiderReturns(c)
    /\ UNCHANGED <<session, reloads>>

AnswerLost ==
    /\ \E c \in calls : c.ok /\ calls' = (calls \ {c}) \cup {[c EXCEPT !.ok = FALSE]}
    /\ UNCHANGED <<trip, session, page, frames, reloads>>

--------------------------------------------------------------------------------
(* The socket.                                                                 *)

Connected ==
    /\ page.socket = "connecting"
    /\ page' = [page EXCEPT !.socket = "open"]
    /\ UNCHANGED <<trip, session, calls, frames, reloads>>

RiderSocketLost ==
    /\ page.socket \in {"connecting", "open"}
    /\ page' = [page EXCEPT !.socket = "none"]
    /\ frames' = <<>>
    /\ UNCHANGED <<trip, session, calls, reloads>>

\* The ride is over; on a panic, only the watch for check-ins is.
Concluded(p) == [Unwatched(p) EXCEPT !.told = "over", !.stored = NoRide]
Panicked(p)  == [Unwatched(p) EXCEPT !.alarm = TRUE]

Heard(p, what) ==
    CASE what = "matched"   -> [Standby(p) EXCEPT !.told = "matched", !.buttons = @ \ {"cancel"}]
      [] what = "started"   -> Monitored([p EXCEPT !.told = "started"])
      [] what = "completed" -> Concluded(p)
      [] what = "cancelled" -> [Concluded(p) EXCEPT !.closing = TRUE]
      [] what = "panic"     -> Panicked(p)
      [] OTHER              -> p

Hear ==
    /\ frames # <<>>
    /\ page' = Heard(page, Head(frames))
    /\ frames' = Tail(frames)
    /\ UNCHANGED <<trip, session, calls, reloads>>

\* 400 ms after a cancellation was heard, whatever the page holds by then.
ResetDue ==
    /\ page.closing
    /\ page' = Blank(NoRide)
    /\ frames' = <<>>
    /\ UNCHANGED <<trip, session, calls, reloads>>

\* The completion panel is closed.
CloseReceipt ==
    /\ page.told = "over" /\ ~page.closing
    /\ page' = Reset(page)
    /\ frames' = <<>>
    /\ UNCHANGED <<trip, session, calls, reloads>>

Reload ==
    /\ reloads < MaxReloads
    /\ reloads' = reloads + 1
    /\ page' = Blank(page.stored)
    /\ calls' = IF page.stored = NoRide THEN {}
                ELSE {Answer("restore", page.stored, TRUE)}
    /\ frames' = <<>>
    /\ UNCHANGED <<trip, session>>

--------------------------------------------------------------------------------
(* The driver and the operator.                                                *)

OthersMove(r) ==
    /\ \/ trip[r] = "requested" /\ Become(r, "matched")   /\ Tell(r, "matched")
       \/ trip[r] = "matched"   /\ Become(r, "arrived")   /\ Tell(r, "arrived")
       \/ trip[r] = "arrived"   /\ Become(r, "active")    /\ Tell(r, "started")
       \/ trip[r] = "active"    /\ Become(r, "completed") /\ Tell(r, "completed")
       \/ trip[r] \in Under     /\ Become(r, "cancelled") /\ Tell(r, "cancelled")
    /\ UNCHANGED <<session, page, calls, reloads>>

RiderNext ==
    \/ \E r \in Ride : RequestRide(r) \/ OthersMove(r)
    \/ PayStake \/ CancelRide \/ CheckIn \/ Panic \/ CheckDue \/ NoReply
    \/ Answers \/ AnswerLost \/ Connected \/ RiderSocketLost \/ Hear
    \/ ResetDue \/ CloseReceipt \/ Reload

\* Timers of the page fire and fetches end; nothing else is promised.
RiderFairness ==
    WF_riderVars(CheckDue) /\ WF_riderVars(NoReply) /\ WF_riderVars(Answers)

RiderSpec == RiderInit /\ [][RiderNext]_riderVars /\ RiderFairness

--------------------------------------------------------------------------------
(* Properties.                                                                 *)

\* While the page says the trip is under way it watches: a question is due, asked,
\* or an answer to one is being recorded, unless an alarm was raised.  Before a trip
\* and after one it asks nothing, whichever answers come late (the safety timers of
\* rider-app.js, and the handlers that start and stop them).
Watched ==
    /\ page.told = "started" =>
         \/ page.alarm
         \/ page.mode = "active" /\ (page.check \/ page.reply \/ Calling("check"))
    /\ page.told # "started" => ~page.check /\ ~page.reply

\* Silence does not last: during a trip there is a check-in, or an alarm, in the end
\* (promptSafetyCheck and completeSafetyCheck of rider-app.js).
CheckedUpon ==
    page.told = "started" ~> (page.told # "started" \/ page.alarm \/ Calling("check"))
================================================================================
