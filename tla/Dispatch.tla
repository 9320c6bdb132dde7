------------------------------- MODULE Dispatch -------------------------------
(***************************************************************************)
(* How one request reaches the drivers who may take it, and how it is      *)
(* closed when nobody does: dispatch in server.js (broadcast, push, replay *)
(* at registration, the open list, the widening and scheduled sweeps, the  *)
(* gates of accept), push.js, operator-policy.js, and the driver's app     *)
(* (web/src/services/dispatch.ts).                                         *)
(*                                                                         *)
(* A tick is SCHEDULE_SWEEP_MS, which is also REQUEST_RETRY_MS.  A need is *)
(* what a request asks of its driver, and a claim what a driver declares:  *)
(* "woman", "access", "class", and "licence" for the operator's admission. *)
(* A driver's distance is the number of widenings after which the request  *)
(* reaches them.  Wording, destination mode, declined jobs, jobs of other  *)
(* operators, a driver's own wish for women only (her app applies it too)  *)
(* and a driver who changes what they declare are left out; after a        *)
(* restart the server has no database but its relay snapshots.             *)
(***************************************************************************)
EXTENDS Naturals

CONSTANTS
    Driver,
    App,          \* drivers whose app takes part; the others only accept
    Profiles,     \* what the drivers may be: [claims, distance] of each
    Ask,          \* requests that may be made: [needs, preferred, scheduled]
    Required,     \* claims the operator admits no driver without
    Strict,       \* STRICT_DISPATCH
    MaxReach,     \* widenings until DISPATCH_RADIUS_MAX_KM
    HeadStart,    \* FAVOURITE_HEAD_START_MS in ticks
    ExpireAfter,  \* REQUEST_EXPIRE_MS in ticks
    LeadOpens,    \* when the lead window of a scheduled request opens
    GraceEnds     \* when its grace after the pickup time ends

Need == {"woman", "access", "class"}

ASSUME DispatchAssumption ==
    /\ App \subseteq Driver
    /\ Profiles \subseteq
            [Driver -> [claims: SUBSET (Need \cup {"licence"}), distance: Nat]]
    /\ Ask \subseteq [needs: SUBSET Need, preferred: SUBSET Driver, scheduled: BOOLEAN]
    /\ \A a \in Ask : a.scheduled => a.preferred = {}
    /\ Strict \in BOOLEAN
    /\ {MaxReach, HeadStart, ExpireAfter, LeadOpens, GraceEnds} \subseteq Nat
    /\ HeadStart < ExpireAfter /\ LeadOpens < GraceEnds

VARIABLES
    profile,  \* profile[d]: what the app of driver d declares, and where d is
    job,      \* the request, as the server has it
    asked,    \* the request, as the rider made it
    due,      \* the sweep of this tick has yet to run
    presence, \* presence[d]: driverPresence, claims and whether within its TTL
    push,     \* push[d]: the push service has a subscription
    app,      \* app[d]: "off" shift, "away" (no socket) or "on"
    list,     \* list[d]: the job is in the app's available jobs
    rung,     \* rung[d]: the driver was sent the job, live or by push
    poll      \* poll[d]: the answer under way to the app's poll of open jobs

server  == <<profile, job, asked, due>>
drivers == <<presence, push, app, list, rung, poll>>
vars    == <<server, drivers>>

NoPresence == [claims |-> {}, live |-> FALSE]

Claims(d)   == profile[d].claims
Distance(d) == profile[d].distance

Init ==
    /\ profile \in Profiles
    /\ job = [status |-> "none", needs |-> {}, preferred |-> {}, scheduled |-> FALSE,
              clock |-> 0, expanded |-> FALSE, reach |-> 0, dispatched |-> FALSE,
              reminded |-> FALSE, driver |-> {}]
    /\ asked = job
    /\ due = FALSE
    /\ presence = [d \in Driver |-> NoPresence]
    /\ push = [d \in Driver |-> FALSE]
    /\ app  = [d \in Driver |-> "off"]
    /\ list = [d \in Driver |-> FALSE]
    /\ rung = [d \in Driver |-> FALSE]
    /\ poll = [d \in Driver |-> "none"]

-------------------------------------------------------------------------------
(* Who may hear of a job. *)

Requested == job.status = "requested"

\* getDriverPresence: what is known of a driver, nothing once it is stale.
Known(d) == IF presence[d].live THEN presence[d].claims ELSE {}

GenderEligible(claims, j) == "woman" \in j.needs => "woman" \in claims
AccessEligible(claims, j) == "access" \in j.needs => "access" \in claims
OptionEligible(claims, j) == "class" \in j.needs => "class" \in claims

Eligible(claims, j) ==
    GenderEligible(claims, j) /\ AccessEligible(claims, j) /\ OptionEligible(claims, j)

InFavouriteWindow(j) ==
    j.preferred # {} /\ j.clock < HeadStart /\ j.driver = {}

FavouriteEligible(d, j) == InFavouriteWindow(j) => d \in j.preferred

\* evaluateDriverAdmission.
Admitted(d) == Required \subseteq Claims(d)

\* A registered dispatch socket.
Registered(d) == app[d] = "on" /\ Admitted(d)

\* driverInRange: working areas, position, or the drop-off of a job that is
\* nearly done, whichever is nearest, are in Distance.
InRange(d, reach) == IF presence[d].live THEN Distance(d) <= reach ELSE ~Strict

\* broadcastToDrivers.
Hears(d, j) ==
    /\ Registered(d)
    /\ InRange(d, j.reach)
    /\ Eligible(Known(d), j)
    /\ FavouriteEligible(d, j)

\* pushRideRequestToOfflineDrivers.  A subscription carries no access features
\* and, as the app makes it, no service classes.
Pushed(d, j) ==
    /\ push[d] /\ ~Registered(d)
    /\ Distance(d) <= j.reach
    /\ Eligible(Claims(d) \cap {"woman"}, j)
    /\ FavouriteEligible(d, j)

\* A live frame to open sockets and a push to everybody else.
Dispatched(j) ==
    /\ list' = [d \in Driver |-> list[d] \/ Hears(d, j)]
    /\ rung' = [d \in Driver |-> rung[d] \/ Hears(d, j) \/ Pushed(d, j)]

BeforeLead(j) == j.scheduled /\ j.clock < LeadOpens

\* sendPendingRideRequests, to a driver whose presence was just registered: at
\* the first radius, however far the search has got.
Replayed(d, j) ==
    /\ Admitted(d) /\ j.status = "requested"
    /\ Distance(d) <= 0
    /\ Eligible(Claims(d), j)
    /\ FavouriteEligible(d, j)
    /\ ~BeforeLead(j)

Listed_DuringHeadStart(d) ==
    Requested /\ Distance(d) <= 0 /\ Eligible(Claims(d), job)

\* GET /api/rides/open, asked with what the app declares; admission and presence
\* are not looked at.
Listed(d) ==
    /\ Requested
    /\ Distance(d) <= 0
    /\ Eligible(Claims(d), job)
    /\ FavouriteEligible(d, job)

-------------------------------------------------------------------------------
(* The rider. *)

Request ==
    /\ job.status = "none"
    /\ \E a \in Ask :
        LET j == [job EXCEPT !.status = "requested", !.needs = a.needs,
                             !.preferred = a.preferred, !.scheduled = a.scheduled,
                             !.dispatched = ~(a.scheduled /\ 0 < LeadOpens)]
        IN /\ job' = j
           /\ asked' = j
           /\ IF j.dispatched THEN Dispatched(j) ELSE UNCHANGED <<list, rung>>
    /\ UNCHANGED <<profile, due, presence, push, app, poll>>

\* The rider cancels, or the ride goes on past matched and en_route.
Leaves ==
    /\ job.status \in {"requested", "taken"}
    /\ job' = [job EXCEPT !.status = "gone"]
    /\ UNCHANGED <<profile, asked, due, drivers>>

-------------------------------------------------------------------------------
(* Accept. *)

\* What the body declares, and else the presence.
Claimed(d, claim) == claim \in Claims(d) \/ claim \in Known(d)

MayAccept(d) ==
    /\ \A claim \in job.needs : Claimed(d, claim)
    /\ FavouriteEligible(d, job)
    /\ Admitted(d)

\* From the list, an alert, or a page still open: the gates are all there is.
Accept(d) ==
    /\ Requested
    /\ MayAccept(d)
    /\ job' = [job EXCEPT !.status = "taken", !.driver = {d}]
    /\ list' = [list EXCEPT ![d] = FALSE]
    /\ UNCHANGED <<profile, asked, due, presence, push, app, rung, poll>>

\* Too late: the app drops the job.
AcceptLost(d) ==
    /\ list[d] /\ ~Requested
    /\ list' = [list EXCEPT ![d] = FALSE]
    /\ UNCHANGED <<server, presence, push, app, rung, poll>>

-------------------------------------------------------------------------------
(* The sweep. *)

Last == (IF job.scheduled THEN GraceEnds ELSE ExpireAfter) + 1

Tick ==
    /\ ~due
    /\ job.status \in {"requested", "taken"}
    /\ job' = [job EXCEPT !.clock = IF @ < Last THEN @ + 1 ELSE @]
    /\ due' = TRUE
    /\ UNCHANGED <<profile, asked, drivers>>

Expires_Immediate(j) ==
    ~j.scheduled /\ ~InFavouriteWindow(j) /\ j.clock >= ExpireAfter

\* Nobody came.
Expires(j) ==
    IF j.scheduled THEN j.clock > GraceEnds
                   ELSE ~InFavouriteWindow(j) /\ j.clock >= ExpireAfter

\* The head start has lapsed with nobody committed.
OpensToAll(j) ==
    j.preferred # {} /\ ~j.expanded /\ j.clock >= HeadStart /\ j.driver = {}

Wider(j) == [j EXCEPT !.reach = IF @ < MaxReach THEN @ + 1 ELSE @]

\* One pass of the sweep over a request.  A retry is due REQUEST_RETRY_MS after
\* the last: a timer a little early leaves it to the next tick.
SweepRequested ==
    LET opened == IF OpensToAll(job) THEN [job EXCEPT !.expanded = TRUE] ELSE job
        enters == job.scheduled /\ ~job.dispatched /\ ~BeforeLead(job)
        rings(j) == job' = j /\ Dispatched(j)
        quiet    == job' = opened /\ (IF OpensToAll(job) THEN Dispatched(opened)
                                                         ELSE UNCHANGED <<list, rung>>)
    IN /\ Requested
       /\ IF Expires(job) THEN /\ job' = [opened EXCEPT !.status = "gone"]
                               /\ IF OpensToAll(job) THEN Dispatched(opened)
                                                     ELSE UNCHANGED <<list, rung>>
          ELSE IF job.scheduled
                 THEN IF enters THEN rings([job EXCEPT !.dispatched = TRUE]) ELSE quiet
          ELSE \/ ~InFavouriteWindow(job) /\ rings(Wider(opened))
               \/ quiet

\* Both parties of a pre-booked ride are reminded once.
SweepTaken ==
    /\ job.status = "taken"
    /\ job' = [job EXCEPT !.reminded = @ \/ (job.scheduled /\ ~BeforeLead(job))]
    /\ UNCHANGED <<list, rung>>

SweepNothing ==
    /\ job.status \notin {"requested", "taken"}
    /\ UNCHANGED <<job, list, rung>>

Sweep ==
    /\ due
    /\ due' = FALSE
    /\ SweepRequested \/ SweepTaken \/ SweepNothing
    /\ UNCHANGED <<profile, asked, presence, push, app, poll>>

-------------------------------------------------------------------------------
(* The driver's app and its socket. *)

GoOnline(d) ==
    /\ app[d] = "off"
    /\ app' = [app EXCEPT ![d] = "away"]
    /\ push' = [push EXCEPT ![d] = TRUE]
    /\ UNCHANGED <<server, presence, list, rung, poll>>

\* The list is cleared; a poll under way is not called off.
GoOffline(d) ==
    /\ app[d] # "off"
    /\ app' = [app EXCEPT ![d] = "off"]
    /\ push' = [push EXCEPT ![d] = FALSE]
    /\ list' = [list EXCEPT ![d] = FALSE]
    /\ UNCHANGED <<server, presence, rung, poll>>

UpdateDriverPresence(d, claims) ==
    presence' = [presence EXCEPT ![d] = [claims |-> claims, live |-> TRUE]]

\* register_driver: the presence is what the app declares now, and waiting jobs
\* are replayed.
RegisterDriver(d) ==
    /\ IF Admitted(d) THEN UpdateDriverPresence(d, Claims(d)) ELSE UNCHANGED presence
    /\ list' = [list EXCEPT ![d] = @ \/ Replayed(d, job)]
    /\ rung' = [rung EXCEPT ![d] = @ \/ Replayed(d, job)]

Connect(d) ==
    /\ app[d] = "away"
    /\ app' = [app EXCEPT ![d] = "on"]
    /\ push' = [push EXCEPT ![d] = TRUE]
    /\ RegisterDriver(d)
    /\ UNCHANGED <<server, poll>>

\* The app comes back to the screen and registers anew.
Revive(d) ==
    /\ app[d] = "on"
    /\ RegisterDriver(d)
    /\ UNCHANGED <<server, app, push, poll>>

Disconnect(d) ==
    /\ app[d] = "on"
    /\ app' = [app EXCEPT ![d] = "away"]
    /\ UNCHANGED <<server, presence, push, list, rung, poll>>

\* driver_location, every half minute: it declares no access features, which the
\* server takes for a declaration of none.
DriverLocation(d) ==
    /\ app[d] = "on"
    /\ UpdateDriverPresence(d, presence[d].claims \ {"access"})
    /\ UNCHANGED <<server, push, app, list, rung, poll>>

\* Two minutes without a frame; after ten, presenceSweep forgets the driver.
PresenceLapses(d) ==
    /\ presence[d] # NoPresence
    /\ presence' = [presence EXCEPT ![d] =
                       IF @.live THEN [@ EXCEPT !.live = FALSE] ELSE NoPresence]
    /\ UNCHANGED <<server, push, app, list, rung, poll>>

\* The push service answers 404 or 410.
SubscriptionEnds(d) ==
    /\ push[d]
    /\ push' = [push EXCEPT ![d] = FALSE]
    /\ UNCHANGED <<server, presence, app, list, rung, poll>>

\* refreshOpenTasks: the server answers with what is open at that moment.
Poll(d) ==
    /\ app[d] = "on" /\ poll[d] = "none"
    /\ poll' = [poll EXCEPT ![d] = IF Listed(d) THEN "with" ELSE "without"]
    /\ UNCHANGED <<server, presence, push, app, list, rung>>

PollEnds_Added(d) ==
    /\ poll[d] # "none"
    /\ list' = [list EXCEPT ![d] = @ \/ poll[d] = "with"]
    /\ poll' = [poll EXCEPT ![d] = "none"]
    /\ UNCHANGED <<server, presence, push, app, rung>>

\* The list is replaced by the answer, also by one overtaken by later frames.
PollEnds(d) ==
    /\ poll[d] # "none"
    /\ list' = [list EXCEPT ![d] = (poll[d] = "with")]
    /\ poll' = [poll EXCEPT ![d] = "none"]
    /\ UNCHANGED <<server, presence, push, app, rung>>

PollFails(d) ==
    /\ poll[d] # "none"
    /\ poll' = [poll EXCEPT ![d] = "none"]
    /\ UNCHANGED <<server, presence, push, app, list, rung>>

-------------------------------------------------------------------------------
(* A restart of the server: presence, subscriptions and sockets are gone, and  *)
(* the task comes back from its snapshot, which tells no public relay what the *)
(* rider needs or prefers.                                                     *)

Restart ==
    /\ job' = IF job.status = "gone" THEN job
              ELSE [job EXCEPT !.needs = {}, !.preferred = {}, !.expanded = FALSE,
                               !.reach = 0, !.dispatched = FALSE, !.reminded = FALSE]
    /\ presence' = [d \in Driver |-> NoPresence]
    /\ push' = [d \in Driver |-> FALSE]
    /\ app' = [d \in Driver |-> IF app[d] = "on" THEN "away" ELSE app[d]]
    /\ UNCHANGED <<profile, asked, due, list, rung, poll>>

-------------------------------------------------------------------------------
Next ==
    \/ Request \/ Leaves \/ Tick \/ Sweep \/ Restart
    \/ \E d \in Driver : Accept(d)
    \/ \E d \in App :
        \/ AcceptLost(d)
        \/ GoOnline(d) \/ GoOffline(d) \/ Connect(d) \/ Revive(d) \/ Disconnect(d)
        \/ DriverLocation(d) \/ PresenceLapses(d) \/ SubscriptionEnds(d)
        \/ Poll(d) \/ PollEnds(d) \/ PollFails(d)

Spec == Init /\ [][Next]_vars

\* Timers fire, and an app that goes on polling is answered in the end.
LiveSpec ==
    /\ Spec
    /\ WF_vars(Tick) /\ WF_vars(Sweep)
    /\ \A d \in App : WF_vars(Poll(d)) /\ SF_vars(PollEnds(d))

-------------------------------------------------------------------------------
(* Properties. *)

TypeOK ==
    /\ profile \in Profiles
    /\ job.status \in {"none", "requested", "taken", "gone"}
    /\ job.needs \subseteq Need /\ job.preferred \subseteq Driver
    /\ job.clock \in 0..Last /\ job.reach \in 0..MaxReach
    /\ due \in BOOLEAN
    /\ presence \in [Driver -> [claims: SUBSET (Need \cup {"licence"}), live: BOOLEAN]]
    /\ app \in [Driver -> {"off", "away", "on"}]
    /\ poll \in [Driver -> {"none", "with", "without"}]
    /\ \A d \in Driver : {push[d], list[d], rung[d]} \subseteq BOOLEAN

\* The server still has what the rider asked for: it has not restarted since.
Kept == job.needs = asked.needs /\ job.preferred = asked.preferred

Told(d) == list[d] \/ rung[d] \/ poll[d] = "with"

\* On every way a job reaches a driver (live frame, push, replay, open list), and
\* however stale what the server knows of the driver: a driver who lacks what the
\* rider needs is not told of the job, nobody but the rider's favourites is
\* during their head start, and nobody is called to a pre-booked job before its
\* lead window.  Whoever the gates would let take the job declared all the rider
\* asked for and is admitted, and during the head start is one of the favourites,
\* unless the server restarted since.
OfferedAsAsked ==
    (Requested /\ Kept) => \A d \in Driver :
        /\ Told(d) => job.needs \subseteq Claims(d)
        /\ Told(d) /\ InFavouriteWindow(job) => d \in job.preferred
        /\ rung[d] => ~BeforeLead(job)
        /\ MayAccept(d) =>
              /\ asked.needs \cup Required \subseteq Claims(d)
              /\ asked.preferred # {} /\ job.clock < HeadStart => d \in asked.preferred

\* No request is left unanswered: it is taken, cancelled, or closed by the sweep,
\* across head starts, lead windows and restarts.
AnsweredInTheEnd == Requested ~> ~Requested

\* A job that is taken or over leaves the list of every driver who stays
\* connected, though frames and answers of polls overtake each other.
OverLeavesList ==
    \A d \in App :
        (list[d] /\ app[d] = "on" /\ ~Requested)
            ~> ~(list[d] /\ app[d] = "on")

===============================================================================
