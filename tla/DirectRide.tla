----------------------------- MODULE DirectRide -----------------------------
(***************************************************************************)
(* A ride without an operator: the rider's app and the drivers' apps       *)
(* coordinate over relays alone (web/src/services/direct-coordination.ts,  *)
(* the task context and the two ActiveTask pages that call it).            *)
(*                                                                         *)
(* Each app has the ride on its screen (activeTask, with its copy in       *)
(* session storage), an encrypted record of it in local storage, and a     *)
(* subscription that drops what is not newer than the last message it let  *)
(* through (lastAt).  Messages are encrypted events that relays store: the *)
(* set `mail' only grows, so a message is heard late, again, or out of     *)
(* order, and a new subscription hears everything afresh.                  *)
(*                                                                         *)
(* The times in messages are milliseconds; the clock here ticks with each  *)
(* state or cancel message, the only ones whose order is looked at, and    *)
(* the parties' clocks agree.  Itinerary, location and payment details of  *)
(* the task are left out.                                                  *)
(***************************************************************************)
EXTENDS DomainProfiles, Naturals

CONSTANTS
    Driver,
    Faults,    \* what may go wrong: some of Fault below
    MaxClock,  \* bound: state and cancel messages sent
    Rider,     \* the rider's key, as sender or recipient
    NoTask,    \* no task on the screen, or no record
    NoDriver,  \* providerPubkey undefined
    Idle       \* no request of the page in flight

VARIABLES
    announced, \* the public event: "none", "open" or "closed"
    listed,    \* drivers whose app shows the journey as available
    mail,      \* messages the relays hold
    clock,
    rider,     \* the rider's app
    driver     \* driver[d]: the app of driver d

vars == <<announced, listed, mail, clock, rider, driver>>

State    == StatesOf(Ridesharing)
Terminal == Ridesharing.terminal

\* The fields of a task the protocol depends on: at is the latest of its
\* arrivedAt, startedAt and completedAt, 0 when it has none.
Task == [status : State, provider : Driver \cup {NoDriver}, at : 0..MaxClock]

Message ==
    [ type : {"accept", "matched", "rejected", "state", "cancel"},
      from : Driver \cup {Rider}, to : Driver \cup {Rider},
      status : State, at : 0..MaxClock ]

\* What a driver's page awaits: the answer to an accept, or the relays' answer
\* to a lifecycle message; task is what it will store when that succeeds.
Work == [op : {"ask", "move", "cancel"}, task : Task \cup {NoTask}, acked : BOOLEAN]

RiderApp ==
    [ view : Task \cup {NoTask}, stored : Task \cup {NoTask},
      sub : {"none", "rendezvous", "both", "participant"},
      claimed : BOOLEAN, last : 0..MaxClock,
      cancel : {Idle} \cup [acked : BOOLEAN] ]

DriverApp ==
    [ view : Task \cup {NoTask}, stored : Task \cup {NoTask},
      sub : BOOLEAN, last : 0..MaxClock, work : Work \cup {Idle} ]

\* A message no relay takes, or takes without saying so; an announcement whose
\* closing is lost; a page reloaded, or its session lost.
Fault == {"lost", "unacked", "leftover", "reload", "restart"}

ASSUME DirectAssumption ==
    /\ Faults \subseteq Fault
    /\ MaxClock \in Nat
    /\ Rider \notin Driver
    /\ NoDriver \notin Driver
    /\ NoTask \notin Task
    /\ Idle \notin Work \cup [acked : BOOLEAN]

TypeOK ==
    /\ announced \in {"none", "open", "closed"}
    /\ listed \subseteq Driver
    /\ mail \subseteq Message
    /\ clock \in 0..MaxClock
    /\ rider \in RiderApp
    /\ driver \in [Driver -> DriverApp]

-----------------------------------------------------------------------------
(* The relays: publishToRelays answers how many of them took the event.    *)

\* An event is taken and acknowledged; or taken, with no answer in time; or
\* taken by nobody.
Outcome == {"acked"} \cup (Faults \cap {"lost", "unacked"})

Posted(m, o) == IF o = "lost" THEN mail ELSE mail \cup {m}

Tell(type, from, to, status, at) ==
    [type |-> type, from |-> from, to |-> to, status |-> status, at |-> at]

-----------------------------------------------------------------------------
(* Tasks.                                                                  *)

New == [status |-> "requested", provider |-> NoDriver, at |-> 0]

MatchedTo(d) == [status |-> "en_route", provider |-> d, at |-> 0]

\* A task after a lifecycle message: the three milestones are stamped.
Stamped(t, s, at) ==
    [ t EXCEPT !.status = s,
               !.at = IF s \in {"arrived", "active", "completed"} THEN at ELSE @ ]

Live(t) == t # NoTask /\ t.provider # NoDriver /\ t.status \notin Terminal

\* Mutant of Passes: no comparison with lastAt.
Passes_Any(m, last, self, other) == m.to = self /\ m.from = other

\* A participant's subscription lets a message of the other party through once,
\* and in order of time.
Passes(m, last, self, other) == m.to = self /\ m.from = other /\ m.at > last

\* The task a message makes of the one on the screen (other kinds change none).
After(t, m) ==
    CASE m.type = "state"  -> Stamped(t, m.status, m.at)
      [] m.type = "cancel" -> [t EXCEPT !.status = "cancelled"]
      [] OTHER             -> t

NoRider  == [ view |-> NoTask, stored |-> NoTask, sub |-> "none", claimed |-> FALSE,
              last |-> 0, cancel |-> Idle ]
NoDrive  == [ view |-> NoTask, stored |-> NoTask, sub |-> FALSE, last |-> 0,
              work |-> Idle ]

Init ==
    /\ announced = "none"
    /\ listed = {}
    /\ mail = {}
    /\ clock = 0
    /\ rider = NoRider
    /\ driver = [d \in Driver |-> NoDrive]

-----------------------------------------------------------------------------
(* The rider's app.                                                        *)

\* createDirectTask: the task is stored, then announced; when no relay answers,
\* the record and the rendezvous key are dropped, though a relay may have it.
Request ==
    /\ announced = "none"
    /\ \E o \in Outcome \ {"lost"} :
        /\ announced' = "open"
        /\ listed' = Driver
        /\ rider' = IF o = "acked"
                    THEN [rider EXCEPT !.view = New, !.stored = New, !.sub = "rendezvous"]
                    ELSE rider
    /\ UNCHANGED <<mail, clock, driver>>

\* Mutant of Refuses: the set of claimed tasks is not consulted.
Refuses_Never == FALSE

\* An accept heard after the claim is turned down, whoever sent it.
Refuses == rider.claimed

\* The closing is neither awaited nor retried.
Leftover == IF "leftover" \in Faults THEN {"open"} ELSE {}

\* The handler of the rendezvous subscription.  The first accept matches: the
\* task is stored (see Save), the announcement closed, the driver told, and a
\* second subscription opened beside the rendezvous.
HearAccept(d) ==
    /\ rider.sub \in {"rendezvous", "both"}
    /\ \E m \in mail : m.type = "accept" /\ m.from = d
    /\ \E o \in Outcome :
        IF Refuses
        THEN /\ mail' = Posted(Tell("rejected", Rider, d, "requested", clock), o)
             /\ UNCHANGED <<announced, rider>>
        ELSE /\ mail' = Posted(Tell("matched", Rider, d, "en_route", clock), o)
             /\ announced' \in {"closed"} \cup Leftover
             /\ rider' = [ rider EXCEPT !.claimed = TRUE, !.view = MatchedTo(d),
                                        !.sub = "both", !.last = 0 ]
    /\ UNCHANGED <<listed, clock, driver>>

\* saveDirectTask, started with every change of the task on the screen.
RiderSaves ==
    /\ rider.view # NoTask
    /\ rider.stored # rider.view
    /\ rider' = [rider EXCEPT !.stored = rider.view]
    /\ UNCHANGED <<announced, listed, mail, clock, driver>>

\* Mutant of Resubscribe: lastAt starts at the time of subscribing.
Resubscribe_Now ==
    /\ rider.sub = "both"
    /\ rider' = [rider EXCEPT !.sub = "participant", !.last = clock]
    /\ UNCHANGED <<announced, listed, mail, clock, driver>>

\* The page subscribes anew once the task has a provider: the rendezvous is
\* closed, and lastAt is read off the task.
Resubscribe ==
    /\ rider.sub = "both"
    /\ rider' = [rider EXCEPT !.sub = "participant", !.last = rider.view.at]
    /\ UNCHANGED <<announced, listed, mail, clock, driver>>

\* A state or cancel message of the matched driver; an end other than a
\* cancellation leaves the page, and its subscription with it.
RiderHears(m) ==
    /\ rider.sub \in {"both", "participant"}
    /\ Passes(m, rider.last, Rider, rider.view.provider)
    /\ LET t == After(rider.view, m)
       IN  rider' = [ rider EXCEPT
                        !.view = t,
                        !.last = m.at,
                        !.sub  = IF t.status \in Terminal \ {"cancelled"}
                                 THEN "none" ELSE @ ]
    /\ UNCHANGED <<announced, listed, mail, clock, driver>>

\* reset(): the screen, the session and the record are cleared.
Cleared(app, closed) == [app EXCEPT !.view = NoTask, !.stored = NoTask, !.sub = closed]

\* cancelDirectTask works from the stored record: it tells the provider the
\* record names or, when it names none, closes the announcement.
RiderCancel ==
    /\ rider.cancel = Idle
    /\ rider.view # NoTask /\ rider.sub # "none"
    /\ rider.view.status \notin Terminal \cup {"active"}
    /\ \E o \in Outcome :
        /\ IF rider.stored.provider # NoDriver
           THEN /\ clock < MaxClock
                /\ clock' = clock + 1
                /\ mail' = Posted(Tell("cancel", Rider, rider.stored.provider,
                                       "cancelled", clock + 1), o)
                /\ UNCHANGED announced
           ELSE /\ announced' = IF o = "lost" THEN announced ELSE "closed"
                /\ UNCHANGED <<mail, clock>>
        /\ rider' = [rider EXCEPT !.cancel = [acked |-> o = "acked"]]
    /\ UNCHANGED <<listed, driver>>

\* With an acknowledgement the page resets; without one the ride stays.
RiderCancelEnds ==
    /\ rider.cancel # Idle
    /\ rider' = [ IF rider.cancel.acked THEN Cleared(rider, "none") ELSE rider
                  EXCEPT !.cancel = Idle ]
    /\ UNCHANGED <<announced, listed, mail, clock, driver>>

\* "Done" on the screen of a ride that ended.
RiderDone ==
    /\ rider.view # NoTask /\ rider.view.status \in Terminal
    /\ rider' = Cleared(rider, "none")
    /\ UNCHANGED <<announced, listed, mail, clock, driver>>

\* The page is reloaded, with no save in flight: what the module kept in memory
\* is gone, the session names the task and its record is adopted, unless ended.
RiderReloads ==
    /\ "reload" \in Faults
    /\ rider.view # NoTask /\ rider.stored = rider.view
    /\ LET t == rider.stored
           fresh == [rider EXCEPT !.claimed = FALSE, !.cancel = Idle]
       IN  rider' = IF t.status \in Terminal
                    THEN Cleared(fresh, "none")
                    ELSE [ fresh EXCEPT !.last = t.at,
                             !.sub = IF t.provider = NoDriver
                                     THEN "rendezvous" ELSE "participant" ]
    /\ UNCHANGED <<announced, listed, mail, clock, driver>>

\* The session is gone too: the boot effect asks for the participant's active
\* task, is told there is none in this mode, and forgets the stored id.
RiderRestarts ==
    /\ "restart" \in Faults
    /\ rider.view # NoTask
    /\ rider' = [NoRider EXCEPT !.stored = rider.stored]
    /\ UNCHANGED <<announced, listed, mail, clock, driver>>

-----------------------------------------------------------------------------
(* The app of driver d.                                                    *)

Updated(d, app) ==
    /\ driver' = [driver EXCEPT ![d] = app]
    /\ UNCHANGED <<announced, rider>>

\* Mutant of Delivered: a failed delivery does not throw.
Delivered_Anyway(d) == TRUE

\* publishMessage throws when no relay took the recipient's copy.
Delivered(d) == driver[d].work.acked

\* acceptDirectTask from the offer's page: an accept to the rendezvous key, with
\* a subscription for the answer already open.
Ask(d) ==
    /\ d \in listed
    /\ driver[d].work = Idle
    /\ driver[d].view \in {NoTask, New}
    /\ \E o \in Outcome :
        /\ mail' = Posted(Tell("accept", d, Rider, "requested", 0), o)
        /\ Updated(d, [ driver[d] EXCEPT !.view = New,
                          !.work = [op |-> "ask", task |-> NoTask, acked |-> o = "acked"] ])
    /\ UNCHANGED <<listed, clock>>

Awaits(d, op) == driver[d].work # Idle /\ driver[d].work.op = op

\* The rider's match, this one's or one it sent to this driver before.
AskMatched(d) ==
    /\ Awaits(d, "ask") /\ Delivered(d)
    /\ \E m \in mail : m.type = "matched" /\ m.to = d
    /\ listed' = listed \ {d}
    /\ Updated(d, [ driver[d] EXCEPT !.view = MatchedTo(d), !.stored = MatchedTo(d),
                                     !.sub = TRUE, !.last = 0, !.work = Idle ])
    /\ UNCHANGED <<mail, clock>>

\* Back to the dashboard: turned down, no answer in 15 seconds, or no relay
\* took the accept.  The journey stays on the list.
AskFails(d) ==
    /\ Awaits(d, "ask")
    /\ Updated(d, [driver[d] EXCEPT !.view = NoTask, !.work = Idle])
    /\ UNCHANGED <<listed, mail, clock>>

DriverSaves(d) ==
    /\ driver[d].view # NoTask
    /\ driver[d].stored # driver[d].view
    /\ Updated(d, [driver[d] EXCEPT !.stored = driver[d].view])
    /\ UNCHANGED <<listed, mail, clock>>

OnRide(d) ==
    /\ driver[d].sub
    /\ driver[d].work = Idle
    /\ Live(driver[d].view)
    /\ clock < MaxClock

\* transitionDirectTask: the next task is made from the record as it is now, the
\* rider is told, and the outcome awaited.
Move(d, s) ==
    /\ OnRide(d)
    /\ s \in Ridesharing.next[driver[d].view.status] \ {"cancelled"}
    /\ \E o \in Outcome :
        /\ clock' = clock + 1
        /\ mail' = Posted(Tell("state", d, Rider, s, clock + 1), o)
        /\ Updated(d, [ driver[d] EXCEPT
                          !.work = [ op |-> "move",
                                     task |-> Stamped(driver[d].stored, s, clock + 1),
                                     acked |-> o = "acked" ] ])
    /\ UNCHANGED listed

\* The task made at the start is stored and shown, whatever arrived meanwhile;
\* an end leaves the page.
MoveEnds(d) ==
    /\ Awaits(d, "move")
    /\ Updated(d, IF Delivered(d)
                  THEN [ driver[d] EXCEPT
                           !.view = driver[d].work.task, !.stored = driver[d].work.task,
                           !.work = Idle,
                           !.sub = @ /\ driver[d].work.task.status \notin Terminal ]
                  ELSE [driver[d] EXCEPT !.work = Idle])
    /\ UNCHANGED <<listed, mail, clock>>

\* Any message of the rider counts for lastAt; a cancel ends the ride and leaves
\* the page.
DriverHears(d, m) ==
    /\ driver[d].sub
    /\ Passes(m, driver[d].last, d, Rider)
    /\ Updated(d, [ driver[d] EXCEPT !.last = m.at, !.view = After(@, m),
                                     !.sub = m.type # "cancel" ])
    /\ UNCHANGED <<listed, mail, clock>>

DriverCancel(d) ==
    /\ OnRide(d)
    /\ \E o \in Outcome :
        /\ clock' = clock + 1
        /\ mail' = Posted(Tell("cancel", d, Rider, "cancelled", clock + 1), o)
        /\ Updated(d, [ driver[d] EXCEPT
                          !.work = [op |-> "cancel", task |-> NoTask, acked |-> o = "acked"] ])
    /\ UNCHANGED listed

DriverCancelEnds(d) ==
    /\ Awaits(d, "cancel")
    /\ Updated(d, [ IF Delivered(d) THEN Cleared(driver[d], FALSE) ELSE driver[d]
                    EXCEPT !.work = Idle ])
    /\ UNCHANGED <<listed, mail, clock>>

\* "Done" on the completion page.
DriverDone(d) ==
    /\ driver[d].view # NoTask /\ driver[d].view.provider # NoDriver
    /\ ~driver[d].sub
    /\ Updated(d, Cleared(driver[d], FALSE))
    /\ UNCHANGED <<listed, mail, clock>>

\* A fresh page reads the announcement, as the relays now hold it.
Relisted(d) == IF announced = "open" THEN listed \cup {d} ELSE listed \ {d}

DriverReloads(d) ==
    /\ "reload" \in Faults
    /\ driver[d].view # NoTask /\ driver[d].stored = driver[d].view
    /\ LET t == driver[d].stored
           fresh == [driver[d] EXCEPT !.work = Idle]
       IN  Updated(d, IF t.status \in Terminal THEN Cleared(fresh, FALSE)
                      ELSE [fresh EXCEPT !.sub = Live(t), !.last = t.at])
    /\ listed' = Relisted(d)
    /\ UNCHANGED <<mail, clock>>

DriverRestarts(d) ==
    /\ "restart" \in Faults
    /\ driver[d].view # NoTask
    /\ Updated(d, [NoDrive EXCEPT !.stored = driver[d].stored])
    /\ listed' = Relisted(d)
    /\ UNCHANGED <<mail, clock>>

-----------------------------------------------------------------------------
RiderNext ==
    \/ Request
    \/ \E d \in Driver : HearAccept(d)
    \/ RiderSaves
    \/ Resubscribe
    \/ \E m \in mail : RiderHears(m)
    \/ RiderCancel
    \/ RiderCancelEnds
    \/ RiderDone
    \/ RiderReloads
    \/ RiderRestarts

DriverNext(d) ==
    \/ Ask(d)
    \/ AskMatched(d)
    \/ AskFails(d)
    \/ DriverSaves(d)
    \/ \E s \in State : Move(d, s)
    \/ MoveEnds(d)
    \/ \E m \in mail : DriverHears(d, m)
    \/ DriverCancel(d)
    \/ DriverCancelEnds(d)
    \/ DriverDone(d)
    \/ DriverReloads(d)
    \/ DriverRestarts(d)

Next == RiderNext \/ \E d \in Driver : DriverNext(d)

Spec == Init /\ [][Next]_vars

\* Relays deliver what they hold to an open subscription, the browser finishes
\* saves, answers and effects it has started; what people do is left unfair.
LiveSpec ==
    /\ Spec
    /\ WF_vars(\E m \in mail : RiderHears(m))
    /\ WF_vars(RiderSaves)
    /\ WF_vars(Resubscribe)
    /\ WF_vars(RiderCancelEnds)
    /\ \A d \in Driver :
        /\ WF_vars(\E m \in mail : DriverHears(d, m))
        /\ WF_vars(DriverSaves(d))
        /\ WF_vars(MoveEnds(d))
        /\ WF_vars(DriverCancelEnds(d))

-----------------------------------------------------------------------------
(* Properties.                                                             *)

\* Two drivers never hold the ride at once, however many accepts arrive, in
\* whatever order and however often: the first one claims it.
OneDriver ==
    \A d, e \in Driver : Live(driver[d].view) /\ Live(driver[e].view) => d = e

\* The rider is never shown, of a ride that goes on, a milestone sent before the
\* one already shown, with relays that replay and reorder, pages reloaded and
\* subscriptions that each start with a lastAt of their own.
NeverOutdated ==
    [][ Live(rider.view) /\ Live(rider.view') => rider.view'.at >= rider.view.at ]_vars

\* A milestone the driver's app shows is one the relays hold for the rider: a
\* delivery that failed does not look successful.
ShownIsSent ==
    \A d \in Driver :
        LET t == driver[d].view
        IN  t # NoTask /\ t.at > 0 =>
              \E m \in mail : m.type = "state" /\ m.from = d /\ m.at = t.at

Ends(m) == m.type = "cancel" \/ (m.type = "state" /\ m.status \in Terminal)

\* The last lifecycle message of a driver is an end.
LastWordEnds(d) ==
    \E m \in mail : m.from = d /\ Ends(m) /\ \A n \in mail : n.from = d => n.at <= m.at

\* An end the driver sent reaches the rider's screen, if the rider has not left
\* the ride and the driver did not go on with it.
EndReachesRider ==
    \A d \in Driver :
        LastWordEnds(d) ~>
            (LastWordEnds(d) /\ Live(rider.view) => rider.view.provider # d)
=============================================================================
