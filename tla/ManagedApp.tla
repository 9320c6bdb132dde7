------------------------------ MODULE ManagedApp ------------------------------
(***************************************************************************)
(* A web app in managed mode, the rider's or a driver's, against an        *)
(* operator that answers and announces (web/src/context/TaskContext.tsx,   *)
(* the pages under web/src/pages, the lifecycle handlers of server.js).    *)
(* Everybody else is seen only through what becomes of the rides.          *)
(*                                                                         *)
(* An app keeps one task.  It is replaced, whole, by whatever answer comes *)
(* in: of a poll, of a refetch that a socket frame asked for, of the       *)
(* user's own request, of the boot.  An answer is what the operator had    *)
(* when it was written, and answers overtake one another.  Frames may be   *)
(* lost with the socket; but for a cancellation, whose frame is a screen   *)
(* of its own, they only ask for a refetch.  Requests are signed, so the   *)
(* operator answers participants only.  Matched stands for every state     *)
(* between the match and the start.                                        *)
(***************************************************************************)
EXTENDS Naturals, FiniteSets

CONSTANTS
    Ride,       \* rides the rider asks for, one after the other
    NoRide,     \* absent value
    MaxAnswers, \* bound: answers to fetches on their way, and as many to anything else
    MaxBoots    \* bound: restarts of the app

ASSUME ManagedAppAssumption ==
    NoRide \notin Ride /\ MaxAnswers \in Nat \ {0} /\ MaxBoots \in Nat

VARIABLES
    me,      \* whose app this is
    ride,    \* the operator's rides
    app,     \* what the app shows and stores
    answers, \* answers on their way
    frames,  \* cancellation frames on their way
    boots    \* restarts so far

appVars == <<me, ride, app, answers, frames, boots>>

Live  == {"requested", "matched", "active"}
Ended == {"completed", "cancelled"}

NoTask == [ride |-> NoRide, status |-> "none", driver |-> "none", by |-> "none"]
NoBoot == [kind |-> "none", ride |-> NoRide]

AppInit ==
    /\ me \in {"rider", "driver"}
    /\ ride = [r \in Ride |-> [status |-> "none", driver |-> "none", by |-> "none"]]
    /\ app = [page |-> "home", task |-> NoTask, kept |-> NoRide, id |-> NoRide,
              screen |-> "none", boot |-> NoBoot]
    /\ answers = {}
    /\ frames = {}
    /\ boots = 0

-------------------------------------------------------------------------------
(* What the app does with what it hears. *)

Goto(s, page) == [s EXCEPT !.page = page, !.screen = "none"]

\* setActiveTask: an end is kept until acknowledged, a live ride's id is stored.
WithTask(s, task) ==
    [s EXCEPT !.task = task,
              !.kept = IF task.status \in Ended THEN task.ride ELSE @,
              !.id   = IF task.status \in Ended THEN NoRide ELSE task.ride]

\* reset
Cleared(s) == [s EXCEPT !.task = NoTask, !.id = NoRide]

\* A screen over the rider's page says who gave up; that nobody was found goes first.
Shown(s, by) ==
    [s EXCEPT !.screen = IF me = "rider" /\ (by = "system" \/ @ = "noProviders")
                           THEN "noProviders" ELSE "cancelled"]

\* routeTerminal: a screen of the page for a cancellation, the completion page for
\* the other ends.  Leaving the page works from a page already left; a screen does not.
Routed(s, task) ==
    CASE task.status = "completed" -> Goto(s, "complete")
      [] task.status = "cancelled" /\ s.page = "active" -> Shown(s, task.by)
      [] OTHER -> s

Refetched_NotRouted(s, kind, task) == WithTask(s, task)

\* A poll or a refetch came back.  The driver's poll routes nowhere.
Refetched(s, kind, task) ==
    LET shown == WithTask(s, task) IN
    CASE me = "rider" -> Routed(shown, task)
      [] me = "driver" /\ kind = "refresh" /\ task.status \in Ended -> Goto(shown, "complete")
      [] OTHER -> shown

Operated_Optimistic(s, kind, ok, task) ==
    CASE kind \in {"request", "accept"} /\ ok -> Goto(WithTask(s, task), "active")
      [] kind = "start" /\ ok -> WithTask(s, task)
      [] kind = "complete" -> Goto(WithTask(s, [s.task EXCEPT !.status = "completed"]), "complete")
      [] kind = "cancel" /\ ok -> Goto(Cleared(s), "home")
      [] OTHER -> s

\* An operation came back: ok with the ride as it then was, or with an error.
Operated(s, kind, ok, task) ==
    CASE kind \in {"request", "accept"} /\ ok -> Goto(WithTask(s, task), "active")
      [] kind = "accept"   /\ ~ok -> Goto(WithTask(s, NoTask), "home")
      [] kind = "start"    /\ ok  -> WithTask(s, task)
      [] kind = "complete" /\ ok  -> Goto(WithTask(s, task), "complete")
      [] kind = "cancel"   /\ ok  -> Goto(Cleared(s), "home")
      [] OTHER                    -> s

\* The boot's fetch came back: of the session's task, of whatever live task the
\* operator has for this party, or, when that fails, of the stored id.
Booted(s, kind, ok, task) ==
    CASE ok /\ task.status \in Live -> WithTask(s, task)
      [] ok /\ task.status \in Ended /\ kind = "bootTask" -> Cleared(WithTask(s, task))
      [] ~ok /\ kind = "bootTask" -> Cleared(s)
      [] ~ok /\ kind = "bootParty" /\ s.id # NoRide ->
            [s EXCEPT !.boot = [kind |-> "bootId", ride |-> s.id]]
      [] OTHER -> [s EXCEPT !.id = NoRide]

-------------------------------------------------------------------------------
(* Answers.  own: the page that asked is still there, and its buttons wait.    *)

Fetches    == {"poll", "refresh"}
Operations == {"request", "accept", "start", "complete", "cancel"}

Answer(kind, ok, task) == [kind |-> kind, ok |-> ok, task |-> task, own |-> TRUE]

Room(kinds) == Cardinality({m \in answers : m.kind \in kinds}) < MaxAnswers

\* The button that was pressed waits.
Busy == \E m \in answers : m.kind \in Operations /\ m.own

\* A page that is left forgets what it waits for.
Orphaned(ms, page) ==
    IF page = app.page THEN ms ELSE {[m EXCEPT !.own = FALSE] : m \in ms}

Seen(r) == [ride |-> r, status |-> ride[r].status, driver |-> ride[r].driver, by |-> ride[r].by]

\* authoriseRideActor
Participant(r) == ride[r].status # "none" /\ (me = "driver" => ride[r].driver = "me")

\* The operator writes the answer to a poll or a refetch of the ride shown.
Fetch ==
    LET r == app.task.ride IN
    /\ app.page = "active" /\ r # NoRide
    /\ Room(Fetches)
    /\ Participant(r)
    /\ \E kind \in (IF me = "rider" THEN {"poll"} ELSE Fetches) :
            /\ Answer(kind, TRUE, Seen(r)) \notin answers
            /\ answers' = answers \cup {Answer(kind, TRUE, Seen(r))}
    /\ UNCHANGED <<me, ride, app, frames, boots>>

Delivered(m) ==
    CASE m.kind \in Fetches    -> Refetched(app, m.kind, m.task)
      [] m.kind \in Operations -> Operated(app, m.kind, m.ok, m.task)
      [] OTHER                 -> Booted(app, m.kind, m.ok, m.task)

Arrives(m) ==
    /\ app' = Delivered(m)
    /\ answers' = Orphaned(answers \ {m}, app'.page)
    /\ UNCHANGED <<me, ride, frames, boots>>

Deliver == \E m \in answers : Arrives(m)

\* A poll or refetch that succeeds.
HearsBack == \E m \in answers : m.kind \in Fetches /\ Arrives(m)

\* The answer is lost after the operator did its part: an error to the app, which a
\* poll ignores.
AnswerLost ==
    \E m \in answers :
        /\ m.ok
        /\ answers' = (answers \ {m}) \cup
                         IF m.kind \in Fetches THEN {}
                         ELSE {[m EXCEPT !.ok = FALSE, !.task = NoTask]}
        /\ UNCHANGED <<me, ride, app, frames, boots>>

Operation(kind, ok, task) == answers' = answers \cup {Answer(kind, ok, task)}

-------------------------------------------------------------------------------
(* The user's operations; what the operator cannot do it answers as an error.  *)

\* broadcastToRide: to every app whose socket watches the ride, the canceller's too.
Watching(r) == app.page = "active" /\ app.task.ride = r

EndCancelled(r, by) ==
    /\ ride' = [ride EXCEPT ![r].status = "cancelled", ![r].by = by]
    /\ frames' = frames \cup IF Watching(r) THEN {[ride |-> r, by |-> by]} ELSE {}

CancelFrame ==
    \E f \in frames :
        /\ frames' = frames \ {f}
        /\ app' = IF Watching(f.ride) THEN Shown(app, f.by) ELSE app
        /\ UNCHANGED <<me, ride, answers, boots>>

FrameLost ==
    /\ \E f \in frames : frames' = frames \ {f}
    /\ UNCHANGED <<me, ride, app, answers, boots>>

Become(r, status, driver) ==
    /\ ride' = [ride EXCEPT ![r].status = status, ![r].driver = driver]
    /\ UNCHANGED frames

Refuses(kind) ==
    /\ Operation(kind, FALSE, NoTask)
    /\ UNCHANGED <<ride, frames>>

Request(r) ==
    /\ me = "rider" /\ app.page = "home"
    /\ app.task.status \notin Live
    /\ ~Busy /\ Room(Operations)
    /\ ride[r].status = "none"
    /\ Become(r, "requested", "none")
    /\ Operation("request", TRUE, [NoTask EXCEPT !.ride = r, !.status = "requested"])
    /\ UNCHANGED <<me, app, boots>>

\* A job of the list, which may be out of date, is opened.
OpenJob(r) ==
    /\ me = "driver" /\ app.page = "home"
    /\ ~(app.task.status \in Live /\ app.task.driver = "me")
    /\ ride[r].status # "none"
    /\ app' = Goto(WithTask(app, [NoTask EXCEPT !.ride = r, !.status = "requested"]), "incoming")
    /\ answers' = Orphaned(answers, "incoming")
    /\ UNCHANGED <<me, ride, frames, boots>>

\* Declined, or the twenty seconds are over.
PutBack ==
    /\ app.page = "incoming" /\ app.task # NoTask
    /\ ~Busy
    /\ app' = Goto(WithTask(app, NoTask), "home")
    /\ answers' = Orphaned(answers, "home")
    /\ UNCHANGED <<me, ride, frames, boots>>

Accept(r) ==
    /\ app.page = "incoming" /\ app.task.ride = r
    /\ ~Busy /\ Room(Operations)
    /\ \/ /\ ride[r].status = "requested"
          /\ Become(r, "matched", "me")
          /\ Operation("accept", TRUE, [Seen(r) EXCEPT !.status = "matched", !.driver = "me"])
       \/ ride[r].status # "requested" /\ Refuses("accept")
    /\ UNCHANGED <<me, app, boots>>

\* The button of the state shown: start when matched, complete when active.
Move(r) ==
    LET op   == IF app.task.status = "matched" THEN "start" ELSE "complete"
        to   == IF op = "start" THEN "active" ELSE "completed"
        able == Participant(r) /\ ride[r].status = app.task.status
    IN /\ me = "driver" /\ app.page = "active" /\ app.screen = "none"
       /\ app.task.ride = r /\ app.task.status \in {"matched", "active"}
       /\ ~Busy /\ Room(Operations)
       /\ \/ /\ able
             /\ Become(r, to, "me")
             /\ Operation(op, TRUE, [Seen(r) EXCEPT !.status = to])
          \/ ~able /\ Refuses(op)
       /\ UNCHANGED <<me, app, boots>>

Cancellable == IF me = "rider" THEN {"requested", "matched"} ELSE Live

Cancel(r) ==
    LET able == Participant(r) /\ ride[r].status \in Live IN
    /\ app.page = "active" /\ app.screen = "none"
    /\ app.task.ride = r /\ app.task.status \in Cancellable
    /\ ~Busy /\ Room(Operations)
    /\ \/ able  /\ EndCancelled(r, me) /\ Operation("cancel", TRUE, NoTask)
       \/ ~able /\ Refuses("cancel")
    /\ UNCHANGED <<me, app, boots>>

-------------------------------------------------------------------------------
(* Everybody else, and the sweep.                                              *)

Theirs(r) == ride[r].driver = "other"

Elsewhere(r) ==
    /\ \/ /\ me = "driver" /\ ride[r].status = "none"
          /\ Become(r, "requested", "none")
       \/ /\ ride[r].status = "requested"
          /\ Become(r, "matched", "other")
       \/ /\ Theirs(r) /\ ride[r].status = "matched"
          /\ Become(r, "active", "other")
       \/ /\ Theirs(r) /\ ride[r].status = "active"
          /\ Become(r, "completed", "other")
       \/ /\ Theirs(r) /\ ride[r].status \in {"matched", "active"}
          /\ EndCancelled(r, "driver")
       \/ /\ me = "driver" /\ ride[r].status \in {"requested", "matched"}
          /\ EndCancelled(r, "rider")
    /\ UNCHANGED <<me, app, answers, boots>>

Expire(r) ==
    /\ ride[r].status = "requested"
    /\ EndCancelled(r, "system")
    /\ UNCHANGED <<me, app, answers, boots>>

-------------------------------------------------------------------------------
(* Pages. *)

Visit(page) ==
    /\ app' = Goto(app, page)
    /\ answers' = Orphaned(answers, page)
    /\ UNCHANGED <<me, ride, frames, boots>>

Resumes_AnyLive == app.page = "home" /\ app.task.status \in Live

\* A home page goes on to a live ride, the driver's only to one of its own.
Resumes ==
    /\ app.page = "home" /\ app.task.status \in Live
    /\ me = "driver" => app.task.driver = "me"

\* The effects of the pages: a ride page without its task goes home.
Follow ==
    \/ Resumes /\ Visit("active")
    \/ app.page \in {"active", "incoming"} /\ app.task = NoTask /\ Visit("home")

\* Done, on the completion page or on a cancellation screen.
Done ==
    /\ \/ /\ app.page = "complete"
          /\ app' = Goto([Cleared(app) EXCEPT !.kept = NoRide], "home")
       \/ /\ app.page = "active" /\ app.screen # "none"
          /\ app' = Goto(Cleared(app), "home")
    /\ answers' = Orphaned(answers, "home")
    /\ UNCHANGED <<me, ride, frames, boots>>

\* The bar at the bottom.
GoHome == app.page # "home" /\ Visit("home")

\* A reload keeps the page and the session's task, a new tab neither.
Restart ==
    /\ boots < MaxBoots
    /\ \E reload \in BOOLEAN :
          LET task == IF reload THEN app.task ELSE NoTask
              page == IF reload THEN app.page ELSE "home"
          IN app' = [Goto(app, page) EXCEPT
                        !.task = task,
                        !.boot = [kind |-> IF task = NoTask THEN "bootParty" ELSE "bootTask",
                                  ride |-> task.ride]]
    /\ answers' = {}
    /\ frames' = {}
    /\ boots' = boots + 1
    /\ UNCHANGED <<me, ride>>

\* The operator writes the answer to the boot's fetch.  A ride that is not the
\* party's is refused.
BootFetch ==
    LET b    == app.boot
        mine == {r \in Ride : Participant(r) /\ ride[r].status \in Live}
    IN /\ b # NoBoot
       /\ app' = [app EXCEPT !.boot = NoBoot]
       /\ \/ b.kind = "bootParty" /\ mine = {} /\ Operation(b.kind, TRUE, NoTask)
          \/ b.kind = "bootParty" /\ \E r \in mine : Operation(b.kind, TRUE, Seen(r))
          \/ /\ b.kind # "bootParty"
             /\ IF Participant(b.ride) THEN Operation(b.kind, TRUE, Seen(b.ride))
                                       ELSE Operation(b.kind, FALSE, NoTask)
       /\ UNCHANGED <<me, ride, frames, boots>>

-------------------------------------------------------------------------------
AppNext ==
    \/ \E r \in Ride : \/ Request(r) \/ OpenJob(r) \/ Accept(r) \/ Move(r)
                       \/ Cancel(r) \/ Elsewhere(r) \/ Expire(r)
    \/ Fetch \/ Deliver \/ AnswerLost \/ CancelFrame \/ FrameLost
    \/ PutBack \/ Follow \/ Done \/ GoHome \/ Restart \/ BootFetch

\* The page polls every five seconds and the operator answers; answers arrive or
\* fail, and not every poll fails; effects of a page run.  What people press is unfair.
AppFairness ==
    /\ WF_appVars(Fetch) /\ WF_appVars(Deliver) /\ SF_appVars(HearsBack)
    /\ WF_appVars(Follow) /\ WF_appVars(BootFetch)

AppSpec     == AppInit /\ [][AppNext]_appVars
AppLiveSpec == AppSpec /\ AppFairness

-------------------------------------------------------------------------------
(* Properties. *)

AppTypeOK ==
    /\ \A r \in Ride : ride[r].status \in Live \cup Ended \cup {"none"}
    /\ app.page \in {"home", "incoming", "active", "complete"}
    /\ app.task.ride \in Ride \cup {NoRide}
    /\ app.screen \in {"none", "noProviders", "cancelled"}

\* However answers and frames are lost, overtaken or repeated: a rider whose ride is
\* over does not stay on its page without being told (a screen, the completion page,
\* or home), and a driver does not go on seeing it under way, with buttons for its
\* next step (requester/ActiveTaskPage.tsx, routeTerminal and its callers;
\* provider/ActiveTaskPage.tsx, refreshTask and the poll).
EndIsTold ==
    \A r \in Ride :
        ride[r].status \in Ended
            ~> ~(/\ app.page = "active" /\ app.task.ride = r
                 /\ IF me = "rider" THEN app.screen = "none" ELSE app.task.status \in Live)

\* The driver's active page is only ever of a ride that is this driver's, though any
\* opened job is stored as the task, its id is kept over restarts, and accepts are
\* answered late or not at all (TaskContext.tsx, IncomingTaskPage.tsx, DashboardPage.tsx).
OnlyOwnRides ==
    (me = "driver" /\ app.page = "active" /\ app.task.ride # NoRide)
        => ride[app.task.ride].driver = "me"

\* The app says a ride is over, or keeps its receipt, only when it is, whatever
\* stale answer or stored session it goes by (TaskContext.tsx, setActiveTask and
\* completedTask; the pages' polls).
SaidOverIsOver ==
    \A r \in Ride :
        (app.kept = r \/ (app.page \in {"active", "complete"} /\ app.task.ride = r
                           /\ app.task.status \in Ended))
            => ride[r].status \in Ended
===============================================================================
