------------------------- MODULE ManagedApp_proofs -------------------------
(***************************************************************************)
(* Proofs about an app in managed mode, for any number of rides, answers   *)
(* on their way and restarts; and, below, about the shift of a driver, for *)
(* any number of calls, endpoints and parts.                               *)
(*                                                                         *)
(* What the app says of a ride is old, from an answer that overtook others *)
(* or from the storage of a page since gone, but it is true for good: an   *)
(* end is an end, and a ride given to this driver stays with it.  Truthful *)
(* says so of every task the app has or is about to be answered.           *)
(***************************************************************************)
EXTENDS ManagedApp, DriverShift, TLAPS

RideType == [status: Live \cup Ended \cup {"none"}, driver: {"none", "me", "other"},
             by: {"none", "rider", "driver", "system"}]

TaskType == [ride: Ride \cup {NoRide}, status: Live \cup Ended \cup {"none"},
             driver: {"none", "me", "other"}, by: {"none", "rider", "driver", "system"}]

Pages == {"home", "incoming", "active", "complete"}

BootType == {NoBoot} \cup [kind: {"bootParty"}, ride: Ride \cup {NoRide}]
                     \cup [kind: {"bootTask", "bootId"}, ride: Ride]

AppType == [page: Pages, task: TaskType, kept: Ride \cup {NoRide}, id: Ride \cup {NoRide},
            screen: {"none", "noProviders", "cancelled"}, boot: BootType]

AnswerType ==
    [kind: Fetches \cup Operations \cup {"bootTask", "bootParty", "bootId"}, ok: BOOLEAN,
     task: TaskType, own: BOOLEAN]

\* A driver is given a ride when it is matched.
RidesInv ==
    /\ ride \in [Ride -> RideType]
    /\ \A r \in Ride : ride[r].driver = "me" => ride[r].status \notin {"none", "requested"}

\* What a task says that no step undoes is so.
Truthful(t) ==
    /\ t = NoTask \/ t.ride \in Ride
    /\ t.status \in Ended => t.ride \in Ride /\ ride[t.ride].status \in Ended
    /\ t.driver = "me" => t.ride \in Ride /\ ride[t.ride].driver = "me"

\* A driver's own ride, or none.
Mine(t) == me = "driver" /\ t.ride # NoRide => ride[t.ride].driver = "me"

Sound(s) ==
    /\ s \in AppType
    /\ Truthful(s.task)
    /\ s.kept # NoRide => ride[s.kept].status \in Ended
    /\ s.page = "active" => Mine(s.task)

AppInv ==
    /\ me \in {"rider", "driver"}
    /\ RidesInv
    /\ Sound(app)
    /\ answers \subseteq AnswerType
    /\ \A m \in answers : Truthful(m.task) /\ Mine(m.task)

\* The rides move on.
Onward ==
    /\ RidesInv' /\ UNCHANGED me
    /\ \A r \in Ride : /\ ride[r].status \in Ended => ride'[r].status \in Ended
                       /\ ride[r].driver = "me" => ride'[r].driver = "me"

-----------------------------------------------------------------------------
(* What the app makes of what it hears.                                    *)

LEMMA NoTaskIs ==
    NoTask \in TaskType /\ Truthful(NoTask) /\ Mine(NoTask) /\ NoTask.ride = NoRide
BY DEF NoTask, TaskType, Truthful, Mine, Ended

LEMMA WithTaskSound ==
    ASSUME NEW s, Sound(s), NEW t \in TaskType, Truthful(t), s.page = "active" => Mine(t)
    PROVE  Sound(WithTask(s, t)) /\ WithTask(s, t).page = s.page /\ WithTask(s, t).task = t
<1>1. PICK k : k = IF t.status \in Ended THEN t.ride ELSE s.kept
  OBVIOUS
<1>2. PICK i : i = IF t.status \in Ended THEN NoRide ELSE t.ride
  OBVIOUS
<1>3. s \in AppType /\ k \in Ride \cup {NoRide} /\ i \in Ride \cup {NoRide}
  BY <1>1, <1>2 DEF Sound, AppType, TaskType
<1>4. WithTask(s, t) = [s EXCEPT !.task = t, !.kept = k, !.id = i]
  BY <1>1, <1>2, <1>3 DEF WithTask, AppType
<1>5. k # NoRide => ride[k].status \in Ended
  BY <1>1 DEF Sound, Truthful
<1> QED BY <1>3, <1>4, <1>5 DEF Sound, AppType

LEMMA GotoSound ==
    ASSUME NEW s, Sound(s), NEW page \in Pages, page = "active" => Mine(s.task)
    PROVE  Sound(Goto(s, page)) /\ Goto(s, page).page = page /\ Goto(s, page).task = s.task
BY DEF Goto, Sound, AppType

LEMMA ShownSound ==
    ASSUME NEW s, Sound(s), NEW by
    PROVE  Sound(Shown(s, by))
<1>1. PICK screen \in {"noProviders", "cancelled"} : Shown(s, by) = [s EXCEPT !.screen = screen]
  BY DEF Shown
<1> QED BY <1>1 DEF Sound, AppType

LEMMA ClearedSound ==
    ASSUME NEW s, Sound(s)
    PROVE  Sound(Cleared(s)) /\ Cleared(s).task = NoTask
BY NoTaskIs DEF Cleared, Sound, AppType

LEMMA RefetchedSound ==
    ASSUME AppInv, NEW s, Sound(s), NEW kind, NEW t \in TaskType, Truthful(t), Mine(t)
    PROVE  Sound(Refetched(s, kind, t))
<1>1. PICK shown : shown = WithTask(s, t)
  OBVIOUS
<1>2. Sound(shown) /\ shown.task = t
  BY <1>1, WithTaskSound
<1>3. Sound(Goto(shown, "complete")) /\ Sound(Shown(shown, t.by))
  BY <1>2, GotoSound, ShownSound DEF Pages
<1>4. Sound(Routed(shown, t))
  BY <1>2, <1>3 DEF Routed
<1> QED BY <1>1, <1>2, <1>3, <1>4 DEF Refetched, AppInv

LEMMA OperatedSound ==
    ASSUME AppInv, NEW s, Sound(s), NEW kind, NEW ok \in BOOLEAN,
           NEW t \in TaskType, Truthful(t), Mine(t)
    PROVE  Sound(Operated(s, kind, ok, t))
<1>1. PICK shown : shown = WithTask(s, t)
  OBVIOUS
<1>2. Sound(shown) /\ shown.task = t
  BY <1>1, WithTaskSound
<1>3. Sound(Goto(shown, "complete")) /\ Sound(Goto(shown, "active"))
  BY <1>2, GotoSound DEF Pages
<1>4. Sound(Goto(Cleared(s), "home"))
  BY ClearedSound, GotoSound DEF Pages
<1>5. Sound(Goto(WithTask(s, NoTask), "home"))
  BY NoTaskIs, WithTaskSound, GotoSound DEF Pages
<1> QED BY <1>1, <1>2, <1>3, <1>4, <1>5 DEF Operated

LEMMA BootedSound ==
    ASSUME AppInv, NEW s, Sound(s), NEW kind, NEW ok \in BOOLEAN,
           NEW t \in TaskType, Truthful(t), Mine(t)
    PROVE  Sound(Booted(s, kind, ok, t))
<1>1. Sound(WithTask(s, t))
  BY WithTaskSound
<1>2. Sound(Cleared(WithTask(s, t))) /\ Sound(Cleared(s))
  BY <1>1, ClearedSound
<1>3. Sound([s EXCEPT !.id = NoRide])
  BY DEF Sound, AppType
<1>4. ASSUME s.id # NoRide PROVE Sound([s EXCEPT !.boot = [kind |-> "bootId", ride |-> s.id]])
  <2>1. PICK b \in BootType : b = [kind |-> "bootId", ride |-> s.id]
    BY <1>4 DEF Sound, AppType, BootType
  <2>2. Sound([s EXCEPT !.boot = b])
    BY DEF Sound, AppType
  <2> QED BY <2>1, <2>2
<1> QED BY <1>1, <1>2, <1>3, <1>4 DEF Booted, Live, Ended

-----------------------------------------------------------------------------
(* Nothing the app has been told is undone.                                *)

LEMMA StillTruthful ==
    ASSUME Onward, NEW t \in TaskType, Truthful(t)
    PROVE  Truthful(t)'
BY DEF Onward, Truthful

LEMMA StillMine ==
    ASSUME Onward, NEW t \in TaskType, Mine(t)
    PROVE  Mine(t)'
BY DEF Onward, Mine, TaskType

LEMMA StillSound ==
    ASSUME Onward, NEW s, Sound(s)
    PROVE  Sound(s)'
<1>1. s \in AppType /\ s.task \in TaskType /\ s.kept \in Ride \cup {NoRide}
  BY DEF Sound, AppType
<1>2. Truthful(s.task)'
  BY <1>1, StillTruthful DEF Sound
<1>3. s.page = "active" => Mine(s.task)'
  BY <1>1, StillMine DEF Sound
<1>4. s.kept # NoRide => ride'[s.kept].status \in Ended
  BY <1>1 DEF Sound, Onward
<1> QED BY <1>1, <1>2, <1>3, <1>4 DEF Sound

\* Of every answer on its way.
Heard(ms) == ms \subseteq AnswerType /\ \A m \in ms : Truthful(m.task) /\ Mine(m.task)

LEMMA StillHeard ==
    ASSUME Onward, NEW ms, Heard(ms)
    PROVE  Heard(ms)'
<1>1. ASSUME NEW m \in ms PROVE (Truthful(m.task) /\ Mine(m.task))'
  <2>1. m.task \in TaskType /\ Truthful(m.task) /\ Mine(m.task)
    BY DEF Heard, AnswerType
  <2> QED BY <2>1, StillTruthful, StillMine
<1> QED BY <1>1 DEF Heard

\* A step of the app alone leaves the rides as they are.
LEMMA RidesStay ==
    ASSUME AppInv, UNCHANGED <<me, ride>>
    PROVE  Onward
BY DEF AppInv, Onward, RidesInv

LEMMA OrphanedHeard ==
    ASSUME NEW ms, Heard(ms), NEW page
    PROVE  Heard(Orphaned(ms, page))
<1>1. ASSUME NEW m \in ms PROVE /\ [m EXCEPT !.own = FALSE] \in AnswerType
                                /\ [m EXCEPT !.own = FALSE].task = m.task
  BY DEF Heard, AnswerType
<1> QED BY <1>1 DEF Heard, Orphaned

\* The operator answers with the ride as it is, and only a participant.
LEMMA SeenSound ==
    ASSUME AppInv, NEW r \in Ride, Participant(r)
    PROVE  Seen(r) \in TaskType /\ Truthful(Seen(r)) /\ Mine(Seen(r))
BY DEF AppInv, RidesInv, RideType, Participant, Seen, TaskType, Truthful, Mine

LEMMA AnsweredHeard ==
    ASSUME NEW ms, Heard(ms)', NEW ok \in BOOLEAN, NEW t \in TaskType, Truthful(t)', Mine(t)',
           NEW kind \in Fetches \cup Operations \cup {"bootTask", "bootParty", "bootId"},
           answers' = ms \cup {Answer(kind, ok, t)}
    PROVE  Heard(answers)'
<1>1. Answer(kind, ok, t) \in AnswerType /\ Answer(kind, ok, t).task = t
  BY DEF Answer, AnswerType
<1>2. (Truthful(t) /\ Mine(t))'
  OBVIOUS
<1> QED BY <1>1, <1>2 DEF Heard

\* A step of the app alone.
LEMMA AppStep ==
    ASSUME AppInv, UNCHANGED <<me, ride>>, NEW s, Sound(s), app' = s,
           NEW ms, Heard(ms), answers' = ms
    PROVE  AppInv'
<1>1. Onward
  BY RidesStay
<1>2. Sound(s)' /\ Heard(ms)'
  BY <1>1, StillSound, StillHeard
<1>3. Sound(app)' /\ Heard(answers)'
  BY <1>2
<1> QED BY <1>1, <1>3 DEF AppInv, Onward, Heard

\* A step of the operator, which may be answered.
LEMMA RideStep ==
    ASSUME AppInv, Onward, UNCHANGED app,
           \/ UNCHANGED answers
           \/ \E kind \in Operations, ok \in BOOLEAN, t \in TaskType :
                 Operation(kind, ok, t) /\ Truthful(t)' /\ Mine(t)'
    PROVE  AppInv'
<1>1. PICK s, ms : s = app /\ ms = answers
  OBVIOUS
<1>2. Sound(s)' /\ Heard(ms)'
  BY <1>1, StillSound, StillHeard DEF AppInv, Heard
<1>3. Sound(app)'
  BY <1>1, <1>2
<1>4. Heard(answers)'
  <2>1. CASE UNCHANGED answers
    BY <1>1, <1>2, <2>1
  <2>2. ASSUME NEW kind \in Operations, NEW ok \in BOOLEAN, NEW t \in TaskType,
               Operation(kind, ok, t), Truthful(t)', Mine(t)'
        PROVE  Heard(answers)'
    BY <1>1, <1>2, <2>2, AnsweredHeard DEF Operation
  <2> QED BY <2>1, <2>2
<1> QED BY <1>3, <1>4 DEF AppInv, Onward, Heard

\* One ride moves on.
LEMMA RideMoves ==
    ASSUME AppInv, NEW r \in Ride, NEW status \in Live \cup Ended, UNCHANGED me,
           NEW driver \in {"none", "me", "other"}, NEW by \in {"none", "rider", "driver", "system"},
           ride' = [ride EXCEPT ![r] = [status |-> status, driver |-> driver, by |-> by]],
           ride[r].status \in Ended => status \in Ended,
           ride[r].driver = "me" => driver = "me",
           driver = "me" => status # "requested"
    PROVE  Onward
<1>1. PICK q \in RideType : q = [status |-> status, driver |-> driver, by |-> by]
  BY DEF RideType
<1>2. ride' \in [Ride -> RideType] /\ ride' = [ride EXCEPT ![r] = q]
  BY <1>1 DEF AppInv, RidesInv
<1>3. \A x \in Ride : ride'[x].driver = "me" => ride'[x].status \notin {"none", "requested"}
  BY <1>1, <1>2 DEF AppInv, RidesInv, Live, Ended
<1> QED BY <1>1, <1>2, <1>3 DEF AppInv, RidesInv, Onward

LEMMA BecomeMoves ==
    ASSUME AppInv, NEW r \in Ride, NEW status \in Live \cup Ended, UNCHANGED me,
           NEW driver \in {"none", "me", "other"}, Become(r, status, driver),
           ride[r].status \notin Ended,
           ride[r].driver = "me" => driver = "me",
           driver = "me" => status # "requested"
    PROVE  Onward
<1>1. PICK q \in RideType : q = ride[r]
  BY DEF AppInv, RidesInv
<1>2. PICK p \in RideType : p = [q EXCEPT !.status = status, !.driver = driver]
  BY DEF RideType
<1>3. ride' = [ride EXCEPT ![r] = p]
  BY <1>1, <1>2 DEF AppInv, RidesInv, Become
<1>4. p = [status |-> status, driver |-> driver, by |-> q.by] /\ q.by \in {"none", "rider", "driver", "system"}
  BY <1>2 DEF RideType
<1> QED BY <1>1, <1>2, <1>3, <1>4, RideMoves

LEMMA CancelMoves ==
    ASSUME AppInv, NEW r \in Ride, NEW by \in {"rider", "driver", "system"},
           ride[r].status \in Live, EndCancelled(r, by), UNCHANGED me
    PROVE  Onward
<1>1. PICK q \in RideType : q = ride[r]
  BY DEF AppInv, RidesInv
<1>2. PICK p \in RideType : p = [q EXCEPT !.status = "cancelled", !.by = by]
  BY DEF RideType, Ended
<1>3. ride' = [ride EXCEPT ![r] = p]
  BY <1>1, <1>2 DEF AppInv, RidesInv, EndCancelled
<1>4. p = [status |-> "cancelled", driver |-> q.driver, by |-> by] /\ q.driver \in {"none", "me", "other"} /\ "cancelled" \in Ended
  BY <1>2 DEF RideType, Ended
<1> QED BY <1>1, <1>2, <1>3, <1>4, RideMoves DEF Live, Ended

-----------------------------------------------------------------------------
(* The actions.                                                            *)

LEMMA FetchKeeps ==
    ASSUME AppInv, Fetch
    PROVE  AppInv'
<1>1. PICK r : r = app.task.ride
  OBVIOUS
<1>2. r \in Ride /\ Participant(r)
  BY <1>1 DEF Fetch, AppInv, Sound, AppType, TaskType
<1>3. PICK kind \in Fetches : answers' = answers \cup {Answer(kind, TRUE, Seen(r))}
  BY <1>1 DEF Fetch, Fetches
<1>4. PICK t \in TaskType : t = Seen(r) /\ Truthful(t) /\ Mine(t)
  BY <1>2, SeenSound
<1>5. PICK a : a = Answer(kind, TRUE, t)
  OBVIOUS
<1>6. a \in AnswerType /\ a.task = t
  BY <1>5 DEF Answer, AnswerType
<1>7. PICK s, ms : s = app /\ ms = answers \cup {a}
  OBVIOUS
<1>8. Heard(ms) /\ answers' = ms
  BY <1>3, <1>4, <1>5, <1>6, <1>7 DEF AppInv, Heard
<1> QED BY <1>7, <1>8, AppStep DEF Fetch, AppInv

LEMMA DeliverKeeps ==
    ASSUME AppInv, NEW m \in answers, Arrives(m)
    PROVE  AppInv'
<1>1. /\ m.task \in TaskType /\ Truthful(m.task) /\ Mine(m.task) /\ m.ok \in BOOLEAN
      /\ Sound(app)
  BY DEF AppInv, AnswerType
<1>2. PICK s : s = Delivered(m)
  OBVIOUS
<1>3. Sound(s)
  BY <1>1, <1>2, RefetchedSound, OperatedSound, BootedSound DEF Delivered
<1>4. PICK ms : ms = Orphaned(answers \ {m}, s.page)
  OBVIOUS
<1>5. Heard(answers \ {m})
  BY DEF AppInv, Heard
<1>6. Heard(ms)
  BY <1>4, <1>5, OrphanedHeard
<1>7. app' = s /\ answers' = ms /\ UNCHANGED <<me, ride>>
  BY <1>2, <1>4 DEF Arrives
<1> QED BY <1>3, <1>6, <1>7, AppStep

LEMMA AnswerLostKeeps ==
    ASSUME AppInv, AnswerLost
    PROVE  AppInv'
<1>1. PICK m \in answers :
        answers' = (answers \ {m}) \cup IF m.kind \in Fetches THEN {}
                                        ELSE {[m EXCEPT !.ok = FALSE, !.task = NoTask]}
  BY DEF AnswerLost
<1>2. PICK e : e = [m EXCEPT !.ok = FALSE, !.task = NoTask]
  OBVIOUS
<1>3. e \in AnswerType /\ e.task = NoTask
  BY <1>2, NoTaskIs DEF AppInv, AnswerType
<1>4. PICK s, ms : s = app /\ ms = answers'
  OBVIOUS
<1>5. \A x \in ms : x \in answers \/ x = e
  BY <1>1, <1>2, <1>4
<1>6. Heard(ms)
  BY <1>3, <1>5, NoTaskIs DEF AppInv, Heard
<1> QED BY <1>4, <1>6, AppStep DEF AnswerLost, AppInv

LEMMA CancelFrameKeeps ==
    ASSUME AppInv, CancelFrame
    PROVE  AppInv'
<1>1. PICK f \in frames : app' = IF Watching(f.ride) THEN Shown(app, f.by) ELSE app
  BY DEF CancelFrame
<1>2. PICK s, ms : s = app' /\ ms = answers
  OBVIOUS
<1>3. Sound(Shown(app, f.by)) /\ Sound(app)
  BY ShownSound DEF AppInv
<1> QED BY <1>1, <1>2, <1>3, AppStep DEF CancelFrame, AppInv, Heard

LEMMA FrameLostKeeps ==
    ASSUME AppInv, FrameLost
    PROVE  AppInv'
<1>1. PICK s, ms : s = app /\ ms = answers
  OBVIOUS
<1> QED BY <1>1, AppStep DEF FrameLost, AppInv, Heard

LEMMA RefusesKeeps ==
    ASSUME AppInv, NEW kind \in Operations, Refuses(kind), UNCHANGED <<me, app>>
    PROVE  AppInv'
<1>1. Onward
  BY RidesStay DEF Refuses
<1>2. PICK t \in TaskType : t = NoTask /\ Truthful(t)' /\ Mine(t)'
  BY <1>1, NoTaskIs, StillTruthful, StillMine
<1> QED BY <1>1, <1>2, RideStep DEF Refuses

LEMMA RequestKeeps ==
    ASSUME AppInv, NEW r \in Ride, Request(r)
    PROVE  AppInv'
<1>1. Onward
  BY BecomeMoves DEF Request, AppInv, RidesInv, Live, Ended
<1>2. PICK t : t = [NoTask EXCEPT !.ride = r, !.status = "requested"]
  OBVIOUS
<1>3. t \in TaskType /\ Truthful(t) /\ Mine(t)
  BY <1>2 DEF Request, NoTask, TaskType, Truthful, Mine, Live, Ended
<1>4. Truthful(t)' /\ Mine(t)'
  BY <1>1, <1>3, StillTruthful, StillMine
<1>5. "request" \in Operations /\ Operation("request", TRUE, t) /\ UNCHANGED app
  BY <1>2 DEF Request, Operations
<1> QED BY <1>1, <1>3, <1>4, <1>5, RideStep

LEMMA OpenJobKeeps ==
    ASSUME AppInv, NEW r \in Ride, OpenJob(r)
    PROVE  AppInv'
<1>1. PICK t : t = [NoTask EXCEPT !.ride = r, !.status = "requested"]
  OBVIOUS
<1>2. t \in TaskType /\ Truthful(t)
  BY <1>1 DEF NoTask, TaskType, Truthful, Live, Ended
<1>3. PICK s1 : s1 = WithTask(app, t)
  OBVIOUS
<1>4. Sound(s1)
  BY <1>2, <1>3, WithTaskSound DEF OpenJob, AppInv
<1>5. PICK s, ms : s = Goto(s1, "incoming") /\ ms = Orphaned(answers, "incoming")
  OBVIOUS
<1>6. Sound(s) /\ Heard(ms)
  BY <1>4, <1>5, GotoSound, OrphanedHeard DEF Pages, AppInv, Heard
<1> QED BY <1>1, <1>3, <1>5, <1>6, AppStep DEF OpenJob

LEMMA PutBackKeeps ==
    ASSUME AppInv, PutBack
    PROVE  AppInv'
<1>1. PICK s1 : s1 = WithTask(app, NoTask)
  OBVIOUS
<1>2. Sound(s1)
  BY <1>1, NoTaskIs, WithTaskSound DEF AppInv
<1>3. PICK s, ms : s = Goto(s1, "home") /\ ms = Orphaned(answers, "home")
  OBVIOUS
<1>4. Sound(s) /\ Heard(ms)
  BY <1>2, <1>3, GotoSound, OrphanedHeard DEF Pages, AppInv, Heard
<1> QED BY <1>1, <1>3, <1>4, AppStep DEF PutBack

\* The driver now has the ride it was given, or goes on with its own.
LEMMA GivenKeeps ==
    ASSUME AppInv, NEW r \in Ride, NEW op \in Operations, NEW to \in {"matched", "active", "completed"},
           ride[r].status \notin Ended, Become(r, to, "me"), UNCHANGED <<me, app>>,
           NEW by \in {"none", "rider", "driver", "system"},
           Operation(op, TRUE, [ride |-> r, status |-> to, driver |-> "me", by |-> by])
    PROVE  AppInv'
<1>1. Onward
  BY BecomeMoves DEF Live, Ended
<1>2. ride'[r].status = to /\ ride'[r].driver = "me"
  BY DEF Become, AppInv, RidesInv, RideType
<1>3. PICK t : t = [ride |-> r, status |-> to, driver |-> "me", by |-> by]
  OBVIOUS
<1>4. t \in TaskType
  BY <1>3 DEF TaskType, Live, Ended
<1>5. Truthful(t)' /\ Mine(t)'
  BY <1>2, <1>3 DEF Truthful, Mine
<1> QED BY <1>1, <1>3, <1>4, <1>5, RideStep

LEMMA AcceptKeeps ==
    ASSUME AppInv, NEW r \in Ride, Accept(r)
    PROVE  AppInv'
<1>1. CASE Refuses("accept")
  BY <1>1, RefusesKeeps DEF Accept, Operations
<1>2. CASE /\ ride[r].status = "requested"
           /\ Become(r, "matched", "me")
           /\ Operation("accept", TRUE, [Seen(r) EXCEPT !.status = "matched", !.driver = "me"])
  <2>1. PICK q \in RideType : q = ride[r]
    BY DEF AppInv, RidesInv
  <2>2. [Seen(r) EXCEPT !.status = "matched", !.driver = "me"]
          = [ride |-> r, status |-> "matched", driver |-> "me", by |-> q.by]
    <3>1. PICK t : t = [ride |-> r, status |-> q.status, driver |-> q.driver, by |-> q.by]
      OBVIOUS
    <3>2. Seen(r) = t
      BY <2>1, <3>1 DEF Seen
    <3>3. PICK u : u = [t EXCEPT !.status = "matched", !.driver = "me"]
      OBVIOUS
    <3>4. u = [ride |-> r, status |-> "matched", driver |-> "me", by |-> q.by]
      <4>1. u \in TaskType
        BY <3>1, <3>3 DEF TaskType, RideType, Live
      <4>2. u.ride = r /\ u.status = "matched" /\ u.driver = "me" /\ u.by = q.by
        BY <3>1, <3>3
      <4> QED BY <4>1, <4>2 DEF TaskType
    <3> QED BY <3>2, <3>3, <3>4
  <2>3. q.by \in {"none", "rider", "driver", "system"} /\ "accept" \in Operations
    BY DEF RideType, Operations
  <2>4. Operation("accept", TRUE, [ride |-> r, status |-> "matched", driver |-> "me", by |-> q.by])
    BY <1>2, <2>2
  <2> QED BY <1>2, <2>3, <2>4, GivenKeeps DEF Accept, Ended
<1> QED BY <1>1, <1>2 DEF Accept

LEMMA MoveKeeps ==
    ASSUME AppInv, NEW r \in Ride, Move(r)
    PROVE  AppInv'
<1>1. PICK op \in {"start", "complete"} : op = IF app.task.status = "matched" THEN "start" ELSE "complete"
  OBVIOUS
<1>2. PICK to \in {"active", "completed"} : to = IF op = "start" THEN "active" ELSE "completed"
  OBVIOUS
<1>3. CASE Refuses(op)
  BY <1>1, <1>3, RefusesKeeps DEF Move, Operations
<1>4. CASE /\ Participant(r) /\ ride[r].status = app.task.status
           /\ Become(r, to, "me")
           /\ Operation(op, TRUE, [Seen(r) EXCEPT !.status = to])
  <2>1. PICK q \in RideType : q = ride[r]
    BY DEF AppInv, RidesInv
  <2>2. ride[r].driver = "me" /\ ride[r].status \notin Ended
    BY <1>4 DEF Move, Participant, Ended
  <2>3. [Seen(r) EXCEPT !.status = to] = [ride |-> r, status |-> to, driver |-> "me", by |-> q.by]
    BY <2>1, <2>2 DEF Seen
  <2>4. q.by \in {"none", "rider", "driver", "system"} /\ op \in Operations
    BY DEF RideType, Operations
  <2>5. Operation(op, TRUE, [ride |-> r, status |-> to, driver |-> "me", by |-> q.by])
    BY <1>4, <2>3
  <2>6. UNCHANGED <<me, app>> /\ to \in {"matched", "active", "completed"}
    BY DEF Move
  <2> QED BY <1>4, <2>2, <2>4, <2>5, <2>6, GivenKeeps
<1> QED BY <1>1, <1>2, <1>3, <1>4 DEF Move

LEMMA CancelKeeps ==
    ASSUME AppInv, NEW r \in Ride, Cancel(r)
    PROVE  AppInv'
<1>1. CASE Refuses("cancel")
  BY <1>1, RefusesKeeps DEF Cancel, Operations
<1>2. CASE ride[r].status \in Live /\ EndCancelled(r, me) /\ Operation("cancel", TRUE, NoTask)
  <2>1. PICK by \in {"rider", "driver"} : by = me
    BY DEF AppInv
  <2>2. Onward
    BY <1>2, <2>1, CancelMoves DEF Cancel
  <2>3. PICK t \in TaskType : t = NoTask /\ Truthful(t)' /\ Mine(t)'
    BY <2>2, NoTaskIs, StillTruthful, StillMine
  <2> QED BY <1>2, <2>2, <2>3, RideStep DEF Cancel, Operations
<1> QED BY <1>1, <1>2 DEF Cancel

LEMMA ElsewhereKeeps ==
    ASSUME AppInv, NEW r \in Ride, Elsewhere(r) \/ Expire(r)
    PROVE  AppInv'
<1>1. UNCHANGED <<me, app, answers>>
  BY DEF Elsewhere, Expire
<1>2. /\ ride[r].status \in {"none", "requested"} => ride[r].driver # "me"
      /\ \A status \in {"none", "requested", "matched", "active"} : status \notin Ended
  BY DEF AppInv, RidesInv, Ended
<1>3. ASSUME NEW status \in Live \cup Ended, NEW driver \in {"none", "other"},
             Become(r, status, driver), ride[r].driver # "me",
             ride[r].status \in {"none", "requested", "matched", "active"}
      PROVE  Onward
  BY <1>1, <1>2, <1>3, BecomeMoves
<1>4. ASSUME NEW by \in {"rider", "driver", "system"}, EndCancelled(r, by),
             ride[r].status \in {"requested", "matched", "active"}
      PROVE  Onward
  BY <1>1, <1>4, CancelMoves DEF Live
<1>5. Onward
  <2>1. CASE Expire(r)
    BY <2>1, <1>4 DEF Expire
  <2>2. CASE Elsewhere(r)
    BY <2>2, <1>2, <1>3, <1>4 DEF Elsewhere, Theirs, Live, Ended
  <2> QED BY <2>1, <2>2
<1> QED BY <1>1, <1>5, RideStep

LEMMA VisitKeeps ==
    ASSUME AppInv, NEW page \in Pages, page = "active" => Mine(app.task), Visit(page)
    PROVE  AppInv'
<1>1. PICK s, ms : s = Goto(app, page) /\ ms = Orphaned(answers, page)
  OBVIOUS
<1>2. Sound(s) /\ Heard(ms)
  BY <1>1, GotoSound, OrphanedHeard DEF AppInv, Heard
<1> QED BY <1>1, <1>2, AppStep DEF Visit

LEMMA FollowKeeps ==
    ASSUME AppInv, Follow
    PROVE  AppInv'
<1>1. CASE Resumes /\ Visit("active")
  <2>1. Mine(app.task)
    BY <1>1 DEF Resumes, AppInv, Sound, Truthful, Mine
  <2> QED BY <1>1, <2>1, VisitKeeps DEF Pages
<1>2. CASE Visit("home")
  BY <1>2, VisitKeeps DEF Pages
<1> QED BY <1>1, <1>2 DEF Follow

LEMMA DoneKeeps ==
    ASSUME AppInv, Done
    PROVE  AppInv'
<1>1. PICK c : c = Cleared(app)
  OBVIOUS
<1>2. Sound(c)
  BY <1>1, ClearedSound DEF AppInv
<1>3. PICK d : d = [c EXCEPT !.kept = NoRide]
  OBVIOUS
<1>4. Sound(d)
  BY <1>2, <1>3 DEF Sound, AppType
<1>5. Sound(Goto(c, "home")) /\ Sound(Goto(d, "home"))
  BY <1>2, <1>4, GotoSound DEF Pages
<1>6. PICK s, ms : s = app' /\ ms = Orphaned(answers, "home")
  OBVIOUS
<1>7. Sound(s) /\ Heard(ms)
  BY <1>1, <1>3, <1>5, <1>6, OrphanedHeard DEF Done, AppInv, Heard
<1> QED BY <1>6, <1>7, AppStep DEF Done

LEMMA RestartKeeps ==
    ASSUME AppInv, Restart
    PROVE  AppInv'
<1>1. PICK task, page : \E reload \in BOOLEAN :
        /\ task = (IF reload THEN app.task ELSE NoTask)
        /\ page = (IF reload THEN app.page ELSE "home")
        /\ app' = [Goto(app, page) EXCEPT
                     !.task = task,
                     !.boot = [kind |-> IF task = NoTask THEN "bootParty" ELSE "bootTask",
                               ride |-> task.ride]]
  BY DEF Restart
<1>2. /\ task \in TaskType /\ Truthful(task) /\ page \in Pages
      /\ page = "active" => Mine(task) /\ Mine(app.task)
  BY <1>1, NoTaskIs DEF AppInv, Sound, AppType, Pages
<1>3. PICK g : g = Goto(app, page)
  OBVIOUS
<1>4. Sound(g) /\ g.page = page
  BY <1>2, <1>3, GotoSound DEF AppInv
<1>5. PICK b : b = [kind |-> IF task = NoTask THEN "bootParty" ELSE "bootTask", ride |-> task.ride]
  OBVIOUS
<1>6. b \in BootType
  BY <1>2, <1>5 DEF BootType, TaskType, Truthful
<1>7. PICK s, ms : s = [g EXCEPT !.task = task, !.boot = b] /\ ms = {}
  OBVIOUS
<1>8. Sound(s) /\ Heard(ms)
  BY <1>2, <1>4, <1>6, <1>7 DEF Sound, AppType, Heard
<1> QED BY <1>1, <1>3, <1>5, <1>7, <1>8, AppStep DEF Restart

LEMMA BootFetchKeeps ==
    ASSUME AppInv, BootFetch
    PROVE  AppInv'
<1>1. PICK b : b = app.boot
  OBVIOUS
<1>2. b \in BootType /\ b # NoBoot
  BY <1>1 DEF BootFetch, AppInv, Sound, AppType
<1>3. PICK s : s = [app EXCEPT !.boot = NoBoot]
  OBVIOUS
<1>4. Sound(s) /\ app' = s
  BY <1>3 DEF BootFetch, AppInv, Sound, AppType, NoBoot, BootType
<1>5. ASSUME NEW t \in TaskType, Truthful(t), Mine(t), NEW ok \in BOOLEAN, Operation(b.kind, ok, t),
             b.kind # "none"
      PROVE  AppInv'
  <2>1. PICK a : a = Answer(b.kind, ok, t)
    OBVIOUS
  <2>2. a \in AnswerType /\ a.task = t
    BY <1>2, <1>5, <2>1 DEF Answer, AnswerType, BootType
  <2>3. PICK ms : ms = answers \cup {a}
    OBVIOUS
  <2>4. Heard(ms) /\ answers' = ms
    BY <1>5, <2>1, <2>2, <2>3 DEF AppInv, Heard, Operation
  <2> QED BY <1>4, <2>4, AppStep DEF BootFetch
<1>6. b.kind # "none" /\ (b.kind # "bootParty" => b.ride \in Ride)
  BY <1>2 DEF BootType
<1>7. CASE \E r \in Ride : Participant(r) /\ Operation(b.kind, TRUE, Seen(r))
  BY <1>5, <1>6, <1>7, SeenSound
<1>8. CASE \E ok \in BOOLEAN : Operation(b.kind, ok, NoTask)
  BY <1>5, <1>6, <1>8, NoTaskIs
<1> QED BY <1>1, <1>6, <1>7, <1>8 DEF BootFetch

-----------------------------------------------------------------------------
LEMMA AppInvInit == AppInit => AppInv
<1> SUFFICES ASSUME AppInit PROVE AppInv
  OBVIOUS
<1>1. RidesInv
  BY DEF AppInit, RidesInv, RideType
<1>2. app \in AppType
  BY NoTaskIs DEF AppInit, AppType, Pages, NoBoot, BootType
<1>3. Sound(app)
  BY <1>2, NoTaskIs DEF AppInit, Sound
<1> QED BY <1>1, <1>3 DEF AppInit, AppInv

LEMMA AppInvNext == AppInv /\ [AppNext]_appVars => AppInv'
<1> SUFFICES ASSUME AppInv, [AppNext]_appVars PROVE AppInv'
  OBVIOUS
<1>1. CASE UNCHANGED appVars
  <2>1. PICK s, ms : s = app /\ ms = answers
    OBVIOUS
  <2> QED BY <1>1, <2>1, AppStep DEF appVars, AppInv, Heard
<1>2. ASSUME NEW r \in Ride,
             \/ Request(r) \/ OpenJob(r) \/ Accept(r) \/ Move(r)
             \/ Cancel(r) \/ Elsewhere(r) \/ Expire(r)
      PROVE  AppInv'
  BY <1>2, RequestKeeps, OpenJobKeeps, AcceptKeeps, MoveKeeps, CancelKeeps, ElsewhereKeeps
<1>3. CASE Fetch \/ Deliver \/ AnswerLost \/ CancelFrame \/ FrameLost
  BY <1>3, FetchKeeps, DeliverKeeps, AnswerLostKeeps, CancelFrameKeeps, FrameLostKeeps DEF Deliver
<1>4. CASE GoHome
  BY <1>4, VisitKeeps DEF GoHome, Pages
<1>5. CASE PutBack \/ Follow \/ Done \/ Restart \/ BootFetch
  BY <1>5, PutBackKeeps, FollowKeeps, DoneKeeps, RestartKeeps, BootFetchKeeps
<1> QED BY <1>1, <1>2, <1>3, <1>4, <1>5 DEF AppNext

LEMMA AppInvHolds == AppSpec => []AppInv
BY AppInvInit, AppInvNext, PTL DEF AppSpec

\* A driver's active page is of its own ride, whatever job it opened, whatever id
\* it kept, and however late its accepts and polls are answered.
THEOREM OwnRidesOnly == AppSpec => []OnlyOwnRides
<1>1. AppInv => OnlyOwnRides
  BY DEF AppInv, Sound, Mine, OnlyOwnRides
<1> QED BY <1>1, AppInvHolds, PTL

\* The app never says a ride is over that is not, nor keeps a receipt of one.
THEOREM OverIsOver == AppSpec => []SaidOverIsOver
<1>1. AppInv => SaidOverIsOver
  BY ManagedAppAssumption DEF AppInv, Sound, Truthful, SaidOverIsOver
<1> QED BY <1>1, AppInvHolds, PTL

--------------------------------------------------------------------------------
(* A driver's shift.                                                            *)

Call    == [do : {"none", "info", "enable", "rotate", "disable", "rider"},
            stage : {"none", "asking", "waiting", "posting", "answering"}, at : Nat]
Running == [starting : Nat, held : BOOLEAN, running : Nat]
Alerts  == [details : BOOLEAN, watching : BOOLEAN,
            shown : {"idle", "enabled", "trouble", "direct_shift"}]

\* What is held runs: the type of runs is not inductive without it.
ShiftTypes == ShiftTypeOK /\ \A p \in Part : runs[p].held => runs[p].running > 0

\* What a call can be, by its stage and by the setting it was made in.
ErrandShape(c) ==
    /\ c.do = "none" <=> c.stage = "none"
    /\ c.stage \in {"none", "asking", "waiting"} => c.at = 0
    /\ c.stage = "asking" => c.do \in {"info", "enable", "rider"}
    /\ c.stage = "waiting" => c.do = "enable" /\ setting.native
    /\ c.stage \in {"posting", "answering"} =>
          c.do \in {"enable", "rotate", "disable", "rider"} /\ (c.do = "disable" <=> c.at = 0)
    /\ c.do = "rider" => ~setting.native
    /\ c.do = "rotate" => setting.native
    /\ setting.direct => c.do \in {"none", "enable", "rider"} /\ c.stage \in {"none", "asking"}
    /\ setting.direct /\ setting.native => c.do = "none"

\* Whatever crosses what, the wrap keeps details only in managed mode, and
\* "enabled" is said only where rotations are listened to.
ShapeInv ==
    /\ \A s \in Errand : ErrandShape(errand[s]) /\ errand[s].at <= issued
    /\ alerts.details => setting.native /\ ~setting.direct
    /\ shift.connected => shift.stage = "on" /\ ~setting.direct
    /\ alerts.shown = "direct_shift" => setting.direct
    /\ alerts.shown = "enabled" /\ setting.native => alerts.watching
    /\ kept.at \in 0..issued

\* The calls of a person off the shift, and of one on it.
Off(c) == c.do \in {"none", "disable", "rider"}
On(c)  == c.do \in {"none", "info", "enable", "rotate"}

\* The operator has nothing by which it would send this person jobs.
NoJobEntry ==
    kept.at # 0 => \/ kept.role = "requester"
                   \/ "unheard" \in crossed /\ (setting.native => kept.at # device)

\* As long as no call crossed a change, every call is of the shift and the
\* endpoint there are now, and a driver shown neither of the two outcomes has one
\* under way.
CallsInv ==
    /\ \A s \in Errand : errand[s].at \in {0, device}
    /\ shift.stage = "on" =>
          /\ \A s \in Errand : On(errand[s])
          /\ setting.native /\ ~setting.direct => alerts.details
          /\ ~setting.direct /\ alerts.shown \notin {"enabled", "trouble"} =>
                \E s \in Errand : errand[s].do = "enable"
    /\ shift.stage = "off" => (\A s \in Errand : Off(errand[s])) /\ ~alerts.details
    /\ shift.stage = "resume" => (\A s \in Errand : errand[s].do = "none") /\ ~alerts.details

\* What is still to be removed at the operator is on its way.
OffInv == shift.stage = "off" \/ setting.direct =>
    NoJobEntry \/ \E s \in Errand : errand[s].do = "disable" /\ errand[s].stage = "posting"

\* An answer on its way confirms what the operator keeps.
OnInv ==
    /\ \A s \in Errand : errand[s].do \in {"enable", "rotate"} /\ errand[s].stage = "answering" =>
          kept = [at |-> device, role |-> "provider"]
    /\ OnMeansReachable \/ UnderWay # {}

AlertsInv == "alerts" \notin crossed => CallsInv /\ OffInv /\ OnInv

\* One start at most is under way, and none while a handle is held.
PartsInv == "parts" \notin crossed =>
    \A p \in Part :
        /\ runs[p].starting <= 1
        /\ runs[p].held => shift.stage = "on" /\ runs[p].starting = 0
        /\ runs[p].running = IF runs[p].held THEN 1 ELSE 0

\* Put changes the call of s alone.
LEMMA PutTyped ==
    ASSUME errand \in [Errand -> Call], NEW s \in Errand,
           NEW do \in {"none", "info", "enable", "rotate", "disable", "rider"},
           NEW stage \in {"none", "asking", "waiting", "posting", "answering"}, NEW at \in Nat
    PROVE  /\ Put(s, do, stage, at) \in [Errand -> Call]
           /\ Put(s, do, stage, at)[s] = [do |-> do, stage |-> stage, at |-> at]
           /\ \A t \in Errand \ {s} : Put(s, do, stage, at)[t] = errand[t]
  BY DEF Put, Call

\* Without removes the call of s alone.
LEMMA WithoutTyped ==
    ASSUME errand \in [Errand -> Call], NEW s \in Errand
    PROVE  /\ Without(s) \in [Errand -> Call]
           /\ Without(s)[s] = None
           /\ \A t \in Errand \ {s} : Without(s)[t] = errand[t]
  BY DEF Without, None, Call

\* Stopping what is held leaves no handle.
LEMMA StoppedTyped ==
    ASSUME NEW r \in Running, r.held => r.running > 0
    PROVE  /\ Stopped(r) \in Running
           /\ ~Stopped(r).held /\ Stopped(r).starting = r.starting
           /\ Stopped(r).running = IF r.held THEN r.running - 1 ELSE r.running
  BY DEF Stopped, Running

\* Asking for alerts keeps the types.
LEMMA EnablesTyped ==
    ASSUME errand \in [Errand -> Call], alerts \in Alerts, setting \in [native : BOOLEAN, direct : BOOLEAN],
           NEW s \in Errand, Enables(s)
    PROVE  errand' \in [Errand -> Call] /\ alerts' \in Alerts
<1>1. alerts' \in Alerts
  BY DEF Enables, Noted, Alerts
<1>2. errand' \in {Without(s), Put(s, "enable", "asking", 0)}
  BY DEF Enables
<1>3. Without(s) \in [Errand -> Call]
  BY WithoutTyped
<1>4. Put(s, "enable", "asking", 0) \in [Errand -> Call]
  BY PutTyped
<1>. QED
  BY <1>1, <1>2, <1>3, <1>4

\* The end of a shift keeps the types.
LEMMA EndShiftTyped ==
    ASSUME ShiftTypes, EndShift PROVE ShiftTypes'
<1>. USE DEF ShiftTypes, ShiftTypeOK, EndShift
<1>1. errand' \in [Errand -> Call]
  <2>1. \A s \in Errand : Put(s, "disable", "posting", 0) \in [Errand -> Call]
    BY PutTyped DEF Call
  <2>. QED
    BY <2>1 DEF Call
<1>2. alerts' \in Alerts
  BY DEF Forgotten, Alerts
<1>3. runs' \in [Part -> Running] /\ \A p \in Part : ~runs'[p].held
  BY StoppedTyped DEF Running
<1>4. crossed' \subseteq {"alerts", "parts", "unheard"}
  BY DEF CrossedIf
<1>. QED
  BY <1>1, <1>2, <1>3, <1>4 DEF Call, Alerts, Running

\* A reload, in either mode, keeps the types.
LEMMA ReopenedTyped ==
    ASSUME ShiftTypes, NEW direct \in BOOLEAN, Reopened(direct) PROVE ShiftTypes'
<1>. USE DEF ShiftTypes, ShiftTypeOK, Reopened
<1>1. errand' \in [Errand -> Call]
  BY DEF Call, None
<1>2. alerts' \in Alerts
  BY DEF NoAlerts, Alerts
<1>3. runs' \in [Part -> Running] /\ \A p \in Part : ~runs'[p].held
  BY DEF Running
<1>4. crossed' \subseteq {"alerts", "parts", "unheard"}
  BY DEF CrossedIf
<1>5. setting' \in [native : BOOLEAN, direct : BOOLEAN]
  OBVIOUS
<1>6. shift' \in [stage : {"off", "on", "resume"}, connected : BOOLEAN]
  OBVIOUS
<1>. QED
  BY <1>1, <1>2, <1>3, <1>4, <1>5, <1>6 DEF Call, Alerts, Running

\* The start of a shift keeps the types.
LEMMA GoOnlineTyped ==
    ASSUME ShiftTypes, GoOnline PROVE ShiftTypes'
<1>. USE DEF ShiftTypes, ShiftTypeOK, GoOnline
<1>1. errand' \in [Errand -> Call] /\ alerts' \in Alerts
  BY EnablesTyped DEF Call, Alerts
<1>2. runs' \in [Part -> Running] /\ \A p \in Part : runs'[p].held => runs'[p].running > 0
  BY DEF Running
<1>3. crossed' \subseteq {"alerts", "parts", "unheard"}
  OBVIOUS
<1>. QED
  BY <1>1, <1>2, <1>3 DEF Call, Alerts, Running

\* Every step keeps the types.
LEMMA ShiftTypeStep ==
    ASSUME ShiftTypes, [ShiftNext]_shiftVars PROVE ShiftTypes'
<1>. USE DEF ShiftTypes, ShiftTypeOK, None
<1>1. CASE GoOnline
  BY <1>1, GoOnlineTyped
<1>2. CASE GoOffline \/ FinishJob
  BY <1>2, EndShiftTyped DEF GoOffline, FinishJob
<1>3. CASE Reload \/ ChooseMode
  BY <1>3, ReopenedTyped DEF Reload, ChooseMode
<1>4. CASE SocketCloses
  BY <1>4 DEF SocketCloses
<1>5. CASE Revoked
  <2>1. device' = 0 /\ registering' = FALSE
    BY <1>5 DEF Revoked, Stored
  <2>2. crossed' \subseteq {"alerts", "parts", "unheard"}
    BY <1>5 DEF Revoked, CrossedIf
  <2>3. UNCHANGED <<setting, shift, alerts, errand, issued, kept, sending, runs>>
    BY <1>5 DEF Revoked
  <2>4. device' \in 0..issued'
    BY <2>1, <2>3
  <2>. QED
    BY <2>1, <2>2, <2>3, <2>4
<1>6. CASE OperatorRestarts
  BY <1>6 DEF OperatorRestarts, NoEntry, CrossedIf
<1>7. CASE JobAlert \/ RideAlert \/ Sent
  <2>1. sending' \in Nat
    BY <1>7 DEF JobAlert, RideAlert, Sends, Sent
  <2>2. UNCHANGED <<setting, shift, alerts, errand, device, issued, registering, kept, runs, crossed>>
    BY <1>7 DEF JobAlert, RideAlert, Sends, Sent
  <2>. QED
    BY <2>1, <2>2
<1>8. CASE SentToNone
  BY <1>8 DEF SentToNone, NoEntry, CrossedIf
<1>9. ASSUME NEW at \in 1..MaxEndpoints, NewEndpoint(at) PROVE ShiftTypes'
  <2>1. errand' \in [Errand -> Call]
    <3>1. at \in Nat
      BY ShiftAssumption
    <3>2. \A s \in Errand : Put(s, "rotate", "posting", at) \in [Errand -> Call]
      BY <3>1, PutTyped DEF Call
    <3>. QED
      BY <1>9, <3>2 DEF NewEndpoint, Call
  <2>2. device' \in 0..issued' /\ issued' \in Nat /\ registering' = FALSE
    BY <1>9, ShiftAssumption DEF NewEndpoint, Stored
  <2>3. crossed' \subseteq {"alerts", "parts", "unheard"}
    BY <1>9 DEF NewEndpoint, CrossedIf
  <2>4. UNCHANGED <<setting, shift, alerts, kept, sending, runs>>
    BY <1>9 DEF NewEndpoint
  <2>. QED
    BY <2>1, <2>2, <2>3, <2>4 DEF Call
<1>10. ASSUME NEW p \in Part, Started(p) \/ NotStarted(p) PROVE ShiftTypes'
  <2>1. \A q \in Part : runs[q] \in Running
    BY DEF Running
  <2>2. \E r \in Running : (r.held => r.running > 0) /\ runs' = [runs EXCEPT ![p] = r]
    <3>. DEFINE h == runs[p].held /\ (p # "location" \/ shift.stage # "on")
    <3>1. runs[p].starting - 1 \in Nat
      <4>1. runs[p].starting > 0
        BY <1>10 DEF Started, NotStarted
      <4>2. runs[p].starting \in Nat
        BY <2>1 DEF Running
      <4>. QED
        BY <4>1, <4>2
    <3>2. \A held \in BOOLEAN, more \in {0, 1} :
             /\ StartOver(runs[p], held, more) \in Running
             /\ StartOver(runs[p], held, more).held = held
             /\ StartOver(runs[p], held, more).running = runs[p].running + more
      BY <3>1, <2>1 DEF StartOver, Running
    <3>3. \E held \in BOOLEAN, more \in {0, 1} :
             /\ held => runs[p].held \/ more = 1
             /\ runs' = [runs EXCEPT ![p] = StartOver(runs[p], held, more)]
      <4>1. CASE Started(p) /\ shift.stage = "on"
        BY <4>1 DEF Started
      <4>2. CASE Started(p) /\ shift.stage # "on"
        BY <4>2, <2>1 DEF Started, Running
      <4>3. CASE NotStarted(p)
        <5>1. h \in BOOLEAN /\ (h => runs[p].held)
          OBVIOUS
        <5>2. runs' = [runs EXCEPT ![p] = StartOver(runs[p], h, 0)]
          BY <4>3 DEF NotStarted
        <5>. HIDE DEF h
        <5>. QED
          BY <5>1, <5>2
      <4>. QED
        BY <1>10, <4>1, <4>2, <4>3
    <3>4. runs[p].running \in Nat
      BY <2>1 DEF Running
    <3>5. PICK held \in BOOLEAN, more \in {0, 1} :
             /\ held => runs[p].held \/ more = 1
             /\ runs' = [runs EXCEPT ![p] = StartOver(runs[p], held, more)]
      BY <3>3
    <3>6. held => runs[p].running + more > 0
      BY <3>4, <3>5
    <3>7. /\ StartOver(runs[p], held, more) \in Running
          /\ StartOver(runs[p], held, more).held => StartOver(runs[p], held, more).running > 0
      BY <3>2, <3>6
    <3>. QED
      BY <3>5, <3>7
  <2>3. runs' \in [Part -> Running] /\ \A q \in Part : runs'[q].held => runs'[q].running > 0
    BY <2>2 DEF Running
  <2>4. UNCHANGED <<setting, shift, alerts, errand, device, issued, registering, kept, sending, crossed>>
    BY <1>10 DEF Started, NotStarted
  <2>. QED
    BY <2>3, <2>4 DEF Running
<1>11. ASSUME NEW s \in Errand, Refused(s) PROVE ShiftTypes'
  BY <1>11 DEF Refused, Without
<1>12. ASSUME NEW s \in Errand, Subscribed(s) PROVE ShiftTypes'
  BY <1>12 DEF Subscribed, Put
<1>13. ASSUME NEW s \in Errand, Registers(s) PROVE ShiftTypes'
  BY <1>13 DEF Registers, Put
<1>14. ASSUME NEW s \in Errand, AwaitSubscription(s) PROVE ShiftTypes'
  BY <1>14 DEF AwaitSubscription, Put, Without
<1>15. ASSUME NEW s \in Errand, Lands(s) PROVE ShiftTypes'
  BY <1>15 DEF Lands, Entry, NoEntry
<1>16. ASSUME NEW s \in Errand, Answered(s) PROVE ShiftTypes'
  <2>1. alerts' \in Alerts
    BY <1>16 DEF Answered, ShownAfter, Alerts
  <2>2. device' \in 0..issued /\ registering' \in BOOLEAN
    <3>1. Released(errand[s])
      BY <1>16 DEF Answered
    <3>2. CASE errand[s].do = "disable" /\ setting.native
      <4>1. device' = 0 /\ registering' = FALSE
        BY <3>1, <3>2 DEF Released, Stored
      <4>2. issued \in Nat
        OBVIOUS
      <4>3. 0 \in 0..issued
        BY <4>2
      <4>4. registering' \in BOOLEAN
        BY <4>1
      <4>. QED
        BY <4>1, <4>3, <4>4
    <3>3. CASE ~(errand[s].do = "disable" /\ setting.native)
      BY <3>1, <3>3 DEF Released
    <3>. QED
      BY <3>2, <3>3
  <2>3. errand' \in [Errand -> Call]
    BY <1>16, WithoutTyped DEF Answered, Call
  <2>4. UNCHANGED <<setting, shift, issued, kept, sending, runs, crossed>>
    BY <1>16 DEF Answered
  <2>. QED
    BY <2>1, <2>2, <2>3, <2>4 DEF Alerts, Call
<1>17. ASSUME NEW s \in Errand, Lost(s) PROVE ShiftTypes'
  <2>1. alerts' \in Alerts
    BY <1>17 DEF Lost, ShownAfter, Alerts
  <2>2. device' \in 0..issued /\ registering' \in BOOLEAN
    <3>1. Released(errand[s])
      BY <1>17 DEF Lost
    <3>2. CASE errand[s].do = "disable" /\ setting.native
      <4>1. device' = 0 /\ registering' = FALSE
        BY <3>1, <3>2 DEF Released, Stored
      <4>2. issued \in Nat
        OBVIOUS
      <4>3. 0 \in 0..issued
        BY <4>2
      <4>4. registering' \in BOOLEAN
        BY <4>1
      <4>. QED
        BY <4>1, <4>3, <4>4
    <3>3. CASE ~(errand[s].do = "disable" /\ setting.native)
      BY <3>1, <3>3 DEF Released
    <3>. QED
      BY <3>2, <3>3
  <2>3. errand' \in [Errand -> Call]
    BY <1>17, WithoutTyped DEF Lost, Call
  <2>4. UNCHANGED <<setting, shift, issued, kept, sending, runs>>
    BY <1>17 DEF Lost
  <2>5. crossed' \subseteq {"alerts", "parts", "unheard"}
    BY <1>17 DEF Lost, CrossedIf
  <2>. QED
    BY <2>1, <2>2, <2>3, <2>4, <2>5 DEF Alerts, Call
<1>18. ASSUME NEW s \in Errand, RiderAsks(s) PROVE ShiftTypes'
  BY <1>18 DEF RiderAsks, Put, CrossedIf
<1>19. ASSUME NEW s \in Errand, SetAreas(s) PROVE ShiftTypes'
  BY <1>19 DEF SetAreas, Enables, Noted, Put, Without
<1>20. ASSUME NEW s \in Errand, SocketOpens(s) PROVE ShiftTypes'
  BY <1>20 DEF SocketOpens, Put
<1>21. ASSUME NEW s \in Errand, InfoKnown(s) PROVE ShiftTypes'
  BY <1>21 DEF InfoKnown, Enables, Noted, Put, Without
<1>22. CASE UNCHANGED shiftVars
  BY <1>22 DEF shiftVars
<1>. QED
  BY <1>1, <1>2, <1>3, <1>4, <1>5, <1>6, <1>7, <1>8, <1>9, <1>10, <1>11, <1>12, <1>13, <1>14,
     <1>15, <1>16, <1>17, <1>18, <1>19, <1>20, <1>21, <1>22 DEF ShiftNext

\* Every step keeps the calls in shape.
LEMMA ShapeStep ==
    ASSUME ShiftTypes, ShapeInv, [ShiftNext]_shiftVars PROVE ShapeInv'
<1>. USE DEF ShiftTypes, ShiftTypeOK, ShapeInv, ErrandShape, None
<1>0. errand \in [Errand -> Call]
  BY DEF Call
<1>1. CASE GoOnline
  BY <1>1 DEF GoOnline, Enables, Noted, UnderWay, Put, Without
<1>2. CASE GoOffline \/ FinishJob
  <2>0. EndShift
    BY <1>2 DEF GoOffline, FinishJob
  <2>1. \A s \in Errand : ErrandShape(errand[s])' /\ errand'[s].at <= issued'
    <3>1. CASE setting.direct
      BY <2>0, <3>1 DEF EndShift
    <3>2. CASE ~setting.direct
      <4>1. PICK s \in Errand : errand' = Put(s, "disable", "posting", 0)
        BY <2>0, <3>2 DEF EndShift
      <4>2. UNCHANGED <<setting, issued>>
        BY <2>0 DEF EndShift
      <4>3. errand'[s] = [do |-> "disable", stage |-> "posting", at |-> 0]
            /\ \A t \in Errand \ {s} : errand'[t] = errand[t]
        BY <4>1, <1>0 DEF Put, Call
      <4>4. ErrandShape(errand[s])' /\ errand'[s].at <= issued'
        BY <4>2, <4>3, <3>2
      <4>5. ASSUME NEW t \in Errand \ {s} PROVE ErrandShape(errand[t])' /\ errand'[t].at <= issued'
        BY <4>2, <4>3
      <4>. QED
        BY <4>4, <4>5
    <3>. QED
      BY <3>1, <3>2
  <2>2. ~alerts'.details /\ alerts'.watching = alerts.watching /\ alerts'.shown \in {alerts.shown, "idle"}
    BY <2>0 DEF EndShift, Forgotten
  <2>3. ~shift'.connected
    BY <2>0 DEF EndShift
  <2>4. UNCHANGED <<setting, kept, issued>>
    BY <2>0 DEF EndShift
  <2>. QED
    BY <2>1, <2>2, <2>3, <2>4
<1>3. CASE Reload
  BY <1>3 DEF Reload, Reopened, NoAlerts
<1>4. CASE ChooseMode
  BY <1>4 DEF ChooseMode, Reopened, NoAlerts
<1>5. CASE SocketCloses
  BY <1>5 DEF SocketCloses
<1>6. CASE Revoked
  BY <1>6 DEF Revoked
<1>7. CASE OperatorRestarts
  BY <1>7 DEF OperatorRestarts, NoEntry
<1>8. CASE JobAlert \/ RideAlert \/ Sent
  BY <1>8 DEF JobAlert, RideAlert, Sends, Sent
<1>9. CASE SentToNone
  BY <1>9 DEF SentToNone, NoEntry
<1>10. ASSUME NEW at \in 1..MaxEndpoints, NewEndpoint(at) PROVE ShapeInv'
  <2>1. \A s \in Errand : ErrandShape(errand[s])' /\ errand'[s].at <= issued'
    <3>1. CASE Rotates
      <4>1. PICK s \in Errand : errand' = Put(s, "rotate", "posting", at)
        BY <1>10, <3>1 DEF NewEndpoint
      <4>2. UNCHANGED setting /\ setting.native /\ ~setting.direct /\ at \in Nat /\ at # 0
        BY <1>10, <3>1, ShiftAssumption DEF NewEndpoint, Rotates
      <4>3. errand'[s] = [do |-> "rotate", stage |-> "posting", at |-> at]
            /\ \A t \in Errand \ {s} : errand'[t] = errand[t]
        BY <4>1, <1>0 DEF Put, Call
      <4>6. issued <= issued' /\ at <= issued'
        BY <1>10, <4>2 DEF NewEndpoint
      <4>4. ErrandShape(errand[s])' /\ errand'[s].at <= issued'
        BY <4>2, <4>3, <4>6
      <4>5. ASSUME NEW t \in Errand \ {s} PROVE ErrandShape(errand[t])' /\ errand'[t].at <= issued'
        <5>1. errand[t].at \in Nat /\ issued' \in Nat
          BY <1>10, <4>2, <1>0 DEF Call, NewEndpoint
        <5>. QED
          BY <4>2, <4>3, <4>6, <5>1
      <4>. QED
        BY <4>4, <4>5
    <3>2. CASE ~Rotates
  BY <1>10, <3>2 DEF NewEndpoint
    <3>. QED
      BY <3>1, <3>2
  <2>2. UNCHANGED <<setting, shift, alerts, kept>>
    BY <1>10 DEF NewEndpoint
  <2>3. kept'.at \in 0..issued'
    BY <1>10, ShiftAssumption DEF NewEndpoint
  <2>. QED
    BY <2>1, <2>2, <2>3
<1>11. ASSUME NEW p \in Part, Started(p) \/ NotStarted(p) PROVE ShapeInv'
  <2>1. UNCHANGED <<setting, shift, alerts, errand, issued, kept>>
    BY <1>11 DEF Started, NotStarted
  <2>. QED
    BY <2>1
<1>12. ASSUME NEW s \in Errand, Refused(s) PROVE ShapeInv'
  BY <1>12 DEF Refused, Without
<1>13. ASSUME NEW s \in Errand, Subscribed(s) PROVE ShapeInv'
  BY <1>13 DEF Subscribed, Put
<1>14. ASSUME NEW s \in Errand, Registers(s) PROVE ShapeInv'
  BY <1>14 DEF Registers, Put
<1>15. ASSUME NEW s \in Errand, AwaitSubscription(s) PROVE ShapeInv'
  BY <1>15 DEF AwaitSubscription, Put, Without
<1>16. ASSUME NEW s \in Errand, Lands(s) PROVE ShapeInv'
  BY <1>16 DEF Lands, Entry, NoEntry
<1>17. ASSUME NEW s \in Errand, Answered(s) PROVE ShapeInv'
  BY <1>17 DEF Answered, Without, ShownAfter, Released, Stored
<1>18. ASSUME NEW s \in Errand, Lost(s) PROVE ShapeInv'
  BY <1>18 DEF Lost, Without, ShownAfter, Released, Stored, CrossedIf
<1>19. ASSUME NEW s \in Errand, RiderAsks(s) PROVE ShapeInv'
  BY <1>19 DEF RiderAsks, Put, CrossedIf
<1>20. ASSUME NEW s \in Errand, SetAreas(s) PROVE ShapeInv'
  BY <1>20 DEF SetAreas, Enables, Noted, Put, Without
<1>21. ASSUME NEW s \in Errand, SocketOpens(s) PROVE ShapeInv'
  BY <1>21 DEF SocketOpens, Put
<1>22. ASSUME NEW s \in Errand, InfoKnown(s) PROVE ShapeInv'
  BY <1>22 DEF InfoKnown, Enables, Noted, Put, Without
<1>23. CASE UNCHANGED shiftVars
  BY <1>23 DEF shiftVars
<1>. QED
  BY <1>1, <1>2, <1>3, <1>4, <1>5, <1>6, <1>7, <1>8, <1>9, <1>10, <1>11, <1>12, <1>13, <1>14,
     <1>15, <1>16, <1>17, <1>18, <1>19, <1>20, <1>21, <1>22, <1>23 DEF ShiftNext

\* At the end of a shift nothing is left to register an endpoint with.
LEMMA EndShiftForgets ==
    ASSUME ShiftTypes, EndShift PROVE ~alerts'.details
<1>1. ~Forgotten.details /\ ~[Forgotten EXCEPT !.shown = "idle"].details
  BY DEF ShiftTypes, ShiftTypeOK, Forgotten
<1>2. alerts' \in {Forgotten, [Forgotten EXCEPT !.shown = "idle"]}
  BY DEF EndShift
<1>. QED
  BY <1>1, <1>2

\* What is asked of the calls under way, whichever of them happens.
LEMMA CallsInvStep ==
    ASSUME ShiftTypes, ShapeInv, CallsInv, OffInv, OnInv,
           "alerts" \notin crossed', [ShiftNext]_shiftVars
    PROVE  CallsInv'
<1>. USE DEF ShiftTypes, ShiftTypeOK, ShapeInv, ErrandShape, CallsInv, On, Off, OffInv, OnInv,
             OnMeansReachable, Warned, NoJobEntry, None
<1>1. CASE GoOnline
  BY <1>1, ShiftAssumption DEF GoOnline, Enables, Noted, Put, Without, UnderWay
<1>2. CASE GoOffline \/ FinishJob
  <2>0. EndShift
    BY <1>2 DEF GoOffline, FinishJob
  <2>1. \A s \in Errand : errand[s] = None
    BY <2>0 DEF EndShift, CrossedIf, UnderWay, Call
  <2>2. shift'.stage = "off" /\ ~alerts'.details /\ UNCHANGED device
    <3>1. ~alerts'.details
      BY <2>0, EndShiftForgets
    <3>2. shift'.stage = "off" /\ UNCHANGED device
      BY <2>0 DEF EndShift
    <3>. QED
      BY <3>1, <3>2
  <2>3. \A s \in Errand : errand'[s].do \in {"none", "disable"} /\ errand'[s].at = 0
    <3>1. errand \in [Errand -> Call]
      BY DEF Call
    <3>. QED
      BY <2>0, <2>1, <3>1 DEF EndShift, Put, Call
  <2>. QED
    BY <2>2, <2>3
<1>4. CASE Reload
  BY <1>4, ShiftAssumption DEF Reload, Reopened, NoAlerts, CrossedIf, UnderWay
<1>5. CASE ChooseMode
  BY <1>5, ShiftAssumption DEF ChooseMode, Reopened, NoAlerts, CrossedIf, UnderWay
<1>6. CASE SocketCloses
  BY <1>6, ShiftAssumption DEF SocketCloses, UnderWay
<1>7. CASE Revoked
  BY <1>7, ShiftAssumption DEF Revoked, Stored, CrossedIf, Holds, UnderWay
<1>8. CASE OperatorRestarts
  BY <1>8, ShiftAssumption DEF OperatorRestarts, NoEntry, CrossedIf, UnderWay
<1>9. CASE JobAlert \/ RideAlert \/ Sent
  BY <1>9, ShiftAssumption DEF JobAlert, RideAlert, Sends, Sent, UnderWay
<1>10. CASE SentToNone
  BY <1>10, ShiftAssumption DEF SentToNone, NoEntry, CrossedIf, UnderWay
<1>11. ASSUME NEW at \in 1..MaxEndpoints, NewEndpoint(at) PROVE CallsInv'
  BY <1>11, ShiftAssumption DEF NewEndpoint, Stored, Rotates, Put, CrossedIf, Holds, UnderWay
<1>12. ASSUME NEW p \in Part, Started(p) \/ NotStarted(p) PROVE CallsInv'
  <2>1. UNCHANGED <<setting, shift, alerts, errand, device>>
    BY <1>12 DEF Started, NotStarted
  <2>. QED
    BY <2>1
<1>13. ASSUME NEW s \in Errand, Refused(s) PROVE CallsInv'
  BY <1>13, ShiftAssumption DEF Refused, Without, UnderWay
<1>14. ASSUME NEW s \in Errand, Subscribed(s) PROVE CallsInv'
  BY <1>14, ShiftAssumption DEF Subscribed, Put, UnderWay
<1>15. ASSUME NEW s \in Errand, Registers(s) PROVE CallsInv'
  BY <1>15, ShiftAssumption DEF Registers, Put, UnderWay
<1>16. ASSUME NEW s \in Errand, AwaitSubscription(s) PROVE CallsInv'
  <2>1. UNCHANGED <<setting, shift, device>> /\ alerts'.details = alerts.details
    BY <1>16 DEF AwaitSubscription
  <2>2. \A t \in Errand : errand'[t].at \in {0, device} /\ errand'[t].do \in {"none", errand[t].do}
    BY <1>16 DEF AwaitSubscription, Put, Without
  <2>3. CASE device # 0
    BY <1>16, <2>1, <2>2, <2>3 DEF AwaitSubscription, Put
  <2>4. CASE device = 0
    BY <1>16, <2>1, <2>2, <2>4 DEF AwaitSubscription, Without
  <2>. QED
    BY <2>3, <2>4
<1>17. ASSUME NEW s \in Errand, Lands(s) PROVE CallsInv'
  BY <1>17, ShiftAssumption DEF Lands, Entry, NoEntry, UnderWay
<1>18. ASSUME NEW s \in Errand, Answered(s) PROVE CallsInv'
  BY <1>18, ShiftAssumption DEF Answered, Without, ShownAfter, Released, Stored, UnderWay
<1>19. ASSUME NEW s \in Errand, Lost(s) PROVE CallsInv'
  BY <1>19, ShiftAssumption DEF Lost, Without, ShownAfter, Released, Stored, CrossedIf, UnderWay
<1>20. ASSUME NEW s \in Errand, RiderAsks(s) PROVE CallsInv'
  BY <1>20, ShiftAssumption DEF RiderAsks, Put, CrossedIf, UnderWay
<1>21. ASSUME NEW s \in Errand, SetAreas(s) PROVE CallsInv'
  BY <1>21, ShiftAssumption DEF SetAreas, Enables, Noted, Put, Without, UnderWay
<1>22. ASSUME NEW s \in Errand, SocketOpens(s) PROVE CallsInv'
  BY <1>22, ShiftAssumption DEF SocketOpens, Put, UnderWay
<1>23. ASSUME NEW s \in Errand, InfoKnown(s) PROVE CallsInv'
  BY <1>23, ShiftAssumption DEF InfoKnown, Enables, Noted, Put, Without, UnderWay
<1>24. CASE UNCHANGED shiftVars
  BY <1>24, ShiftAssumption DEF shiftVars, UnderWay
<1>. QED
  BY <1>1, <1>2, <1>4, <1>5, <1>6, <1>7, <1>8, <1>9, <1>10, <1>11, <1>12, <1>13, <1>14,
     <1>15, <1>16, <1>17, <1>18, <1>19, <1>20, <1>21, <1>22, <1>23, <1>24 DEF ShiftNext

\* Off the shift, and in direct mode, no entry for jobs is left at the operator,
\* or the call that removes it is on its way.
LEMMA OffInvStep ==
    ASSUME ShiftTypes, ShapeInv, CallsInv, OffInv, OnInv,
           "alerts" \notin crossed', [ShiftNext]_shiftVars
    PROVE  OffInv'
<1>. USE DEF ShiftTypes, ShiftTypeOK, ShapeInv, ErrandShape, CallsInv, On, Off, OffInv, OnInv,
             OnMeansReachable, Warned, NoJobEntry, None
<1>1. CASE GoOnline
  BY <1>1, ShiftAssumption DEF GoOnline, Enables, Noted, Put, Without, UnderWay
<1>2. CASE GoOffline
  BY <1>2, ShiftAssumption DEF GoOffline, EndShift, Forgotten, Put, CrossedIf, UnderWay
<1>3. CASE FinishJob
  BY <1>3, ShiftAssumption DEF FinishJob, EndShift, Forgotten, Put, CrossedIf, UnderWay
<1>4. CASE Reload
  BY <1>4, ShiftAssumption DEF Reload, Reopened, NoAlerts, CrossedIf, UnderWay
<1>5. CASE ChooseMode
  BY <1>5, ShiftAssumption DEF ChooseMode, Reopened, NoAlerts, CrossedIf, UnderWay
<1>6. CASE SocketCloses
  BY <1>6, ShiftAssumption DEF SocketCloses, UnderWay
<1>7. CASE Revoked
  BY <1>7, ShiftAssumption DEF Revoked, Stored, CrossedIf, Holds, UnderWay
<1>8. CASE OperatorRestarts
  BY <1>8, ShiftAssumption DEF OperatorRestarts, NoEntry, CrossedIf, UnderWay
<1>9. CASE JobAlert \/ RideAlert \/ Sent
  BY <1>9, ShiftAssumption DEF JobAlert, RideAlert, Sends, Sent, UnderWay
<1>10. CASE SentToNone
  BY <1>10, ShiftAssumption DEF SentToNone, NoEntry, CrossedIf, UnderWay
<1>11. ASSUME NEW at \in 1..MaxEndpoints, NewEndpoint(at) PROVE OffInv'
  BY <1>11, ShiftAssumption DEF NewEndpoint, Stored, Rotates, Put, CrossedIf, Holds, UnderWay
<1>12. ASSUME NEW p \in Part, Started(p) \/ NotStarted(p) PROVE OffInv'
  <2>1. UNCHANGED <<setting, shift, errand, kept, device, crossed>>
    BY <1>12 DEF Started, NotStarted
  <2>. QED
    BY <2>1
<1>13. ASSUME NEW s \in Errand, Refused(s) PROVE OffInv'
  BY <1>13, ShiftAssumption DEF Refused, Without, UnderWay
<1>14. ASSUME NEW s \in Errand, Subscribed(s) PROVE OffInv'
  BY <1>14, ShiftAssumption DEF Subscribed, Put, UnderWay
<1>15. ASSUME NEW s \in Errand, Registers(s) PROVE OffInv'
  BY <1>15, ShiftAssumption DEF Registers, Put, UnderWay
<1>16. ASSUME NEW s \in Errand, AwaitSubscription(s) PROVE OffInv'
  BY <1>16, ShiftAssumption DEF AwaitSubscription, Put, Without, UnderWay
<1>17. ASSUME NEW s \in Errand, Lands(s) PROVE OffInv'
  BY <1>17, ShiftAssumption DEF Lands, Entry, NoEntry, UnderWay
<1>18. ASSUME NEW s \in Errand, Answered(s) PROVE OffInv'
  BY <1>18, ShiftAssumption DEF Answered, Without, ShownAfter, Released, Stored, UnderWay
<1>19. ASSUME NEW s \in Errand, Lost(s) PROVE OffInv'
  BY <1>19, ShiftAssumption DEF Lost, Without, ShownAfter, Released, Stored, CrossedIf, UnderWay
<1>20. ASSUME NEW s \in Errand, RiderAsks(s) PROVE OffInv'
  BY <1>20, ShiftAssumption DEF RiderAsks, Put, CrossedIf, UnderWay
<1>21. ASSUME NEW s \in Errand, SetAreas(s) PROVE OffInv'
  BY <1>21, ShiftAssumption DEF SetAreas, Enables, Noted, Put, Without, UnderWay
<1>22. ASSUME NEW s \in Errand, SocketOpens(s) PROVE OffInv'
  BY <1>22, ShiftAssumption DEF SocketOpens, Put, UnderWay
<1>23. ASSUME NEW s \in Errand, InfoKnown(s) PROVE OffInv'
  BY <1>23, ShiftAssumption DEF InfoKnown, Enables, Noted, Put, Without, UnderWay
<1>24. CASE UNCHANGED shiftVars
  BY <1>24, ShiftAssumption DEF shiftVars, UnderWay
<1>. QED
  BY <1>1, <1>2, <1>3, <1>4, <1>5, <1>6, <1>7, <1>8, <1>9, <1>10, <1>11, <1>12, <1>13, <1>14,
     <1>15, <1>16, <1>17, <1>18, <1>19, <1>20, <1>21, <1>22, <1>23, <1>24 DEF ShiftNext

\* On the shift what an answer confirms is what the operator keeps.
LEMMA OnInvStep ==
    ASSUME ShiftTypes, ShapeInv, CallsInv, OffInv, OnInv,
           "alerts" \notin crossed', [ShiftNext]_shiftVars
    PROVE  OnInv'
<1>. USE DEF ShiftTypes, ShiftTypeOK, ShapeInv, ErrandShape, CallsInv, On, Off, OffInv, OnInv,
             OnMeansReachable, Warned, NoJobEntry, None
<1>1. CASE GoOnline
  BY <1>1, ShiftAssumption DEF GoOnline, Enables, Noted, Put, Without, UnderWay
<1>2. CASE GoOffline
  BY <1>2, ShiftAssumption DEF GoOffline, EndShift, Forgotten, Put, CrossedIf, UnderWay
<1>3. CASE FinishJob
  BY <1>3, ShiftAssumption DEF FinishJob, EndShift, Forgotten, Put, CrossedIf, UnderWay
<1>4. CASE Reload
  BY <1>4, ShiftAssumption DEF Reload, Reopened, NoAlerts, CrossedIf, UnderWay
<1>5. CASE ChooseMode
  BY <1>5, ShiftAssumption DEF ChooseMode, Reopened, NoAlerts, CrossedIf, UnderWay
<1>6. CASE SocketCloses
  BY <1>6, ShiftAssumption DEF SocketCloses, UnderWay
<1>7. CASE Revoked
  BY <1>7, ShiftAssumption DEF Revoked, Stored, CrossedIf, Holds, UnderWay
<1>8. CASE OperatorRestarts
  BY <1>8, ShiftAssumption DEF OperatorRestarts, NoEntry, CrossedIf, UnderWay
<1>9. CASE JobAlert \/ RideAlert \/ Sent
  BY <1>9, ShiftAssumption DEF JobAlert, RideAlert, Sends, Sent, UnderWay
<1>10. CASE SentToNone
  BY <1>10, ShiftAssumption DEF SentToNone, NoEntry, CrossedIf, UnderWay
<1>11. ASSUME NEW at \in 1..MaxEndpoints, NewEndpoint(at) PROVE OnInv'
  BY <1>11, ShiftAssumption DEF NewEndpoint, Stored, Rotates, Put, CrossedIf, Holds, UnderWay
<1>12. ASSUME NEW p \in Part, Started(p) \/ NotStarted(p) PROVE OnInv'
  BY <1>12, ShiftAssumption DEF Started, NotStarted, UnderWay
<1>13. ASSUME NEW s \in Errand, Refused(s) PROVE OnInv'
  BY <1>13, ShiftAssumption DEF Refused, Without, UnderWay
<1>14. ASSUME NEW s \in Errand, Subscribed(s) PROVE OnInv'
  BY <1>14, ShiftAssumption DEF Subscribed, Put, UnderWay
<1>15. ASSUME NEW s \in Errand, Registers(s) PROVE OnInv'
  BY <1>15, ShiftAssumption DEF Registers, Put, UnderWay
<1>16. ASSUME NEW s \in Errand, AwaitSubscription(s) PROVE OnInv'
  BY <1>16, ShiftAssumption DEF AwaitSubscription, Put, Without, UnderWay
<1>17. ASSUME NEW s \in Errand, Lands(s) PROVE OnInv'
  BY <1>17, ShiftAssumption DEF Lands, Entry, NoEntry, UnderWay
<1>18. ASSUME NEW s \in Errand, Answered(s) PROVE OnInv'
  BY <1>18, ShiftAssumption DEF Answered, Without, ShownAfter, Released, Stored, UnderWay
<1>19. ASSUME NEW s \in Errand, Lost(s) PROVE OnInv'
  BY <1>19, ShiftAssumption DEF Lost, Without, ShownAfter, Released, Stored, CrossedIf, UnderWay
<1>20. ASSUME NEW s \in Errand, RiderAsks(s) PROVE OnInv'
  BY <1>20, ShiftAssumption DEF RiderAsks, Put, CrossedIf, UnderWay
<1>21. ASSUME NEW s \in Errand, SetAreas(s) PROVE OnInv'
  BY <1>21, ShiftAssumption DEF SetAreas, Enables, Noted, Put, Without, UnderWay
<1>22. ASSUME NEW s \in Errand, SocketOpens(s) PROVE OnInv'
  BY <1>22, ShiftAssumption DEF SocketOpens, Put, UnderWay
<1>23. ASSUME NEW s \in Errand, InfoKnown(s) PROVE OnInv'
  BY <1>23, ShiftAssumption DEF InfoKnown, Enables, Noted, Put, Without, UnderWay
<1>24. CASE UNCHANGED shiftVars
  BY <1>24, ShiftAssumption DEF shiftVars, UnderWay
<1>. QED
  BY <1>1, <1>2, <1>3, <1>4, <1>5, <1>6, <1>7, <1>8, <1>9, <1>10, <1>11, <1>12, <1>13, <1>14,
     <1>15, <1>16, <1>17, <1>18, <1>19, <1>20, <1>21, <1>22, <1>23, <1>24 DEF ShiftNext

\* Every step keeps at most one copy of a part, and a handle of it.
LEMMA PartsStep ==
    ASSUME ShiftTypes, PartsInv, [ShiftNext]_shiftVars PROVE PartsInv'
<1>. USE DEF PartsInv
<1>. SUFFICES ASSUME "parts" \notin crossed', NEW p \in Part
              PROVE  /\ runs'[p].starting <= 1
                     /\ runs'[p].held => shift'.stage = "on" /\ runs'[p].starting = 0
                     /\ runs'[p].running = IF runs'[p].held THEN 1 ELSE 0
  OBVIOUS
<1>a. runs \in [Part -> Running] /\ runs[p] \in Running
  BY DEF ShiftTypes, ShiftTypeOK, Running
<1>b. "parts" \notin crossed
  BY DEF ShiftNext, GoOnline, GoOffline, FinishJob, EndShift, Reload, ChooseMode, Reopened, SocketCloses,
         Revoked, OperatorRestarts, JobAlert, RideAlert, Sends, Sent, SentToNone, NewEndpoint, Started,
         NotStarted, Refused, Subscribed, Registers, AwaitSubscription, Lands, Answered, Lost, RiderAsks,
         SetAreas, SocketOpens, InfoKnown, CrossedIf, shiftVars
<1>c. /\ runs[p].starting <= 1
      /\ runs[p].held => shift.stage = "on" /\ runs[p].starting = 0
      /\ runs[p].running = IF runs[p].held THEN 1 ELSE 0
  BY <1>b
<1>1. CASE GoOnline
  <2>1. runs[p].starting = 0
    <3>1. ~(runs[p].starting > 0)
      BY <1>1 DEF GoOnline
    <3>. QED
      BY <3>1, <1>a DEF Running
  <2>2. runs'[p] = [runs[p] EXCEPT !.starting = runs[p].starting + 1] /\ shift.stage # "on"
    BY <1>1 DEF GoOnline
  <2>. QED
    BY <2>1, <2>2, <1>a, <1>c DEF Running
<1>2. CASE GoOffline \/ FinishJob
  <2>1. runs'[p] = Stopped(runs[p])
    BY <1>2 DEF GoOffline, FinishJob, EndShift
  <2>2. runs[p].held => runs[p].running > 0
    BY DEF ShiftTypes
  <2>. QED
    BY <2>1, <2>2, <1>a, <1>c, StoppedTyped
<1>3. CASE Reload \/ ChooseMode
  BY <1>3 DEF Reload, ChooseMode, Reopened
<1>4. ASSUME NEW q \in Part, Started(q) \/ NotStarted(q)
      PROVE  /\ runs'[p].starting <= 1
             /\ runs'[p].held => shift'.stage = "on" /\ runs'[p].starting = 0
             /\ runs'[p].running = IF runs'[p].held THEN 1 ELSE 0
  <2>. shift' = shift
    BY <1>4 DEF Started, NotStarted
  <2>1. CASE p # q
    <3>. runs'[p] = runs[p]
      BY <1>4, <2>1, <1>a DEF Started, NotStarted
    <3>. QED
      BY <1>c
  <2>2. CASE p = q
    <3>1. runs[p].starting = 1 /\ ~runs[p].held /\ runs[p].running = 0
      <4>1. runs[p].starting > 0
        BY <1>4, <2>2 DEF Started, NotStarted
      <4>. QED
        BY <4>1, <1>a, <1>c DEF Running
    <3>2. CASE Started(p) /\ shift.stage = "on"
      <4>1. runs'[p] = StartOver(runs[p], TRUE, 1)
        BY <3>2, <1>a DEF Started
      <4>. QED
        BY <4>1, <3>1, <3>2 DEF StartOver
    <3>3. CASE Started(p) /\ shift.stage # "on"
      <4>1. runs'[p] = StartOver(runs[p], runs[p].held, 0)
        BY <3>3, <1>a DEF Started
      <4>. QED
        BY <4>1, <3>1 DEF StartOver
    <3>4. CASE NotStarted(p)
      <4>1. runs'[p] = StartOver(runs[p], FALSE, 0)
        BY <3>4, <3>1, <1>a DEF NotStarted
      <4>. QED
        BY <4>1, <3>1 DEF StartOver
    <3>. QED
      BY <1>4, <2>2, <3>2, <3>3, <3>4
  <2>. QED
    BY <2>1, <2>2
<1>5. CASE UNCHANGED <<runs, shift>>
  BY <1>5, <1>c
<1>6. CASE \/ SocketCloses \/ OperatorRestarts \/ \E s \in Errand : SocketOpens(s)
  <2>1. runs' = runs /\ shift'.stage = shift.stage
    BY <1>6 DEF SocketCloses, OperatorRestarts, SocketOpens, ShiftTypes, ShiftTypeOK
  <2>. QED
    BY <2>1, <1>c
<1>. QED
  BY <1>1, <1>2, <1>3, <1>4, <1>5, <1>6
     DEF ShiftNext, Revoked, JobAlert, RideAlert, Sends, Sent, SentToNone, NewEndpoint,
         Refused, Subscribed, Registers, AwaitSubscription, Lands, Answered, Lost, RiderAsks,
         SetAreas, InfoKnown, shiftVars

\* The inductive invariant.
ShiftInv == ShiftTypes /\ ShapeInv /\ AlertsInv /\ PartsInv

\* The invariant holds before the first shift.
LEMMA ShiftInitInv ==
    ASSUME ShiftInit PROVE ShiftInv
<1>1. ShiftTypes
  <2>1. errand \in [Errand -> Call]
    BY DEF ShiftInit, None, Call
  <2>2. runs \in [Part -> Running] /\ \A p \in Part : ~runs[p].held
    BY DEF ShiftInit, Running
  <2>3. alerts \in Alerts
    BY DEF ShiftInit, NoAlerts, Alerts
  <2>4. setting \in [native : BOOLEAN, direct : BOOLEAN]
        /\ shift \in [stage : {"off", "on", "resume"}, connected : BOOLEAN]
    BY DEF ShiftInit
  <2>5. kept \in [at : Nat, role : {"provider", "requester"}] /\ sending \in Nat
    BY DEF ShiftInit, NoEntry
  <2>6. device \in 0..issued /\ issued \in Nat /\ crossed = {}
    BY DEF ShiftInit
  <2>7. registering \in BOOLEAN
    BY DEF ShiftInit
  <2>. QED
    BY <2>1, <2>2, <2>3, <2>4, <2>5, <2>6, <2>7 DEF ShiftTypes, ShiftTypeOK, Call, Running, Alerts
<1>2. ShapeInv
  BY DEF ShiftInit, ShapeInv, ErrandShape, NoAlerts, NoEntry, None
<1>3. AlertsInv
  BY DEF ShiftInit, AlertsInv, CallsInv, OffInv, NoJobEntry, OnInv, OnMeansReachable, Off, On,
         NoAlerts, NoEntry, None
<1>4. PartsInv
  BY DEF ShiftInit, PartsInv
<1>. QED
  BY <1>1, <1>2, <1>3, <1>4 DEF ShiftInv

\* Every step that crosses nothing keeps the calls, the entry and the page in step.
LEMMA AlertsStep ==
    ASSUME ShiftTypes, ShapeInv, AlertsInv, [ShiftNext]_shiftVars PROVE AlertsInv'
<1>. SUFFICES ASSUME "alerts" \notin crossed' PROVE CallsInv' /\ OffInv' /\ OnInv'
  BY DEF AlertsInv
<1>1. "alerts" \notin crossed
  BY DEF ShiftNext, GoOnline, GoOffline, FinishJob, EndShift, Reload, ChooseMode, Reopened, SocketCloses,
         Revoked, OperatorRestarts, JobAlert, RideAlert, Sends, Sent, SentToNone, NewEndpoint, Started,
         NotStarted, Refused, Subscribed, Registers, AwaitSubscription, Lands, Answered, Lost, RiderAsks,
         SetAreas, SocketOpens, InfoKnown, CrossedIf, shiftVars
<1>2. CallsInv /\ OffInv /\ OnInv
  BY <1>1 DEF AlertsInv
<1>. QED
  BY <1>2, CallsInvStep, OffInvStep, OnInvStep

\* The invariant holds in every state.
LEMMA ShiftInvKept == ShiftSpec => []ShiftInv
<1>1. ShiftInv /\ [ShiftNext]_shiftVars => ShiftInv'
  BY ShiftTypeStep, ShapeStep, AlertsStep, PartsStep DEF ShiftInv
<1>. QED
  BY <1>1, ShiftInitInv, PTL DEF ShiftSpec

\* However calls, endpoints, sockets, reloads and restarts of the operator fall:
\* while no call crossed a change of the shift, the endpoint or the role, a driver
\* who is off is kept by no operator for jobs, one who is on and not warned is
\* kept with the endpoint of the device, and parts run as the shift does.
THEOREM ShiftKept == ShiftSpec => []ShiftIsKept
<1>1. ShiftInv => ShiftIsKept
  <2>. SUFFICES ASSUME ShiftInv PROVE ShiftIsKept
    OBVIOUS
  <2>1. ASSUME Settled PROVE OffMeansOff /\ OnMeansReachable
    <3>1. \A s \in Errand : errand[s].do = "none"
      BY <2>1 DEF Settled, UnderWay
    <3>2. OffInv /\ OnInv
      BY <2>1 DEF Settled, ShiftInv, AlertsInv
    <3>3. OffMeansOff
      BY <3>1, <3>2 DEF OffInv, NoJobEntry, OffMeansOff
    <3>4. OnMeansReachable
      BY <2>1, <3>2 DEF OnInv, Settled
    <3>. QED
      BY <3>3, <3>4
  <2>2. ASSUME "parts" \notin crossed PROVE PartsFollowShift
    BY <2>2 DEF ShiftInv, PartsInv, PartsFollowShift
  <2>. QED
    BY <2>1, <2>2 DEF ShiftIsKept
<1>. QED
  BY <1>1, ShiftInvKept, PTL

=============================================================================
