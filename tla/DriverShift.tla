------------------------------ MODULE DriverShift ------------------------------
(***************************************************************************)
(* A driver's shift: what going online sets going and going offline must   *)
(* end (dispatch.ts), and the alerts that reach a phone whose app is not   *)
(* on screen (push.ts, unified-push.ts, the Android service and plugin,    *)
(* push.js and its routes in server.js).                                   *)
(*                                                                         *)
(* The person has one device.  In a browser its endpoint is the browser's  *)
(* subscription, kept for the next shift; in the Android wrap it is the    *)
(* distributor's, asked for at the start of a shift and given back at its  *)
(* end.  An endpoint is a number, 0 is none, and none is given out twice.  *)
(* What an entry at the operator is to match with (areas, location) is     *)
(* left out: see module Dispatch.                                          *)
(***************************************************************************)
EXTENDS Naturals, FiniteSets

CONSTANTS
    Errand,       \* bound: the app's calls under way
    Part,         \* what a shift runs and holds a handle of: "location", "federation"
    MaxEndpoints, \* bound: endpoints given out
    MaxStarts     \* bound: copies of a part starting or running

ASSUME ShiftAssumption == MaxEndpoints \in Nat /\ MaxStarts \in Nat

VARIABLES
    setting,     \* the build (Android wrap or browser) and the mode (direct or managed)
    shift,       \* DispatchService.online, or left to be resumed, and its socket
    alerts,      \* lastJobSubscribe, rotationWatcher and pushState
    errand,      \* the calls of push.ts under way
    device,      \* the device's endpoint: PushStore, or the browser's subscription
    issued,      \* endpoints given out so far
    registering, \* the distributor owes an endpoint
    kept,        \* the operator's entry for this person
    sending,     \* the endpoint of a push the operator waits for
    runs,        \* per part: starts under way, the handle held, how many run
    crossed      \* history: "alerts" or "parts" crossed a change (see below), or the end
                 \* of the alerts was "unheard"

shiftVars == <<setting, shift, alerts, errand, device, issued, registering, kept, sending,
               runs, crossed>>

None == [do |-> "none", stage |-> "none", at |-> 0]

NoAlerts == [details |-> FALSE, watching |-> FALSE, shown |-> "idle"]
NoEntry  == [at |-> 0, role |-> "provider"]

ShiftInit ==
    /\ setting \in [native : BOOLEAN, direct : BOOLEAN]
    /\ shift = [stage |-> "off", connected |-> FALSE]
    /\ alerts = NoAlerts /\ errand = [s \in Errand |-> None]
    /\ device = 0 /\ issued = 0 /\ registering = FALSE
    /\ kept = NoEntry /\ sending = 0
    /\ runs = [p \in Part |-> [starting |-> 0, held |-> FALSE, running |-> 0]]
    /\ crossed = {}

UnderWay == {s \in Errand : errand[s].do # "none"}

\* Errands that hold another endpoint than the device has now.
Holds(at) == \E s \in Errand : errand[s].at \notin {0, at}

Put(s, do, stage, at) == [errand EXCEPT ![s] = [do |-> do, stage |-> stage, at |-> at]]
Without(s) == [errand EXCEPT ![s] = None]
CrossedIf(what, condition) == crossed' = IF condition THEN crossed \cup {what} ELSE crossed

--------------------------------------------------------------------------------
(* Asking for alerts.  Up to its first await enableJobPush only notes what a   *)
(* new endpoint is to be registered with; in direct mode the wrap needs none.  *)

Noted == [alerts EXCEPT !.details = setting.native /\ ~setting.direct,
                        !.shown = IF setting.native /\ setting.direct THEN "direct_shift" ELSE @]

Enables(s) ==
    /\ errand[s].do \in {"none", "info"}
    /\ alerts' = Noted
    /\ errand' = IF setting.native /\ setting.direct THEN Without(s) ELSE Put(s, "enable", "asking", 0)

\* The permission, the key, the worker or the distributor was not to be had.
Refused(s) ==
    /\ errand[s].do \in {"enable", "rider"} /\ errand[s].stage = "asking"
    /\ errand' = Without(s)
    /\ alerts' = IF errand[s].do = "enable" THEN [alerts EXCEPT !.shown = "trouble"] ELSE alerts
    /\ UNCHANGED <<setting, shift, device, issued, registering, kept, sending, runs, crossed>>

\* The browser has a subscription, or makes one.  In direct mode there is no key.
Subscribed(s) ==
    /\ errand[s].do \in {"enable", "rider"} /\ errand[s].stage = "asking"
    /\ ~setting.native /\ ~setting.direct
    /\ \/ device # 0 /\ UNCHANGED <<device, issued>>
       \/ device = 0 /\ issued < MaxEndpoints /\ issued' = issued + 1 /\ device' = issued + 1
    /\ errand' = Put(s, errand[s].do, "posting", device')
    /\ UNCHANGED <<setting, shift, alerts, registering, kept, sending, runs, crossed>>

\* The wrap asks its distributor, and waits for an endpoint to be stored.
Registers(s) ==
    /\ errand[s].do = "enable" /\ errand[s].stage = "asking" /\ setting.native
    /\ errand' = Put(s, "enable", "waiting", 0) /\ registering' = TRUE
    /\ UNCHANGED <<setting, shift, alerts, device, issued, kept, sending, runs, crossed>>

AwaitSubscription(s) ==
    /\ errand[s].stage = "waiting"
    /\ \/ /\ device # 0 /\ errand' = Put(s, "enable", "posting", device) /\ UNCHANGED alerts
       \/ /\ device = 0 /\ errand' = Without(s) /\ alerts' = [alerts EXCEPT !.shown = "trouble"]
    /\ UNCHANGED <<setting, shift, device, issued, registering, kept, sending, runs, crossed>>

\* What the operator makes of a call that reaches it: one entry per person.
Entry(call) ==
    CASE call.do = "disable" -> NoEntry
      [] call.do = "rider"   -> [at |-> call.at, role |-> "requester"]
      [] OTHER               -> [at |-> call.at, role |-> "provider"]

Lands(s) ==
    /\ errand[s].stage = "posting"
    /\ kept' = Entry(errand[s])
    /\ errand' = [errand EXCEPT ![s].stage = "answering"]
    /\ UNCHANGED <<setting, shift, alerts, device, issued, registering, sending, runs, crossed>>

\* What the service stores; none where the endpoint takes no encrypted message.
Stored(at) == device' = at /\ registering' = FALSE

\* At the end of disableJobPush, heard or not, the wrap gives its endpoint back.
Released(call) ==
    IF call.do = "disable" /\ setting.native
    THEN Stored(0)
    ELSE UNCHANGED <<device, registering>>

ShownAfter(call, ok) ==
    CASE call.do = "disable"               -> "idle"
      [] call.do = "enable" /\ ok          -> "enabled"
      [] call.do # "rider" /\ ~ok          -> "trouble"
      [] OTHER                             -> alerts.shown

Answered(s) ==
    /\ errand[s].stage = "answering"
    /\ errand' = Without(s)
    /\ alerts' = [alerts EXCEPT !.shown = ShownAfter(errand[s], TRUE),
                                !.watching = @ \/ (errand[s].do = "enable" /\ setting.native)]
    /\ Released(errand[s])
    /\ UNCHANGED <<setting, shift, issued, kept, sending, runs, crossed>>

\* The call or its answer is lost.
Lost(s) ==
    /\ errand[s].stage \in {"posting", "answering"}
    /\ errand' = Without(s)
    /\ alerts' = [alerts EXCEPT !.shown = ShownAfter(errand[s], FALSE)]
    /\ Released(errand[s])
    /\ CrossedIf("unheard", errand[s].do = "disable" /\ errand[s].stage = "posting")
    /\ UNCHANGED <<setting, shift, issued, kept, sending, runs>>

--------------------------------------------------------------------------------
(* The device.                                                                 *)

\* watchForRotation registers what it hears of; it is not told of none.
Rotates == alerts.watching /\ alerts.details

\* The distributor answers, or hands out another endpoint.
NewEndpoint(at) ==
    /\ setting.native /\ (registering \/ device # 0)
    /\ at \in ({device} \ {0}) \cup (IF issued < MaxEndpoints THEN {issued + 1} ELSE {})
    /\ Stored(at)
    /\ issued' = IF at > issued THEN at ELSE issued
    /\ IF Rotates
       THEN \E s \in Errand \ UnderWay : errand' = Put(s, "rotate", "posting", at)
       ELSE UNCHANGED errand
    /\ CrossedIf("alerts", Holds(at))
    /\ UNCHANGED <<setting, shift, alerts, kept, sending, runs>>

\* The registration failed or was revoked, or the endpoint takes no encrypted
\* message.  The handler ignores it.
Revoked ==
    /\ setting.native /\ (registering \/ device # 0)
    /\ Stored(0)
    /\ CrossedIf("alerts", Holds(0))
    /\ UNCHANGED <<setting, shift, alerts, errand, issued, kept, sending, runs>>

\* The person asks for a ride, from the same browser.
RiderAsks(s) ==
    /\ ~setting.native /\ errand[s].do = "none"
    /\ errand' = Put(s, "rider", "asking", 0)
    /\ CrossedIf("alerts", shift.stage # "off")
    /\ UNCHANGED <<setting, shift, alerts, device, issued, registering, kept, sending, runs>>

--------------------------------------------------------------------------------
(* The shift.  crossed keeps when one change of the shift was not waited for   *)
(* before the next: the calls of the two may then land in either order.        *)

GoOnline ==
    /\ shift.stage # "on"
    /\ shift' = [shift EXCEPT !.stage = "on"]
    /\ \E s \in Errand : errand[s].do = "none" /\ Enables(s)
    /\ \A p \in Part : runs[p].starting + runs[p].running < MaxStarts
    /\ runs' = [p \in Part |-> [runs[p] EXCEPT !.starting = @ + 1]]
    /\ crossed' = crossed \cup (IF UnderWay # {} THEN {"alerts"} ELSE {})
                          \cup {x \in {"parts"} : \E p \in Part : runs[p].starting > 0}
    /\ UNCHANGED <<setting, device, issued, registering, kept, sending>>

\* What a later endpoint would be registered with.
Forgotten_Not == alerts
Forgotten == [alerts EXCEPT !.details = FALSE]

\* Stops what it holds a handle of.
Stopped(r) == [starting |-> r.starting, held |-> FALSE,
               running |-> IF r.held THEN r.running - 1 ELSE r.running]

EndShift ==
    /\ shift' = [stage |-> "off", connected |-> FALSE]
    /\ runs' = [p \in Part |-> Stopped(runs[p])]
    /\ IF setting.direct
       THEN alerts' = [Forgotten EXCEPT !.shown = "idle"] /\ UNCHANGED errand
       ELSE /\ alerts' = Forgotten
            /\ \E s \in Errand \ UnderWay : errand' = Put(s, "disable", "posting", 0)
    /\ CrossedIf("alerts", UnderWay # {})
    /\ UNCHANGED <<setting, device, issued, registering, kept, sending>>

GoOffline == shift.stage = "on" /\ EndShift

\* "One more and I'm done": it does not ask whether the shift is still on.
FinishJob == EndShift

\* One start of a part is over.
StartOver(r, held, more) ==
    [starting |-> r.starting - 1, held |-> held, running |-> r.running + more]

\* The watcher, or the subscription, has started: a shift that ended meanwhile stops it.
Started(p) ==
    /\ runs[p].starting > 0
    /\ runs' = [runs EXCEPT ![p] = IF shift.stage = "on" THEN StartOver(@, TRUE, 1)
                                                        ELSE StartOver(@, @.held, 0)]
    /\ UNCHANGED <<setting, shift, alerts, errand, device, issued, registering, kept, sending,
                   crossed>>

\* On the web, and where it is not permitted, there is no watcher.
NotStarted(p) ==
    /\ runs[p].starting > 0
    /\ runs' = [runs EXCEPT ![p] =
                   StartOver(@, @.held /\ (p # "location" \/ shift.stage # "on"), 0)]
    /\ UNCHANGED <<setting, shift, alerts, errand, device, issued, registering, kept, sending,
                   crossed>>

\* New working areas are registered too.
SetAreas(s) ==
    /\ shift.stage = "on" /\ errand[s].do = "none" /\ Enables(s)
    /\ UNCHANGED <<setting, shift, device, issued, registering, kept, sending, runs, crossed>>

\* The socket of dispatch: it first asks what kind of operator this is, and does
\* not look again whether the shift is still on.
SocketOpens(s) ==
    /\ shift.stage = "on" /\ ~shift.connected /\ ~setting.direct
    /\ errand[s].do = "none"
    /\ shift' = [shift EXCEPT !.connected = TRUE]
    /\ errand' = Put(s, "info", "asking", 0)
    /\ UNCHANGED <<setting, alerts, device, issued, registering, kept, sending, runs, crossed>>

InfoKnown(s) ==
    /\ errand[s].do = "info" /\ Enables(s)
    /\ UNCHANGED <<setting, shift, device, issued, registering, kept, sending, runs, crossed>>

SocketCloses ==
    /\ shift.connected
    /\ shift' = [shift EXCEPT !.connected = FALSE]
    /\ UNCHANGED <<setting, alerts, errand, device, issued, registering, kept, sending, runs,
                   crossed>>

\* The page or the app is closed and opened again: a shift is resumed once there is a fix.
Reopened(direct) ==
    /\ setting' = [setting EXCEPT !.direct = direct]
    /\ shift' = [stage |-> IF shift.stage = "off" THEN "off" ELSE "resume", connected |-> FALSE]
    /\ alerts' = NoAlerts /\ errand' = [s \in Errand |-> None]
    /\ runs' = [p \in Part |-> [starting |-> 0, held |-> FALSE, running |-> 0]]
    /\ CrossedIf("alerts", UnderWay # {} \/ (direct # setting.direct /\ shift.stage # "off"))
    /\ UNCHANGED <<device, issued, registering, kept, sending>>

Reload == Reopened(setting.direct)

\* The picker is locked while the shift is on, not while it waits to be resumed.
ChooseMode == shift.stage # "on" /\ Reopened(~setting.direct)

--------------------------------------------------------------------------------
(* The operator.                                                               *)

\* Entries are in memory only; drivers register again as their sockets reopen.
OperatorRestarts ==
    /\ kept' = NoEntry /\ sending' = 0
    /\ shift' = [shift EXCEPT !.connected = FALSE]
    /\ CrossedIf("alerts", \E s \in Errand : errand[s].stage = "answering")
    /\ UNCHANGED <<setting, alerts, errand, device, issued, registering, runs>>

Sends ==
    /\ sending = 0 /\ kept.at # 0
    /\ sending' = kept.at
    /\ UNCHANGED <<setting, shift, alerts, errand, device, issued, registering, kept, runs, crossed>>

\* A new job is pushed to the drivers who have no socket.
JobAlert == kept.role = "provider" /\ ~shift.connected /\ Sends

\* News of a ride is pushed to its people, by whatever entry they have.
RideAlert == Sends

Sent ==
    /\ sending # 0 /\ sending' = 0
    /\ UNCHANGED <<setting, shift, alerts, errand, device, issued, registering, kept, runs, crossed>>

\* The push service knows the endpoint no more: whatever entry is there now goes.
SentToNone ==
    /\ sending \notin {0, device}
    /\ sending' = 0 /\ kept' = NoEntry
    /\ CrossedIf("alerts", kept.at \notin {0, sending})
    /\ UNCHANGED <<setting, shift, alerts, errand, device, issued, registering, runs>>

--------------------------------------------------------------------------------

ShiftNext ==
    \/ GoOnline \/ GoOffline \/ FinishJob \/ Reload \/ ChooseMode \/ SocketCloses
    \/ Revoked \/ OperatorRestarts \/ JobAlert \/ RideAlert \/ Sent \/ SentToNone
    \/ \E at \in 1..MaxEndpoints : NewEndpoint(at)
    \/ \E p \in Part : Started(p) \/ NotStarted(p)
    \/ \E s \in Errand :
          \/ Refused(s) \/ Subscribed(s) \/ Registers(s) \/ AwaitSubscription(s)
          \/ Lands(s) \/ Answered(s) \/ Lost(s)
          \/ RiderAsks(s) \/ SetAreas(s) \/ SocketOpens(s) \/ InfoKnown(s)

ShiftSpec == ShiftInit /\ [][ShiftNext]_shiftVars

--------------------------------------------------------------------------------

ShiftTypeOK ==
    /\ setting \in [native : BOOLEAN, direct : BOOLEAN]
    /\ shift \in [stage : {"off", "on", "resume"}, connected : BOOLEAN]
    /\ alerts \in [details : BOOLEAN, watching : BOOLEAN,
                   shown : {"idle", "enabled", "trouble", "direct_shift"}]
    /\ errand \in [Errand -> [do : {"none", "info", "enable", "rotate", "disable", "rider"},
                              stage : {"none", "asking", "waiting", "posting", "answering"},
                              at : Nat]]
    /\ device \in 0..issued /\ issued \in Nat /\ registering \in BOOLEAN
    /\ kept \in [at : Nat, role : {"provider", "requester"}] /\ sending \in Nat
    /\ runs \in [Part -> [starting : Nat, held : BOOLEAN, running : Nat]]
    /\ crossed \subseteq {"alerts", "parts", "unheard"}

\* The dashboard says that alerts do not arrive, and why.
Warned == alerts.shown = "trouble"

\* No call is under way, and none crossed a change.
Settled == UnderWay = {} /\ "alerts" \notin crossed

\* "Going off shift: the operator stops pushing to this device" (push.ts): it
\* keeps no entry by which a driver who is off would be sent jobs, or, where it
\* did not hear of the end, one for an endpoint the wrap gave back.
OffMeansOff ==
    shift.stage = "off" /\ kept.at # 0 =>
        \/ kept.role = "requester"
        \/ "unheard" \in crossed /\ (setting.native => kept.at # device)

\* A driver whom the page does not warn is kept with the endpoint the device
\* has now: "a subscription with no endpoint would be a driver who believes they
\* are reachable and is not" (push.ts).
OnMeansReachable ==
    shift.stage = "on" /\ shift.connected /\ ~Warned /\ device # 0 =>
        kept = [at |-> device, role |-> "provider"]

\* Off the shift no watcher of the driver's place runs, and no subscription; on
\* it at most the one that can still be stopped.
PartsFollowShift ==
    \A p \in Part :
        runs[p].running = IF shift.stage = "on" /\ runs[p].held THEN 1 ELSE 0

\* Alerts and parts follow the shift, for every order of the app's calls, new
\* endpoints, lost sockets and calls, reloads and restarts of the operator in
\* which no call crosses a change of the shift, of the endpoint or of the role
\* the person registered with.
ShiftIsKept ==
    /\ Settled => OffMeansOff /\ OnMeansReachable
    /\ "parts" \notin crossed => PartsFollowShift
================================================================================
