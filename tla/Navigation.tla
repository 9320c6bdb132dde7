------------------------------ MODULE Navigation -------------------------------
(***************************************************************************)
(* Turn-by-turn guidance (src/navigation): a provider chosen along a       *)
(* fallback chain, the route that nets the driver most, and the session    *)
(* that follows the driver's fixes, recalculates the route away from it    *)
(* and refreshes the arrival time.  No program of the repository loads     *)
(* this library; the module drives it as its comments say.                 *)
(*                                                                         *)
(* The road is a line of places; the 10 m within which an instruction      *)
(* counts as reached is one place.  An ORS step names its place by an      *)
(* index, not by coordinates: every comparison with it is false.           *)
(***************************************************************************)
EXTENDS Integers, Sequences, FiniteSets, SequencesExt

CONSTANTS
    Trips,      \* rides guided
    Far,        \* the road is 0..Far
    Starts,     \* where a driver is when a route is asked for
    Target,     \* where every ride goes
    Crossings,   \* places where a road route gives an instruction
    Wanted,      \* NAVIGATION_PROVIDER and NAVIGATION_FALLBACKS
    OrsKey,      \* an ORS key is configured
    OffBy,       \* rerouteThreshold, in places
    Nearby,      \* instructionAdvanceDistance, in places
    EtaSlack,    \* a smaller change of the arrival time is not told
    Paces,       \* time per place, as the traffic has it
    MaxGuides,   \* bound: sessions started
    MaxReroutes, \* bound: recalculations, over all sessions
    MaxDriven,   \* bound: places driven, over all sessions
    MaxAwaited,  \* bound: calls to the provider under way
    Nowhere      \* no place, no provider

ASSUME NavAssumption ==
    /\ Far \in Nat /\ Target \in 0..Far /\ Starts \cup Crossings \subseteq 0..Far
    /\ Paces \subseteq Nat \ {0} /\ Paces # {}
    /\ {OffBy, Nearby, EtaSlack} \subseteq Nat

VARIABLES
    engine,  \* service.provider
    trial,   \* how far along the chain initialize has got
    guide,   \* the sessions, in the order they were started
    followed, \* activeSessions: ride -> its session, 0 when it has none
    awaited  \* calls to the provider under way

navVars == <<engine, trial, guide, followed, awaited>>

Way(a, b) == IF a > b THEN a - b ELSE b - a

NavInit ==
    /\ engine = Nowhere /\ trial = 1
    /\ guide = <<>> /\ followed = [r \in Trips |-> 0] /\ awaited = {}

--------------------------------------------------------------------------------
(* Routes.                                                                     *)

\* Where the instructions of a road route from p are: departure, turns, arrival.
Between(p) ==
    {c \in Crossings \ {p, Target} : Way(p, c) + Way(c, Target) = Way(p, Target)}

Turns(p) ==
    LET size == Cardinality(Between(p))
        inOrder == {at \in [1..size -> Between(p)] :
                       \A m, n \in 1..size : m < n => Way(p, at[m]) < Way(p, at[n])}
    IN  {<<p>> \o at \o <<Target>> : at \in inOrder}

Route(dist, time, steps) == [dist |-> dist, time |-> time, steps |-> steps]
NavStep(at, len) == [at |-> at, len |-> len]

\* parseInstructions: each with its own length, the arrival without one.
Length(turns, i) == IF i < Len(turns) THEN Way(turns[i], turns[i + 1]) ELSE 0
OsrmSteps(turns) == [i \in DOMAIN turns |-> NavStep(turns[i], Length(turns, i))]
OrsSteps(turns)  == [i \in DOMAIN turns |-> NavStep(Nowhere, Length(turns, i))]

\* The two engines' answer for the road by these turns, around by detour.
Distance(turns, detour) == Way(Head(turns), Target) + detour
OsrmRoute(turns, detour, pace) ==
    Route(Distance(turns, detour), Distance(turns, detour) * pace, OsrmSteps(turns))
OrsRoute(turns, detour, pace) ==
    Route(Distance(turns, detour), Distance(turns, detour) * pace, OrsSteps(turns))

RouteOf(e, turns, detour, pace) ==
    IF e = "osrm" THEN OsrmRoute(turns, detour, pace) ELSE OrsRoute(turns, detour, pace)

\* findBestRoute: what each nets of the fare, after fuel, time and traffic, is left
\* out: it may be any of those the engine can answer.
Recommended(turns) ==
    {RouteOf(engine, turns, detour, pace) : detour \in {0, 1}, pace \in Paces}

--------------------------------------------------------------------------------
(* The provider.                                                               *)

CanBeMade(type) == type = "osrm" \/ (type = "ors" /\ OrsKey)

\* createWithFallbacks: the next of the chain is made and answers its check.
Adopt ==
    /\ engine = Nowhere /\ trial \in DOMAIN Wanted /\ CanBeMade(Wanted[trial])
    /\ engine' = Wanted[trial]
    /\ UNCHANGED <<trial, guide, followed, awaited>>

\* It cannot be made, or fails its check.
TryNext ==
    /\ engine = Nowhere /\ trial \in DOMAIN Wanted
    /\ trial' = trial + 1
    /\ UNCHANGED <<engine, guide, followed, awaited>>

\* None is left: initialize takes the public OSRM, unchecked.
LastProvider ==
    /\ engine = Nowhere /\ trial > Len(Wanted)
    /\ engine' = "osrm"
    /\ UNCHANGED <<trial, guide, followed, awaited>>

--------------------------------------------------------------------------------
(* The service.                                                                *)

\* calculateOptimalRoute: what it may answer for a driver at p; no route is an error.
OptimalRoutes(p) == UNION {Recommended(turns) : turns \in Turns(p)}

Guidance(route, p) ==
    [ provider |-> engine, route |-> route, fix |-> p, index |-> 1,
      announced |-> {}, active |-> TRUE, rerouting |-> FALSE,
      remaining |-> route.dist, time |-> route.time, driven |-> 0, reroutes |-> 0,
      been |-> {} ]  \* history: where the driver was since this route was taken

\* startNavigation, of a route calculated from where the driver was, or has
\* got to since.  A session the ride already had keeps its timer.
StartNavigation(r, from, p) ==
    /\ engine # Nowhere /\ Len(guide) < MaxGuides
    /\ \E route \in OptimalRoutes(from) : guide' = Append(guide, Guidance(route, p))
    /\ followed' = [followed EXCEPT ![r] = Len(guide) + 1]
    /\ UNCHANGED <<engine, trial, awaited>>

\* stop clears the timer; what a provider still owes the session stays.
Stopped(s) == [s EXCEPT !.active = FALSE]

StopNavigation(r) ==
    /\ followed[r] # 0
    /\ guide' = [guide EXCEPT ![followed[r]] = Stopped(@)]
    /\ followed' = [followed EXCEPT ![r] = 0]
    /\ UNCHANGED <<engine, trial, awaited>>

--------------------------------------------------------------------------------
(* A session.                                                                  *)

Moved(s, p) ==
    [s EXCEPT !.fix = p, !.driven = @ + Way(s.fix, p), !.remaining = @ - Way(s.fix, p),
              !.been = @ \cup {p}]

HasInstruction(s) == s.index \in DOMAIN s.route.steps
Instruction(s) == s.route.steps[s.index]
Placed(s) == HasInstruction(s) /\ Instruction(s).at # Nowhere

\* checkInstructionProgress
Progressed(s) ==
    IF ~Placed(s) THEN s
    ELSE LET away == Way(s.fix, Instruction(s).at)
         IN  [s EXCEPT !.announced = IF away <= Nearby THEN @ \cup {s.index} ELSE @,
                       !.index = IF away = 0 THEN @ + 1 ELSE @]

\* checkOffRoute: the way to the instruction against the instruction's length.
Deviates(s) ==
    Placed(s) /\ Way(Way(s.fix, Instruction(s).at), Instruction(s).len) > OffBy

Total(stat) == FoldLeft(LAMBDA n, s : n + s[stat], 0, guide)

NavCall(call, k) == [call |-> call, guide |-> k, from |-> guide'[k].fix]

\* updatePosition.  Past the last instruction it ends in a TypeError, after
\* all that it changes.
UpdatePosition(r, p) ==
    /\ followed[r] # 0
    /\ LET k == followed[r]
           s == Progressed(Moved(guide[k], p))
       IN  /\ Total("driven") + Way(guide[k].fix, p) <= MaxDriven
           /\ s.rerouting \/ ~Deviates(s) \/ Total("reroutes") < MaxReroutes
           /\ IF s.rerouting \/ ~Deviates(s)
              THEN guide' = [guide EXCEPT ![k] = s] /\ UNCHANGED awaited
              ELSE /\ guide' = [guide EXCEPT ![k] =
                                    [s EXCEPT !.rerouting = TRUE, !.reroutes = @ + 1]]
                   /\ awaited' = awaited \cup {NavCall("reroute", k)}
    /\ UNCHANGED <<engine, trial, followed>>

NavEnds(c) == awaited' = awaited \ {c} /\ UNCHANGED <<engine, trial, followed>>

\* Mutant of Rerouted: the place in the old list of instructions is kept.
Rerouted_KeepsIndex(s, route) ==
    [s EXCEPT !.route = route, !.announced = {},
              !.remaining = route.dist, !.time = route.time, !.rerouting = FALSE,
              !.been = {}]

\* reroute, answered: the route is from where the driver was when it was asked.
Rerouted(s, route) ==
    [s EXCEPT !.route = route, !.index = 1, !.announced = {},
              !.remaining = route.dist, !.time = route.time, !.rerouting = FALSE,
              !.been = {}]

\* recalculateRoute and calculateETA of a session's provider.
Recalculated(s, turns, pace) == RouteOf(s.provider, turns, 0, pace)
ETA(s, turns, pace) == RouteOf(s.provider, turns, 0, pace).time

RerouteAnswered(c) ==
    /\ c \in awaited /\ c.call = "reroute"
    /\ \E pace \in Paces, turns \in Turns(c.from) :
         guide' = [guide EXCEPT ![c.guide] = Rerouted(@, Recalculated(@, turns, pace))]
    /\ NavEnds(c)

RerouteFails(c) ==
    /\ c \in awaited /\ c.call = "reroute"
    /\ guide' = [guide EXCEPT ![c.guide].rerouting = FALSE]
    /\ NavEnds(c)

\* updateETA, from the timer of a session that was not stopped.
AskETA(k) ==
    /\ k \in DOMAIN guide /\ guide[k].active /\ Cardinality(awaited) < MaxAwaited
    /\ awaited' = awaited \cup {[call |-> "eta", guide |-> k, from |-> guide[k].fix]}
    /\ UNCHANGED <<engine, trial, guide, followed>>

ETAAnswered(c) ==
    /\ c \in awaited /\ c.call = "eta"
    /\ \E pace \in Paces, turns \in Turns(c.from) :
         LET eta == ETA(guide[c.guide], turns, pace)
         IN  guide' = [guide EXCEPT ![c.guide].time =
                         IF Way(eta, @) > EtaSlack THEN eta ELSE @]
    /\ NavEnds(c)

ETAFails(c) ==
    /\ c \in awaited /\ c.call = "eta"
    /\ NavEnds(c) /\ UNCHANGED guide

--------------------------------------------------------------------------------

NavNext ==
    \/ Adopt
    \/ TryNext
    \/ LastProvider
    \/ \E r \in Trips, from \in Starts, p \in Starts : StartNavigation(r, from, p)
    \/ \E r \in Trips : StopNavigation(r)
    \/ \E r \in Trips, p \in 0..Far : UpdatePosition(r, p)
    \/ \E c \in awaited : RerouteAnswered(c)
    \/ \E c \in awaited : RerouteFails(c)
    \/ \E k \in DOMAIN guide : AskETA(k)
    \/ \E c \in awaited : ETAAnswered(c)
    \/ \E c \in awaited : ETAFails(c)

NavSpec == NavInit /\ [][NavNext]_navVars

--------------------------------------------------------------------------------
(* What guidance is for.                                                       *)

\* The instructions a session has ticked off are those of the route it follows.
PassedWereReached(s) ==
    \A i \in 1..(s.index - 1) : i \in DOMAIN s.route.steps /\ s.route.steps[i].at \in s.been

\* A session says it is rerouting exactly while one answer is on its way to it.
OneRecalculation(k) ==
    Cardinality({c \in awaited : c.call = "reroute" /\ c.guide = k})
        = (IF guide[k].rerouting THEN 1 ELSE 0)

\* Whatever order fixes, recalculations, arrival-time answers, stops and
\* restarts come in: an instruction counts as done only when the driver was
\* there on the route now followed, and no session waits for a recalculation
\* that is over, or for two (service.js checkInstructionProgress, reroute).
GuidanceIsWhole ==
    \A k \in DOMAIN guide : PassedWereReached(guide[k]) /\ OneRecalculation(k)
================================================================================
