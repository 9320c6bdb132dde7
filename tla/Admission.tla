------------------------------ MODULE Admission --------------------------------
(***************************************************************************)
(* Who gets past the operator's door, and how often: the signature gate    *)
(* (middleware/nip98-auth.js), the counters that limit requests            *)
(* (middleware/rate-limit.js), the order server.js puts them in, and the   *)
(* operator's suspensions of accounts (section B of its abuse endpoints).  *)
(*                                                                         *)
(* A request is a signed event that reaches the server once, never, or     *)
(* again; a browser signs each of its own anew.  Clocks are in ticks, the  *)
(* server's ahead or behind a signer's by at most SecondsOff.  Signatures  *)
(* that do not verify, other URLs or methods than the signed one, CORS,    *)
(* headers and body limits are refused without a trace and left out.       *)
(***************************************************************************)
EXTENDS Integers, FiniteSets, Sequences

CONSTANTS
    Person,      \* pubkeys
    Address,     \* IP addresses
    Behind,      \* Behind[p]: the address p is behind
    MaxAuth,     \* bound: signed events
    Call,        \* what may be asked for, of the calls below
    PerSecond,   \* ticks in a second
    SecondsOff,  \* how far a signer's ticks may be off
    Fresh,       \* seconds within which an event is accepted (60)
    Replay,      \* REPLAY_WINDOW_MS, in ticks
    Budget,      \* Budget[l]: max of limiter l
    Span,        \* Span[l]: windowMs of limiter l, in ticks
    Account,     \* pubkeys that may be suspended
    Term,        \* seconds a suspension may last, 0 for ever
    Desk,        \* bound: suspensions in flight at once
    MaxTicks,    \* bound: ticks
    MaxArrivals  \* bound: requests that reach the server

Limiters == {"public", "authenticated", "creation", "stake"}

ASSUME AdmissionAssumption ==
    /\ Behind \in [Person -> Address] /\ Person \cap Address = {}
    /\ Call \subseteq {"create", "request", "stake", "action", "estimate", "list"}
    /\ PerSecond \in Nat \ {0} /\ {SecondsOff, Fresh, MaxAuth, MaxTicks, MaxArrivals} \subseteq Nat
    /\ Budget \in [Limiters -> Nat] /\ Span \in [Limiters -> Nat]
    /\ Replay \in Nat /\ Replay >= (2 * Fresh + 1) * PerSecond
    /\ Term \subseteq Nat

VARIABLES
    ticks,     \* the server's, in ticks
    signed,    \* signed[a]: the event, None before it is signed
    seen,      \* seenAuthEvents: the tick after which the entry may go, or none
    window,    \* window[l]: requests of limiter l, key -> entry
    admitted,  \* history: admitted[a], mutations the event was let through for
    refusals,  \* history: [person, limiter, own] of each refusal of a limiter
    arrivals,  \* requests so far
    suspended, \* suspensions
    suspending \* suspending[k]: a suspension being published

\* The events in the order they are signed in.
Auth == 1..MaxAuth

gateVars      == <<signed, seen, window, admitted, refusals, arrivals>>
suspendVars   == <<suspended, suspending>>
admissionVars == <<ticks, gateVars, suspendVars>>

Unsigned  == [by |-> "none", call |-> "none", at |-> 0]
Unseen    == -1
NoEntry   == [count |-> 0, reset |-> -1, own |-> [p \in Person |-> 0]]
Permitted == [from |-> -1, term |-> 0]
AtDesk    == [of |-> "none", from |-> 0, term |-> 0]

AdmissionInit ==
    /\ ticks = SecondsOff * PerSecond
    /\ signed = [a \in Auth |-> Unsigned]
    /\ seen = [a \in Auth |-> Unseen]
    /\ window = [l \in Limiters |-> [k \in Person \cup Address |-> NoEntry]]
    /\ admitted = [a \in Auth |-> 0]
    /\ refusals = {}
    /\ arrivals = 0
    /\ suspended = [p \in Account |-> Permitted]
    /\ suspending = [k \in Desk |-> AtDesk]

\* Math.floor(Date.now() / 1000)
Second == ticks \div PerSecond

--------------------------------------------------------------------------------
(* The signature gate.                                                         *)

\* createNip98Event: the nonce makes each event one of its own.
Sign(a) ==
    /\ signed[a] = Unsigned /\ \A b \in 1..(a - 1) : signed[b] # Unsigned
    /\ \E p \in Person, c \in Call, off \in -SecondsOff..SecondsOff :
           signed' = [signed EXCEPT ![a] = [by |-> p, call |-> c, at |-> Second + off]]
    /\ UNCHANGED <<ticks, seen, window, admitted, refusals, arrivals, suspendVars>>

\* All but the open list are POSTs; an estimate is one of NIP98_PUBLIC_PATHS.
Mutating(c) == c # "list"
Gated(c)    == Mutating(c) /\ c # "estimate"

\* validateAuthEvent: an age in whole seconds, either way.
IsFresh(e) == Second - e.at <= Fresh /\ e.at - Second <= Fresh

\* validateNIP98Auth, up to req.user.  A later call of it for the same request
\* (/rides/create names it once more) finds req.user and passes.
GetsIn(a)  == IsFresh(signed[a]) /\ seen[a] = Unseen

\* Mutant of RememberedUntil: the window runs from the event's own time.
RememberedUntil_Signed(a) == (signed[a].at + Fresh) * PerSecond

RememberedUntil(a) == ticks + Replay

\* The sweep of every minute.
ForgetSeen ==
    /\ \E a \in Auth : seen[a] # Unseen /\ seen[a] < ticks
    /\ seen' = [a \in Auth |-> IF seen[a] < ticks THEN Unseen ELSE seen[a]]
    /\ UNCHANGED <<ticks, signed, window, admitted, refusals, arrivals, suspendVars>>

--------------------------------------------------------------------------------
(* The limiters.                                                               *)

\* Mutant of KeyOf: the limiters run before the gate has set req.user.
KeyOf_BeforeTheGate(l, e) == Behind[e.by]

\* keyGenerator: the public limiter has the default, the others ask for
\* req.user, which only a request through the gate has.
KeyOf(l, e) == IF l # "public" /\ Gated(e.call) THEN e.by ELSE Behind[e.by]

\* What is asked, in the order of the app: the global limiter of mutating
\* paths, then that of the route.
Limits(c) ==
    CASE c = "list"     -> <<"public">>
      [] c = "estimate" -> <<"authenticated", "public">>
      [] c = "request"  -> <<"authenticated", "public">>
      [] c = "create"   -> <<"authenticated", "creation">>
      [] c = "stake"    -> <<"authenticated", "stake">>
      [] c = "action"   -> <<"authenticated">>

\* middleware(): a new entry once the window is over, and the count goes up
\* even of a request that is refused.
Counted(entry, l, p) ==
    LET current == IF entry = NoEntry \/ ticks > entry.reset
                       THEN [NoEntry EXCEPT !.reset = ticks + Span[l]] ELSE entry
    IN  [current EXCEPT !.count = @ + 1, !.own[p] = @ + 1]

\* One limiter asked, on the windows as they are.
Asked(w, l, e) ==
    LET k     == KeyOf(l, e)
        entry == Counted(w[l][k], l, e.by)
    IN  [ window  |-> [w EXCEPT ![l][k] = entry],
          refused |-> IF entry.count > Budget[l]
                        THEN {[call |-> e.call, limiter |-> l, own |-> entry.own[e.by]]}
                        ELSE {} ]

\* The limiters in their order, up to the first that refuses.
Limited(e) ==
    LET l     == Limits(e.call)
        first == Asked(window, l[1], e)
    IN  IF Len(l) = 1 \/ first.refused # {} THEN first ELSE Asked(first.window, l[2], e)

\* cleanup, every minute.
Cleanup(l) ==
    /\ \E k \in DOMAIN window[l] : window[l][k] # NoEntry /\ ticks > window[l][k].reset
    /\ window' = [window EXCEPT ![l] = [k \in DOMAIN @ |->
                     IF ticks > @[k].reset THEN NoEntry ELSE @[k]]]
    /\ UNCHANGED <<ticks, signed, seen, admitted, refusals, arrivals, suspendVars>>

--------------------------------------------------------------------------------
(* A request reaches the server.                                               *)

Reaches(a) == signed[a] # Unsigned /\ arrivals < MaxArrivals /\ arrivals' = arrivals + 1

\* Past the gate and counted: the handler runs unless a limiter refuses.
Through(a) ==
    LET lim == Limited(signed[a])
    IN  /\ window' = lim.window
        /\ refusals' = refusals \cup lim.refused
        /\ admitted' = [admitted EXCEPT ![a] =
               IF lim.refused = {} /\ Gated(signed[a].call) THEN @ + 1 ELSE @]

\* A mutation the gate lets through uses its event up, even if a limiter
\* refuses it then.
Mutate(a) ==
    /\ Reaches(a) /\ Gated(signed[a].call) /\ GetsIn(a)
    /\ seen' = [seen EXCEPT ![a] = RememberedUntil(a)]
    /\ Through(a)
    /\ UNCHANGED <<ticks, signed, suspendVars>>

\* 401 for a body that is not the one signed: the event is used up all the same.
MutateOtherBody(a) ==
    /\ Reaches(a) /\ Gated(signed[a].call) /\ GetsIn(a)
    /\ seen' = [seen EXCEPT ![a] = RememberedUntil(a)]
    /\ UNCHANGED <<ticks, signed, window, admitted, refusals, suspendVars>>

\* 401: stale, from the future, or used before.  No limiter counts it.
Rejected(a) ==
    /\ Reaches(a) /\ Gated(signed[a].call) /\ ~GetsIn(a)
    /\ UNCHANGED <<ticks, signed, seen, window, admitted, refusals, suspendVars>>

\* A read is not used up, and an estimate is not signed for.
Ungated(a) ==
    /\ Reaches(a) /\ ~Gated(signed[a].call)
    /\ Through(a)
    /\ UNCHANGED <<ticks, signed, seen, suspendVars>>

AdmTick ==
    /\ ticks < MaxTicks
    /\ ticks' = ticks + 1
    /\ UNCHANGED <<gateVars, suspendVars>>

AdmissionNext ==
    \/ \E a \in Auth : \/ Sign(a) \/ Mutate(a) \/ MutateOtherBody(a)
                       \/ Rejected(a) \/ Ungated(a)
    \/ \E l \in Limiters : Cleanup(l)
    \/ ForgetSeen
    \/ AdmTick

AdmissionSpec == AdmissionInit /\ [][AdmissionNext]_admissionVars

--------------------------------------------------------------------------------
(* Suspensions.  Nothing but the query reads them.                             *)

Suspend(k) ==
    /\ suspending[k] = AtDesk
    /\ \E p \in Account, t \in Term :
           suspending' = [suspending EXCEPT ![k] = [of |-> p, from |-> Second, term |-> t]]
    /\ UNCHANGED <<ticks, gateVars, suspended>>

\* The publication is answered: only now is the account suspended, over any
\* suspension written meanwhile.
SuspensionPublished(k) ==
    /\ suspending[k] # AtDesk
    /\ suspended' = [suspended EXCEPT ![suspending[k].of] =
                        [from |-> suspending[k].from, term |-> suspending[k].term]]
    /\ suspending' = [suspending EXCEPT ![k] = AtDesk]
    /\ UNCHANGED <<ticks, gateVars>>

SuspensionFails(k) ==
    /\ suspending[k] # AtDesk
    /\ suspending' = [suspending EXCEPT ![k] = AtDesk]
    /\ UNCHANGED <<ticks, gateVars, suspended>>

RunOut(s) == s # Permitted /\ s.term # 0 /\ Second > s.from + s.term

\* The query drops a suspension that has run out.
CheckSuspension(p) ==
    /\ RunOut(suspended[p])
    /\ suspended' = [suspended EXCEPT ![p] = Permitted]
    /\ UNCHANGED <<ticks, gateVars, suspending>>

SuspensionNext ==
    \/ \E k \in Desk : Suspend(k) \/ SuspensionPublished(k) \/ SuspensionFails(k)
    \/ \E p \in Account : CheckSuspension(p)
    \/ AdmTick

--------------------------------------------------------------------------------

\* A signed event lets at most one mutation through, however late it reaches
\* the server again, whatever was swept meanwhile and however far the clocks
\* are apart (nip98-auth.js: seenAuthEvents, its window against the freshness
\* of validateAuthEvent).
SingleUse == \A a \in Auth : admitted[a] <= 1

\* A limiter that counts by person refuses a signed request only when its own
\* signer has used the budget up, not whoever shares the address (server.js:
\* the limiter after the gate; rate-limit.js: keyGenerator and windows).
OthersDoNotSpend ==
    \A r \in refusals : r.limiter # "public" /\ Gated(r.call) => r.own > Budget[r.limiter]
===============================================================================
