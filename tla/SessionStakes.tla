--------------------------- MODULE SessionStakes ---------------------------
(***************************************************************************)
(* The stakes of one ride session, the older flow beside the tasks': the   *)
(* handlers of /rides/create, /rides/:id/{rider,driver}-stake, their       *)
(* confirm, /driver-accept, /complete and /cancel (server.js), the         *)
(* ResilientStakeManager with its fallback rails                           *)
(* (payment-providers/factory.js), and every rail it may be given.         *)
(*                                                                         *)
(* A handler runs to its first await, then on at each answer of a rail.    *)
(* The session object is held across the awaits, so a handler may go on    *)
(* writing it when the session has been closed.  Record-only rails answer  *)
(* in the same turn of the event loop: on them no request starts while     *)
(* another is under way.  Requests are signed, so the caller is known.     *)
(*                                                                         *)
(* A stake is named by its invoice, on record-only rails by the            *)
(* commitment put on record, "held" from the start.  Session ids are used  *)
(* once and each party asks for one invoice (bounds).                      *)
(***************************************************************************)
EXTENDS Naturals, Sequences, FiniteSets, Functions

CONSTANTS
    Req,        \* bound: requests in flight at once
    Rider,      \* the rider
    Driver,     \* drivers who may take the session, by keys other than the rider's
    Invoice,    \* bound: stakes that may be asked for
    Owner,      \* Owner[i]: the party stake i is asked of
    Configured, \* STAKE_PROVIDERS: the rail lists an operator may write
    NodeErrors, \* whether a rail's node may fail a call
    None        \* absent value

VARIABLES
    rails,      \* the rails in use, in order of preference
    current,    \* stakeManager.currentProvider
    routing,    \* stakeManager.stakeRouting, per role
    record,     \* record[p][role]: the stake rail p has under `${rideId}_${role}`
    invoice,    \* what became of each stake's money
    session,    \* the session object
    live,       \* whether activeRides has it
    req,        \* req[q]: the request in slot q
    quit        \* history: parties that called /cancel

manager == <<rails, current, routing>>
sessionVars    == <<manager, record, invoice, session, live, req, quit>>

StakeRole == {"rider", "driver"}
StakeParty == {Rider} \cup Driver
RoleOf(party) == IF party = Rider THEN "rider" ELSE "driver"

Rail == {"cash", "demo", "lnd", "core-lightning", "btcpay", "alby"}

\* getTrustModel of each rail.
TrustModel(p) ==
    CASE p = "cash"   -> "social"
      [] p = "demo"   -> "demo"
      [] p = "btcpay" -> "self-hosted"
      [] p = "alby"   -> "custodial"
      [] OTHER        -> "trustless"

\* getCapabilities().features.instantLock, and who has confirmStakePaid.
InstantLock(p) == p \in {"cash", "demo"}
Confirms(p)    == p = "lnd"

Status ==
    {"waiting_rider_stake", "waiting_rider_stake_payment", "waiting_driver",
     "waiting_driver_stake", "waiting_driver_stake_payment", "active",
     "completed", "cancelled"}

Session ==
    [ status : Status, driver : Driver \cup {None}, locked : SUBSET StakeRole,
      invoice : [StakeRole -> Invoice \cup {None}] ]

\* A call to the rail: releaseStake or forfeitStake of a role's stake.
Call == [do : {"release", "forfeit"}, role : StakeRole]

\* What a handler keeps across its awaits: who asked, the rails lockStake has
\* yet to try, the calls yet to make, whether all went well, the stake looked
\* up or asked for.
Request ==
    [ op : {"stake", "confirm", "complete", "cancel"}, by : StakeParty,
      try : Seq(Rail), calls : Seq(Call), ok : BOOLEAN, at : Invoice \cup {None} ]

ASSUME SessionAssumption ==
    /\ Rider \notin Driver
    /\ Owner \in [Invoice -> StakeParty]
    /\ Configured \subseteq Seq(Rail) \ {<<>>}
    /\ NodeErrors \in BOOLEAN
    /\ None \notin Invoice \cup StakeParty \cup Rail \cup Request

SessionTypeOK ==
    /\ rails \in Seq(Rail) \ {<<>>}
    /\ current \in Rail
    /\ routing \in [StakeRole -> Rail \cup {None}]
    /\ record \in [Rail -> [StakeRole -> Invoice \cup {None}]]
    /\ invoice \in [Invoice -> {"none", "open", "held", "settled", "cancelled"}]
    /\ session \in Session
    /\ live \in BOOLEAN
    /\ req \in [Req -> Request \cup {None}]
    /\ quit \subseteq StakeParty

-----------------------------------------------------------------------------
(* Start of the operator, and of the session.                              *)

\* initialize: the rails that answer a health check and share the trust model
\* of the first one listed, which counts even when it is not healthy itself.
Usable(list, healthy) ==
    LET kept == {n \in DOMAIN list :
                    list[n] \in healthy /\ TrustModel(list[n]) = TrustModel(list[1])}
        size == Cardinality(kept)
        inOrder == {at \in [1..size -> kept] : \A m, n \in 1..size : m < n => at[m] < at[n]}
    IN  {[n \in 1..size |-> list[at[n]]] : at \in inOrder}

\* /rides/create: with one session, the state it starts in.
SessionInit ==
    /\ \E list \in Configured, healthy \in SUBSET Rail :
        /\ rails \in Usable(list, healthy)
        /\ rails # <<>>
    /\ current = rails[1]
    /\ routing = [role \in StakeRole |-> None]
    /\ record = [p \in Rail |-> [role \in StakeRole |-> None]]
    /\ invoice = [i \in Invoice |-> "none"]
    /\ session = [status |-> "waiting_rider_stake", driver |-> None,
                  locked |-> {}, invoice |-> [role \in StakeRole |-> None]]
    /\ live = TRUE
    /\ req = [q \in Req |-> None]
    /\ quit = {}

-----------------------------------------------------------------------------
(* Requests.                                                               *)

Idle(q)      == req[q] = None
Doing(q, op) == ~Idle(q) /\ req[q].op = op
Returns(q)   == req' = [req EXCEPT ![q] = None]

\* A request finds the session, and a record-only rail's turn is not shared.
Arrives(q) ==
    /\ live
    /\ Idle(q)
    /\ InstantLock(current) => \A p \in Req : Idle(p)

\* authoriseSessionActor: the signer is the session's rider or driver.
KnownParty(party) == party = Rider \/ party = session.driver

Local(op, party) ==
    [op |-> op, by |-> party, try |-> <<>>, calls |-> <<>>, ok |-> TRUE, at |-> None]

Outcome == IF NodeErrors /\ ~InstantLock(current) THEN BOOLEAN ELSE {TRUE}

-----------------------------------------------------------------------------
(* Staking.                                                                *)

\* /rider-stake and /driver-stake up to lockStake: neither asks for the
\* session's status, only for the role's own stake.
Stake(q, party, i) ==
    /\ Arrives(q)
    /\ KnownParty(party)
    /\ RoleOf(party) \notin session.locked
    /\ session.invoice[RoleOf(party)] = None
    /\ Owner[i] = party /\ invoice[i] = "none"
    /\ \A p \in Req : Doing(p, "stake") => req[p].at # i
    /\ req' = [req EXCEPT ![q] = [Local("stake", party) EXCEPT !.try = rails, !.at = i]]
    /\ UNCHANGED <<manager, record, invoice, session, live, quit>>

\* What the handler writes when rail p has the stake: an instant one is locked
\* there and then, any other is an invoice to pay.
LockedAt(role, i, p) ==
    IF InstantLock(p)
      THEN [session EXCEPT !.status = IF role = "rider" THEN "waiting_driver" ELSE "active",
                           !.locked = @ \cup {role}]
      ELSE [session EXCEPT !.status = IF role = "rider" THEN "waiting_rider_stake_payment"
                                                        ELSE "waiting_driver_stake_payment",
                           !.invoice[role] = i]

\* Mutant of Routed: the fallback is not put on the route.
Routed_NotFallback(role, p) ==
    IF p = rails[1] THEN [routing EXCEPT ![role] = p] ELSE routing

Routed(role, p) == [routing EXCEPT ![role] = p]

\* lockStake on the rail being tried: it issues the stake, over any it has
\* under the same id, and becomes the current rail; or the next one is tried,
\* and past the last the handler answers 500.
StakeAnswered(q, works) ==
    /\ Doing(q, "stake")
    /\ LET r    == req[q]
           p    == Head(r.try)
           role == RoleOf(r.by)
       IN  IF works
             THEN /\ current' = p
                  /\ routing' = Routed(role, p)
                  /\ record' = [record EXCEPT ![p][role] = r.at]
                  /\ invoice' = [invoice EXCEPT ![r.at] = IF InstantLock(p) THEN "held" ELSE "open"]
                  /\ session' = LockedAt(role, r.at, p)
                  /\ Returns(q)
             ELSE /\ req' = [req EXCEPT ![q] = IF Tail(r.try) = <<>> THEN None
                                               ELSE [r EXCEPT !.try = Tail(r.try)]]
                  /\ UNCHANGED <<current, routing, record, invoice, session>>
    /\ UNCHANGED <<rails, live, quit>>

\* /driver-accept, in one turn.  A session waits for a driver again when the
\* rider's stake is confirmed a second time.
DriverAccept(party) ==
    /\ \E q \in Req : Arrives(q)
    /\ session.status = "waiting_driver"
    /\ session' = [session EXCEPT !.driver = party, !.status = "waiting_driver_stake"]
    /\ UNCHANGED <<manager, record, invoice, live, req, quit>>

\* confirmStakePayment: asks the current rail, not the stake's, and answers 400
\* when that has no such call.
Confirm(q, party) ==
    /\ Arrives(q)
    /\ KnownParty(party)
    /\ Confirms(current)
    /\ record[current][RoleOf(party)] # None
    /\ req' = [req EXCEPT ![q] =
                 [Local("confirm", party) EXCEPT !.at = record[current][RoleOf(party)]]]
    /\ UNCHANGED <<manager, record, invoice, session, live, quit>>

\* is_held on the node.
Confirmed(i) == invoice[i] = "held"

\* The answer.  The status is written whatever it has become meanwhile.
ConfirmAnswered(q, works) ==
    /\ Doing(q, "confirm")
    /\ LET r == req[q]
           role == RoleOf(r.by)
       IN  session' = IF works /\ Confirmed(r.at)
                        THEN [session EXCEPT !.status = IF role = "rider" THEN "waiting_driver"
                                                                          ELSE "active",
                                             !.locked = @ \cup {role}]
                        ELSE session
    /\ Returns(q)
    /\ UNCHANGED <<manager, record, invoice, live, quit>>

-----------------------------------------------------------------------------
(* Ending the session.                                                     *)

Release(role) == [do |-> "release", role |-> role]
Forfeit(role) == [do |-> "forfeit", role |-> role]

\* The manager hands a call to the rail the stake was routed to; only after a
\* restart, which ends the session, is there none.
StakeRail(role) == IF routing[role] # None THEN routing[role] ELSE current

\* The stake the rail finds under the id it is given.  core-lightning, btcpay
\* and alby add the role to it once more, and find nothing.
Found(role) ==
    IF StakeRail(role) \in {"core-lightning", "btcpay", "alby"} THEN None
    ELSE record[StakeRail(role)][role]

\* The handler makes its next call.
Asks(q, r) == req' = [req EXCEPT ![q] = [r EXCEPT !.at = Found(Head(r.calls).role)]]

\* What a call does to the stake's money, and whether it reports success: a
\* node settles what is held, returns what is not settled, closes what is
\* unpaid; a record-only rail writes down whatever it is told.
AfterCall(do, i, instant) ==
    IF i = None THEN invoice
    ELSE CASE do = "release" /\ (instant \/ invoice[i] \in {"open", "held"}) ->
                [invoice EXCEPT ![i] = "cancelled"]
           [] do = "forfeit" /\ (instant \/ invoice[i] = "held") ->
                [invoice EXCEPT ![i] = "settled"]
           [] do = "forfeit" /\ ~instant /\ invoice[i] = "open" ->
                [invoice EXCEPT ![i] = "cancelled"]
           [] OTHER -> invoice

CallSucceeds(do, i, instant) ==
    /\ i # None
    /\ do = "release" => instant \/ invoice[i] # "settled"

\* /complete asks for both releases, one after the other.
Complete(q, party) ==
    /\ Arrives(q)
    /\ session.status = "active"
    /\ KnownParty(party)
    /\ Asks(q, [Local("complete", party) EXCEPT !.calls = <<Release("rider"), Release("driver")>>])
    /\ UNCHANGED <<manager, record, invoice, session, live, quit>>

\* finalizeRideSession.
Finalizes(status) ==
    /\ session' = [session EXCEPT !.status = status]
    /\ live' = FALSE

\* Mutant of CompletedWhen: the last answer decides.
CompletedWhen_Last(r, succeeds) == succeeds

\* Both releases have reported success.
CompletedWhen(r, succeeds) == r.ok /\ succeeds

\* An answer to one of /complete's two calls.  Unless both were released the
\* handler answers 502 and leaves the session active.
CompleteAnswered(q, works) ==
    /\ Doing(q, "complete")
    /\ LET r == req[q]
           succeeds == works /\ CallSucceeds("release", r.at, InstantLock(current))
       IN  /\ invoice' = IF works THEN AfterCall("release", r.at, InstantLock(current))
                                  ELSE invoice
           /\ IF Len(r.calls) = 2
                THEN /\ Asks(q, [r EXCEPT !.calls = Tail(@), !.ok = succeeds])
                     /\ UNCHANGED <<session, live>>
                ELSE /\ Returns(q)
                     /\ IF CompletedWhen(r, succeeds) THEN Finalizes("completed")
                                                      ELSE UNCHANGED <<session, live>>
    /\ UNCHANGED <<manager, record, quit>>

\* Mutant of Penalty: the other party's stake is the one forfeited.
Penalty_Swapped(party) ==
    CASE session.status = "active" /\ party = session.driver ->
            <<Forfeit("rider"), Release("driver")>>
      [] session.status = "active" /\ party # session.driver ->
            <<Forfeit("driver"), Release("rider")>>
      [] OTHER -> <<>>

\* What /cancel asks of the rails: on an active session the caller forfeits and
\* the other is released; before a driver came the rider is released; while
\* a stake is being paid, nothing.
Penalty(party) ==
    CASE session.status = "active" /\ party = session.driver ->
            <<Forfeit("driver"), Release("rider")>>
      [] session.status = "active" /\ party # session.driver ->
            <<Forfeit("rider"), Release("driver")>>
      [] /\ session.status \in {"waiting_driver", "waiting_rider_stake"}
         /\ "rider" \in session.locked -> <<Release("rider")>>
      [] OTHER -> <<>>

Cancel(q, party) ==
    /\ Arrives(q)
    /\ KnownParty(party)
    /\ quit' = quit \cup {party}
    /\ IF Penalty(party) = <<>>
         THEN Finalizes("cancelled") /\ UNCHANGED req
         ELSE /\ Asks(q, [Local("cancel", party) EXCEPT !.calls = Penalty(party)])
              /\ UNCHANGED <<session, live>>
    /\ UNCHANGED <<manager, record, invoice>>

\* An answer to one of /cancel's calls, whose result is not looked at.
CancelAnswered(q, works) ==
    /\ Doing(q, "cancel")
    /\ LET r == req[q]
       IN  /\ invoice' = IF works THEN AfterCall(Head(r.calls).do, r.at, InstantLock(current))
                                  ELSE invoice
           /\ IF Len(r.calls) = 2
                THEN Asks(q, [r EXCEPT !.calls = Tail(@)]) /\ UNCHANGED <<session, live>>
                ELSE Returns(q) /\ Finalizes("cancelled")
    /\ UNCHANGED <<manager, record, quit>>

-----------------------------------------------------------------------------
(* Outside the session.                                                    *)

\* Another ride's stake is locked on one of the rails, which makes it current.
OtherRideStakes(p) ==
    /\ p \in Range(rails)
    /\ current' = p
    /\ UNCHANGED <<rails, routing, record, invoice, session, live, req, quit>>

\* A party pays its invoice, or lets it expire after an hour.
Pay(i) ==
    /\ invoice[i] = "open"
    /\ invoice' = [invoice EXCEPT ![i] = "held"]
    /\ UNCHANGED <<manager, record, session, live, req, quit>>

InvoiceExpires(i) ==
    /\ invoice[i] = "open"
    /\ invoice' = [invoice EXCEPT ![i] = "cancelled"]
    /\ UNCHANGED <<manager, record, session, live, req, quit>>

SessionNext ==
    \/ \E q \in Req, party \in StakeParty, i \in Invoice : Stake(q, party, i)
    \/ \E q \in Req, works \in Outcome : StakeAnswered(q, works)
    \/ \E party \in Driver : DriverAccept(party)
    \/ \E q \in Req, party \in StakeParty : Confirm(q, party)
    \/ \E q \in Req, works \in Outcome : ConfirmAnswered(q, works)
    \/ \E q \in Req, party \in StakeParty : Complete(q, party)
    \/ \E q \in Req, works \in Outcome : CompleteAnswered(q, works)
    \/ \E q \in Req, party \in StakeParty : Cancel(q, party)
    \/ \E q \in Req, works \in Outcome : CancelAnswered(q, works)
    \/ \E p \in Rail : OtherRideStakes(p)
    \/ \E i \in Invoice : Pay(i)
    \/ \E i \in Invoice : InvoiceExpires(i)

SessionSpec == SessionInit /\ [][SessionNext]_sessionVars

-----------------------------------------------------------------------------
(* Properties.                                                             *)

\* The promise of Escrow, between the two sides: no stake is claimed unless its
\* side called the session off, and what was claimed or returned stays so,
\* whichever rails were tried and whatever overlapped ("Who cancelled is derived
\* from the authenticated signer, never the body").
E == INSTANCE Escrow WITH
        Side <- StakeRole, Owner <- [i \in Invoice |-> RoleOf(Owner[i])],
        fund <- invoice, quit <- {RoleOf(party) : party \in quit}

KeepsEscrow == E!Spec

\* A session that ends completed has given the rider's stake back, with the
\* rider's or a driver's cancellation under way or not: "a failed release is an
\* operator incident, not something to paper over with a success response".
CompletedPaysBack ==
    session.status = "completed" =>
        \A i \in Invoice : Owner[i] = Rider => invoice[i] = "cancelled"

\* The rail that is asked about a stake is the one that issued it, through
\* fallbacks and other rides' stakes: the invoice the session shows for a role
\* is on record with the rail its id is routed to.
RoutedToIssuer ==
    \A role \in StakeRole :
        session.invoice[role] # None =>
            routing[role] # None /\ record[routing[role]][role] = session.invoice[role]
=============================================================================
