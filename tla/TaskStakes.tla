---------------------------- MODULE TaskStakes ----------------------------
(***************************************************************************)
(* The stakes of one task on a hold-invoice rail: the handlers of          *)
(* /api/rides/:id/{requester,provider}-stake, their confirm, /cancel,      *)
(* /complete and /transition (server.js), the stake manager that routes to *)
(* the rail (payment-providers/factory.js) and the rail itself             *)
(* (payment-providers/lnd.js).                                             *)
(*                                                                         *)
(* A handler runs to its first await, then in further steps, one per       *)
(* answer of the node, with whatever other requests did in between.  Each  *)
(* request in flight has a record with what the handler keeps across its   *)
(* awaits.  The ride's entry for a stake and the rail's record of it are   *)
(* written together, one per invoice, so both are named by the invoice.    *)
(*                                                                         *)
(* The node is external: an invoice is open, held (paid, not settled),     *)
(* settled (claimed) or cancelled (returned); amounts are left out, since  *)
(* a hold invoice is all or nothing.                                       *)
(***************************************************************************)
EXTENDS DomainProfiles, Naturals, Sequences

CONSTANTS
    Req,        \* bound: requests in flight at once
    Side,       \* "requester" and "provider"
    Invoice,    \* bound: hold invoices the node may issue
    Owner,      \* Owner[i]: the side invoice i is issued to
    Profile,    \* the profile of the task's domain
    Idle,       \* no request in this slot
    NoInvoice   \* no entry for this side

VARIABLES
    status,    \* of the task
    matched,   \* a provider has accepted
    stakes,    \* ride.stakes[side], and the rail's record under the same stakeId
    locked,    \* entries with locked: true
    released,  \* entries with released: true
    forfeited, \* entries with forfeited: true
    invoice,   \* the node's state of each invoice
    req,       \* req[q]: the request in slot q
    quit       \* history: the sides that called /cancel

flags == <<locked, released, forfeited>>
vars  == <<status, matched, stakes, flags, invoice, req, quit>>

State == StatesOf(Profile)

\* Stake entries, one per side at most, in some order.
Todo == {<<>>} \cup [1..1 -> Invoice] \cup [1..2 -> Invoice]

Request ==
    [ op : {"stake", "confirm", "price", "complete", "cancel"}, by : Side,
      todo : Todo, at : Invoice \cup {NoInvoice} ]

ASSUME StakeAssumption ==
    /\ Owner \in [Invoice -> Side]
    /\ NoInvoice \notin Invoice
    /\ Idle \notin Request
    /\ Side = {"requester", "provider"}

Terminal(s) == s \in Profile.terminal

TypeOK ==
    /\ status \in State
    /\ matched \in BOOLEAN
    /\ stakes \in [Side -> Invoice \cup {NoInvoice}]
    /\ {locked, released, forfeited} \subseteq SUBSET Invoice
    /\ invoice \in [Invoice -> {"none", "open", "held", "settled", "cancelled"}]
    /\ req \in [Req -> Request \cup {Idle}]
    /\ quit \subseteq Side

Init ==
    /\ status = Profile.initial
    /\ matched = FALSE
    /\ stakes = [s \in Side |-> NoInvoice]
    /\ locked = {}
    /\ released = {}
    /\ forfeited = {}
    /\ invoice = [i \in Invoice |-> "none"]
    /\ req = [q \in Req |-> Idle]
    /\ quit = {}

-----------------------------------------------------------------------------
(* Requests.  Waits(q, r): the handler of q is at an await with locals r.  *)

Free(q) == req[q] = Idle

Doing(q, op) == ~Free(q) /\ req[q].op = op

Waits(q, r) == req' = [req EXCEPT ![q] = r]
Returns(q)  == req' = [req EXCEPT ![q] = Idle]

Local(op, s, todo, i) == [op |-> op, by |-> s, todo |-> todo, at |-> i]

\* An invoice the node has not issued and no request is waiting for.
Unissued(i) ==
    /\ invoice[i] = "none"
    /\ \A q \in Req : Doing(q, "stake") => req[q].at # i

-----------------------------------------------------------------------------
(* Staking.                                                                *)

\* handleTaskStake up to lockStake.  The side's entry is read here and written
\* when the node has answered; nothing is asked about the task's status.
Stake(q, s, i) ==
    /\ Free(q)
    /\ stakes[s] = NoInvoice
    /\ s = "provider" => matched
    /\ Owner[i] = s /\ Unissued(i)
    /\ Waits(q, Local("stake", s, <<>>, i))
    /\ UNCHANGED <<status, matched, stakes, flags, invoice, quit>>

\* The hold invoice exists: the rail and the ride record it, over any other.
StakeAnswered(q) ==
    /\ Doing(q, "stake")
    /\ invoice' = [invoice EXCEPT ![req[q].at] = "open"]
    /\ stakes' = [stakes EXCEPT ![req[q].by] = req[q].at]
    /\ Returns(q)
    /\ UNCHANGED <<status, matched, flags, quit>>

\* confirmTaskStake: the entry found now is the one locked later.
Confirm(q, s) ==
    /\ Free(q)
    /\ stakes[s] # NoInvoice
    /\ stakes[s] \notin locked
    /\ Waits(q, Local("confirm", s, <<>>, stakes[s]))
    /\ UNCHANGED <<status, matched, stakes, flags, invoice, quit>>

\* Mutant of ConfirmAnswered: the answer's paid flag is not looked at.
ConfirmAnswered_Unpaid(q) ==
    /\ Doing(q, "confirm")
    /\ locked' = locked \cup {req[q].at}
    /\ Returns(q)
    /\ UNCHANGED <<status, matched, stakes, released, forfeited, invoice, quit>>

ConfirmAnswered(q) ==
    /\ Doing(q, "confirm")
    /\ locked' = IF invoice[req[q].at] = "held" THEN locked \cup {req[q].at} ELSE locked
    /\ Returns(q)
    /\ UNCHANGED <<status, matched, stakes, released, forfeited, invoice, quit>>

\* 502 or 500: the node refused or could not be asked.
CallFails(q) ==
    /\ Doing(q, "stake") \/ Doing(q, "confirm")
    /\ Returns(q)
    /\ UNCHANGED <<status, matched, stakes, flags, invoice, quit>>

-----------------------------------------------------------------------------
(* Ending the task: the loop over Object.entries(ride.stakes).             *)

\* Mutant of Due: outcomes already recorded are not looked at.
Due_Locked(op, i) == i \in locked

\* The entries a loop does not skip: /cancel wants neither outcome recorded,
\* /complete looks at released only.
Due(op, i) ==
    /\ i \in locked
    /\ i \notin released
    /\ op = "cancel" => i \notin forfeited

\* Object.entries(ride.stakes), in the order the sides staked, which is not
\* tracked.
Entries ==
    {todo \in Todo :
        /\ {todo[n] : n \in DOMAIN todo} = {stakes[s] : s \in Side} \ {NoInvoice}
        /\ \A m, n \in DOMAIN todo : m # n => todo[m] # todo[n]}

\* cancelRide throws on an ended task, completeTrip when the table has no such
\* move; either way the stakes have been dealt with by then.
Ended(op) ==
    IF op = "cancel"
      THEN IF Terminal(status) THEN status ELSE Profile.cancelled
      ELSE IF Profile.completed \in Allowed(Profile, status) THEN Profile.completed
                                                             ELSE status

\* The handler goes on to its next due entry and asks the rail, which looks the
\* stakeId up, or ends the task when none is left.
GoesOn(q, op, s, todo) ==
    LET due == {n \in DOMAIN todo : Due(op, todo[n])}
    IN  \/ /\ due = {}
           /\ status' = Ended(op)
           /\ Returns(q)
        \/ \E n \in due :
              /\ \A m \in due : n <= m
              /\ Waits(q, Local(op, s, SubSeq(todo, n, Len(todo)), stakes[Owner[todo[n]]]))
              /\ UNCHANGED status

\* releaseStake cancels the invoice; a settled one cannot be.
CanRelease(i) == invoice[i] \in {"open", "held", "cancelled"}

AfterRelease(i) ==
    IF invoice[i] \in {"open", "held"} THEN [invoice EXCEPT ![i] = "cancelled"] ELSE invoice

\* forfeitStake settles a held invoice and closes an unpaid one.
AfterForfeit(i) ==
    CASE invoice[i] = "held" -> [invoice EXCEPT ![i] = "settled"]
      [] invoice[i] = "open" -> [invoice EXCEPT ![i] = "cancelled"]
      [] OTHER -> invoice

Cancel(q, s) ==
    /\ Free(q)
    /\ quit' = quit \cup {s}
    /\ \E todo \in Entries : GoesOn(q, "cancel", s, todo)
    /\ UNCHANGED <<matched, stakes, flags, invoice>>

\* Mutant of CancelAnswered: the other party's stake is the one forfeited.
CancelAnswered_Swapped(q, works) ==
    /\ Doing(q, "cancel")
    /\ LET r == req[q]
           i == Head(r.todo)
       IN  /\ invoice' = IF works
                           THEN IF Owner[i] = r.by THEN AfterRelease(r.at) ELSE AfterForfeit(r.at)
                           ELSE invoice
           /\ forfeited' = IF Owner[i] = r.by THEN forfeited ELSE forfeited \cup {i}
           /\ released' = IF Owner[i] = r.by THEN released \cup {i} ELSE released
           /\ GoesOn(q, "cancel", r.by, Tail(r.todo))
    /\ UNCHANGED <<matched, stakes, locked, quit>>

\* The rail answers /cancel.  It reports a failure in its result, and the
\* handler records the outcome without looking.
CancelAnswered(q, works) ==
    /\ Doing(q, "cancel")
    /\ LET r == req[q]
           i == Head(r.todo)
       IN  /\ invoice' = IF works
                           THEN IF Owner[i] = r.by THEN AfterForfeit(r.at) ELSE AfterRelease(r.at)
                           ELSE invoice
           /\ forfeited' = IF Owner[i] = r.by THEN forfeited \cup {i} ELSE forfeited
           /\ released' = IF Owner[i] = r.by THEN released ELSE released \cup {i}
           /\ GoesOn(q, "cancel", r.by, Tail(r.todo))
    /\ UNCHANGED <<matched, stakes, locked, quit>>

\* /complete, called by the provider, first waits for a price.
Complete(q) ==
    /\ Free(q)
    /\ matched
    /\ Waits(q, Local("price", "provider", <<>>, NoInvoice))
    /\ UNCHANGED <<status, matched, stakes, flags, invoice, quit>>

CompletePriced(q) ==
    /\ Doing(q, "price")
    /\ \E todo \in Entries : GoesOn(q, "complete", "provider", todo)
    /\ UNCHANGED <<matched, stakes, flags, invoice, quit>>

\* The rail answers /complete, which on a failure returns 502 and leaves the
\* task as it is.
CompleteAnswered(q, works) ==
    /\ Doing(q, "complete")
    /\ LET r == req[q]
       IN  IF works /\ CanRelease(r.at)
             THEN /\ invoice' = AfterRelease(r.at)
                  /\ released' = released \cup {Head(r.todo)}
                  /\ GoesOn(q, "complete", "provider", Tail(r.todo))
             ELSE Returns(q) /\ UNCHANGED <<invoice, released, status>>
    /\ UNCHANGED <<matched, stakes, locked, forfeited, quit>>

-----------------------------------------------------------------------------
(* What touches no stake.                                                  *)

\* acceptRide and startEnRoute, in one turn.
Accept ==
    /\ status = Profile.initial
    /\ status' = Profile.enRoute
    /\ matched' = TRUE
    /\ UNCHANGED <<stakes, flags, invoice, req, quit>>

\* /arrived, /start and the raw /transition: any move of the table.
Transition(s) ==
    /\ s \in Allowed(Profile, status)
    /\ status' = s
    /\ UNCHANGED <<matched, stakes, flags, invoice, req, quit>>

\* sweepImmediateRequest and its like: nobody came, the request is closed.
RequestExpires ==
    /\ status = Profile.initial
    /\ ~matched
    /\ status' = Profile.cancelled
    /\ UNCHANGED <<matched, stakes, flags, invoice, req, quit>>

\* The party pays its invoice, or lets it expire after an hour.  A payment held too
\* long goes back to who made it, whatever the ride says of it.
Pay(i) ==
    /\ invoice[i] = "open"
    /\ invoice' = [invoice EXCEPT ![i] = "held"]
    /\ UNCHANGED <<status, matched, stakes, flags, req, quit>>

InvoiceExpires(i) ==
    /\ invoice[i] = "open"
    /\ invoice' = [invoice EXCEPT ![i] = "cancelled"]
    /\ UNCHANGED <<status, matched, stakes, flags, req, quit>>

HoldExpires(i) ==
    /\ invoice[i] = "held"
    /\ invoice' = [invoice EXCEPT ![i] = "cancelled"]
    /\ UNCHANGED <<status, matched, stakes, flags, req, quit>>

Proceeds ==
    \/ \E q \in Req, s \in Side, i \in Invoice : Stake(q, s, i)
    \/ \E q \in Req : StakeAnswered(q)
    \/ \E q \in Req, s \in Side : Confirm(q, s)
    \/ \E q \in Req : ConfirmAnswered(q)
    \/ \E q \in Req, s \in Side : Cancel(q, s)
    \/ \E q \in Req : CancelAnswered(q, TRUE)
    \/ \E q \in Req : Complete(q)
    \/ \E q \in Req : CompletePriced(q)
    \/ \E q \in Req : CompleteAnswered(q, TRUE)
    \/ Accept
    \/ \E s \in State : Transition(s)
    \/ RequestExpires
    \/ \E i \in Invoice : Pay(i)
    \/ \E i \in Invoice : InvoiceExpires(i)

NodeFails ==
    \/ \E q \in Req : CallFails(q)
    \/ \E q \in Req : CancelAnswered(q, FALSE)
    \/ \E q \in Req : CompleteAnswered(q, FALSE)

Next == Proceeds \/ NodeFails \/ \E i \in Invoice : HoldExpires(i)

Spec == Init /\ [][Next]_vars

-----------------------------------------------------------------------------
(* The same behaviours, with what has been calm about them, and the money  *)
(* the node gave back by itself.                                           *)

VARIABLES
    calm,   \* history: no two requests overlapped and the node never failed
    lapsed  \* history: the invoices whose hold expired

calmVars == <<vars, calm, lapsed>>

Overlap == \E p, q \in Req : p # q /\ ~Free(p) /\ ~Free(q)

CalmInit == Init /\ calm = TRUE /\ lapsed = {}

CalmNext ==
    \/ /\ Proceeds
       /\ calm' = (calm /\ ~Overlap')
       /\ UNCHANGED lapsed
    \/ /\ NodeFails
       /\ calm' = FALSE
       /\ UNCHANGED lapsed
    \/ \E i \in Invoice :
          /\ HoldExpires(i)
          /\ lapsed' = lapsed \cup {i}
          /\ UNCHANGED calm

CalmSpec == CalmInit /\ [][CalmNext]_calmVars

-----------------------------------------------------------------------------
(* Properties.                                                             *)

\* The handlers keep the promise of Escrow: whatever overlaps and whatever
\* fails, a stake is claimed only from a side that called /cancel, and an
\* invoice that was settled or returned stays so.
E == INSTANCE Escrow WITH fund <- invoice

KeepsEscrow == E!Spec

\* An entry is locked only on a payment the node has held: a stake counts as
\* locked because somebody paid, not because an invoice was made out, however
\* late the confirmation's answer comes.
LockedWasHeld == \A i \in locked : invoice[i] # "none" /\ invoice[i] # "open"

\* What the ride says became of a stake is what became of the money, once no request
\* is in flight: released means returned; forfeited means claimed, unless the node had
\* given the payment back by itself, at the end of its hold.  No stake the ride is done
\* with is left open or held.
RecordIsOutcome ==
    (\A q \in Req : Free(q)) =>
        /\ \A i \in released : invoice[i] = "cancelled"
        /\ \A i \in forfeited : invoice[i] = IF i \in lapsed THEN "cancelled" ELSE "settled"

\* While requests came one at a time and the node answered, what the ride says of a
\* stake is what became of it.  /cancel does not look at the rail's answer
\* (server.js:6143), so a failure, or the other loop, may leave it untrue.
CalmIsRecorded == calm => RecordIsOutcome

=============================================================================
