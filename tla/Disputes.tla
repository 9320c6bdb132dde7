------------------------------- MODULE Disputes -------------------------------
(***************************************************************************)
(* The disputes of one ride: filing, the operator assigned as arbiter,     *)
(* resolution with its effects on the stakes, and appeal (server.js,       *)
(* section A of the dispute endpoints; nostr/dispute-events.js).           *)
(*                                                                         *)
(* Every handler checks, awaits a publication or the stake rail, and then  *)
(* writes: a request in flight is a record in handling, with the stage it  *)
(* has got to.  What the ride's own cancel and complete do to a stake is   *)
(* one step of the environment.  Evidence is stored and read by nobody and *)
(* is left out, as are amounts and the texts of events.  The operator's    *)
(* suspensions of participants (section B) are in Admission.               *)
(***************************************************************************)
EXTENDS Naturals, FiniteSets

CONSTANTS
    Hearing,  \* bound: requests in flight at once
    Dispute,  \* bound: disputes that may be filed
    Operator, \* config.operatorPubkey
    Arbiter,  \* arbiters the operator may assign instead, if it was not itself
    Ruling,   \* what a resolution may ask for
    Unset     \* absent value

ASSUME DisputesAssumption ==
    /\ Unset \notin Dispute \cup Arbiter \cup {Operator}
    /\ Ruling \subseteq [outcome: {"upheld", "dismissed", "escalation"},
                         complainant: {"released", "kept"},
                         accused: {"released", "forfeited", "kept"}]

VARIABLES
    stake,    \* stake[s]: the rail's record of the stake of side s
    dispute,  \* the disputes map
    rulings,  \* resolution events published
    failed,   \* sides whose stake the rail has failed to move
    handling  \* handling[q]: the request in slot q

disputeVars == <<stake, dispute, rulings, failed, handling>>

Parties == {"rider", "driver"}
Other(s) == CHOOSE t \in Parties : t # s

Waiting == [kind |-> "none"]

Enter(q, r) == handling[q] = Waiting /\ handling' = [handling EXCEPT ![q] = r]
On(q, r)    == handling' = [handling EXCEPT ![q] = r]
Leave(q)    == handling' = [handling EXCEPT ![q] = Waiting]

DisputesInit ==
    /\ stake = [s \in Parties |-> "held"]
    /\ dispute = [d \in Dispute |-> [status |-> "none", complainant |-> Unset,
                                     arbiter |-> Unset, terms |-> Unset, appealed |-> FALSE]]
    /\ rulings = {}
    /\ failed = {}
    /\ handling = [q \in Hearing |-> Waiting]

Accused(d) == Other(dispute[d].complainant)

-------------------------------------------------------------------------------
(* Filing and assignment. *)

Unresolved(s) ==
    {d \in Dispute : dispute[d].complainant = s
                        /\ dispute[d].status \notin {"none", "resolved"}}

File(q, s) ==
    /\ Unresolved(s) = {}
    /\ Enter(q, [kind |-> "file", side |-> s])
    /\ UNCHANGED <<stake, dispute, rulings, failed>>

\* The claim is published: the dispute exists, and the operator is being made its
\* arbiter.
Filed(q) ==
    /\ handling[q].kind = "file"
    /\ \E d \in Dispute :
        /\ dispute[d].status = "none"
        /\ dispute' = [dispute EXCEPT ![d].status = "filed",
                                      ![d].complainant = handling[q].side]
        /\ On(q, [kind |-> "assign", dispute |-> d, arbiter |-> Operator])
    /\ UNCHANGED <<stake, rulings, failed>>

Assign(q, d) ==
    /\ dispute[d].status = "filed"
    /\ \E a \in Arbiter : Enter(q, [kind |-> "assign", dispute |-> d, arbiter |-> a])
    /\ UNCHANGED <<stake, dispute, rulings, failed>>

\* Whatever became of the dispute meanwhile, it has this arbiter now.
Assigned(q) ==
    /\ handling[q].kind = "assign"
    /\ dispute' = [dispute EXCEPT ![handling[q].dispute].status = "assigned",
                                  ![handling[q].dispute].arbiter = handling[q].arbiter]
    /\ Leave(q)
    /\ UNCHANGED <<stake, rulings, failed>>

\* The operator has no key to sign with.
AssignUnsigned(q) ==
    /\ handling[q].kind = "assign" /\ handling[q].arbiter = Operator
    /\ Leave(q)
    /\ UNCHANGED <<stake, dispute, rulings, failed>>

-------------------------------------------------------------------------------
(* Resolution. *)

\* The arbiter of the dispute, or the operator, rules on it.
Resolve(q, d) ==
    /\ dispute[d].status = "assigned"
    /\ \E t \in Ruling :
        Enter(q, [kind |-> "resolve", stage |-> "publish", dispute |-> d, terms |-> t])
    /\ UNCHANGED <<stake, dispute, rulings, failed>>

At(q, stage) == handling[q].kind = "resolve" /\ handling[q].stage = stage
OnTo(q, stage) == On(q, [handling[q] EXCEPT !.stage = stage])

\* The ruling is published; an escalation leaves the stakes alone.
Ruled(q) ==
    LET r == handling[q] IN
    /\ At(q, "publish")
    /\ rulings' = rulings \cup {[dispute |-> r.dispute, accused |-> Accused(r.dispute),
                                 terms |-> r.terms]}
    /\ OnTo(q, IF r.terms.outcome = "escalation" THEN "record" ELSE "complainant")
    /\ UNCHANGED <<stake, dispute, failed>>

\* A call of the rail: it moves a stake it holds, or fails, which is logged.
Moves(s, to) ==
    \/ /\ stake[s] = "held"
       /\ stake' = [stake EXCEPT ![s] = to]
       /\ UNCHANGED failed
    \/ UNCHANGED stake /\ failed' = failed \cup {s}

ComplainantMoved(q) ==
    LET r == handling[q] IN
    /\ At(q, "complainant")
    /\ IF r.terms.complainant = "released"
         THEN Moves(dispute[r.dispute].complainant, "released")
         ELSE UNCHANGED <<stake, failed>>
    /\ OnTo(q, "accused")
    /\ UNCHANGED <<dispute, rulings>>

AccusedRole_Complainant(d) == dispute[d].complainant
AccusedRole(d) == Accused(d)

AccusedMoved(q) ==
    LET r == handling[q] IN
    /\ At(q, "accused")
    /\ IF r.terms.accused # "kept"
         THEN Moves(AccusedRole(r.dispute), r.terms.accused)
         ELSE UNCHANGED <<stake, failed>>
    /\ OnTo(q, "record")
    /\ UNCHANGED <<dispute, rulings>>

RulingRecorded(q) ==
    LET r == handling[q] IN
    /\ At(q, "record")
    /\ dispute' = [dispute EXCEPT
            ![r.dispute].terms = r.terms,
            ![r.dispute].status = IF r.terms.outcome = "escalation" THEN "escalated"
                                                                    ELSE "resolved"]
    /\ Leave(q)
    /\ UNCHANGED <<stake, rulings, failed>>

-------------------------------------------------------------------------------
(* Appeal, and the ride. *)

Appeal(q, d) ==
    /\ dispute[d].status = "resolved" /\ ~dispute[d].appealed
    /\ Enter(q, [kind |-> "appeal", dispute |-> d])
    /\ UNCHANGED <<stake, dispute, rulings, failed>>

Appealed(q) ==
    /\ handling[q].kind = "appeal"
    /\ dispute' = [dispute EXCEPT ![handling[q].dispute].status = "appealed",
                                  ![handling[q].dispute].appealed = TRUE]
    /\ Leave(q)
    /\ UNCHANGED <<stake, rulings, failed>>

\* Completing or cancelling the ride releases, or takes, what is still held.
RideSettles(s) ==
    /\ stake[s] = "held"
    /\ stake' = [stake EXCEPT ![s] = "settled"]
    /\ UNCHANGED <<dispute, rulings, failed, handling>>

DisputesNext ==
    \/ \E q \in Hearing :
        \/ Filed(q) \/ Assigned(q) \/ AssignUnsigned(q)
        \/ Ruled(q) \/ ComplainantMoved(q) \/ AccusedMoved(q) \/ RulingRecorded(q) \/ Appealed(q)
        \/ \E s \in Parties : File(q, s)
        \/ \E d \in Dispute : Assign(q, d) \/ Resolve(q, d) \/ Appeal(q, d)
    \/ \E s \in Parties : RideSettles(s)

DisputesSpec == DisputesInit /\ [][DisputesNext]_disputeVars

-------------------------------------------------------------------------------
(* Properties. *)

\* A side's stake is forfeited only after a ruling that says so was published on a
\* dispute in which that side is accused, and an escalation is no such ruling.
ForfeitIsRuled ==
    \A s \in Parties : stake[s] = "forfeited" =>
        \E r \in rulings : /\ r.accused = s
                           /\ r.terms.accused = "forfeited"
                           /\ r.terms.outcome # "escalation"

\* A dispute recorded as resolved has moved the stakes as its ruling says, except
\* one the rail failed to move.
ResolvedIsDone ==
    \A d \in Dispute : dispute[d].status = "resolved" =>
        LET t == dispute[d].terms IN
        /\ t.complainant = "released"
                => stake[dispute[d].complainant] # "held" \/ dispute[d].complainant \in failed
        /\ t.accused # "kept" => stake[Accused(d)] # "held" \/ Accused(d) \in failed

\* The stakes follow the rulings, also when two requests rule on one dispute, when
\* a dispute is assigned anew under a ruling, and when both sides file.
StakesFollowRulings == ForfeitIsRuled /\ ResolvedIsDone

===============================================================================
