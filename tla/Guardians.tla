------------------------------ MODULE Guardians -------------------------------
(***************************************************************************)
(* The guardians' vote on an operator's bond: a theft report, the claims   *)
(* that verify it, proposals to slash and votes on them (server.js,        *)
(* section C of the dispute endpoints).                                    *)
(*                                                                         *)
(* Every handler checks, awaits a publication, and then writes.  One       *)
(* report is enough: reports share only the bond.                          *)
(***************************************************************************)
EXTENDS Naturals, FiniteSets

CONSTANTS
    Ballot,      \* bound: requests in flight at once
    Guardian,    \* GUARDIAN_PUBKEYS
    Proposal,    \* bound: proposals that may be made
    Threshold,   \* thresholds a proposal may name
    Watchdogs,   \* verified claims a report needs (3)
    Bond         \* the bond declared, in units of one slashing

ASSUME GuardiansAssumption ==
    /\ IsFiniteSet(Guardian)
    /\ Threshold \subseteq Nat
    /\ Watchdogs \in Nat /\ Bond \in Nat

VARIABLES
    verified,  \* verified claims filed for the report, up to Watchdogs
    proposal,  \* guardianState.proposals
    bond,      \* guardianState.bond.amount, 0 before one is declared
    slashings, \* slashing events published, with the approvals they rest on
    cast,      \* votes published: [proposal, guardian, vote]
    polling    \* polling[b]: the request in slot b

guardianVars == <<verified, proposal, bond, slashings, cast, polling>>

Vote == {"approve", "reject", "abstain"}

Unused == [kind |-> "none"]

TakeUp(b, r) == polling[b] = Unused /\ polling' = [polling EXCEPT ![b] = r]
Answer(b)    == polling' = [polling EXCEPT ![b] = Unused]

GuardiansInit ==
    /\ verified = 0
    /\ proposal = [p \in Proposal |-> [status |-> "none", threshold |-> 0,
                                       votes |-> [g \in Guardian |-> "none"]]]
    /\ bond = 0
    /\ slashings = {}
    /\ cast = {}
    /\ polling = [b \in Ballot |-> Unused]

-------------------------------------------------------------------------------
(* The report and its verification. *)

WatchdogClaim(b) ==
    /\ verified < Watchdogs
    /\ TakeUp(b, [kind |-> "claim"])
    /\ UNCHANGED <<verified, proposal, bond, slashings, cast>>

\* The claim is counted, whoever filed it before; one that does not verify the
\* report counts for nothing.
WatchdogClaimed(b) ==
    /\ polling[b].kind = "claim"
    /\ verified' \in {verified, IF verified < Watchdogs THEN verified + 1 ELSE verified}
    /\ Answer(b)
    /\ UNCHANGED <<proposal, bond, slashings, cast>>

ThresholdMet == verified >= Watchdogs

-------------------------------------------------------------------------------
(* Proposals and votes. *)

SlashingProposal(b) ==
    /\ ThresholdMet
    /\ \A p \in Proposal : proposal[p].status # "active"
    /\ TakeUp(b, [kind |-> "propose"])
    /\ UNCHANGED <<verified, proposal, bond, slashings, cast>>

\* A proposal names its own threshold.
SlashingProposed(b) ==
    /\ polling[b].kind = "propose"
    /\ \E p \in Proposal, k \in Threshold :
        /\ proposal[p].status = "none"
        /\ proposal' = [proposal EXCEPT ![p].status = "active", ![p].threshold = k]
    /\ Answer(b)
    /\ UNCHANGED <<verified, bond, slashings, cast>>

CastVote(b, g, p) ==
    /\ proposal[p].status = "active"
    /\ proposal[p].votes[g] = "none"
    /\ \E v \in Vote :
        /\ TakeUp(b, [kind |-> "vote", guardian |-> g, proposal |-> p, vote |-> v])
        /\ cast' = cast \cup {[proposal |-> p, guardian |-> g, vote |-> v]}
    /\ UNCHANGED <<verified, proposal, bond, slashings>>

Voters(votes, v) == {g \in Guardian : votes[g] = v}

Approvals_Turnout(votes) == {g \in Guardian : votes[g] # "none"}
Approvals(votes) == Voters(votes, "approve")

\* The vote counts, in place of one of this guardian that came in meanwhile, and
\* whatever became of the proposal; enough approvals slash the operator.
VoteCounted(b) ==
    LET r     == polling[b]
        p     == r.proposal
        votes == [proposal[p].votes EXCEPT ![r.guardian] = r.vote]
        k     == proposal[p].threshold
    IN /\ r.kind = "vote"
       /\ \/ /\ Cardinality(Approvals(votes)) >= k
             /\ slashings' = slashings \cup {[proposal |-> p, approvals |-> Approvals(votes)]}
             /\ proposal' = [proposal EXCEPT ![p].votes = votes]
             /\ polling' = [polling EXCEPT ![b] = [kind |-> "slash", proposal |-> p]]
          \/ /\ Cardinality(Approvals(votes)) < k
             /\ proposal' = [proposal EXCEPT
                    ![p].votes = votes,
                    ![p].status = IF Cardinality(Voters(votes, "reject")) + k
                                        > Cardinality(Guardian)
                                    THEN "rejected" ELSE @]
             /\ Answer(b)
             /\ UNCHANGED slashings
       /\ UNCHANGED <<verified, bond, cast>>

\* The slashing is published.
Slashed(b) ==
    /\ polling[b].kind = "slash"
    /\ proposal' = [proposal EXCEPT ![polling[b].proposal].status = "executed"]
    /\ bond' = IF bond = 0 THEN 0 ELSE bond - 1
    /\ Answer(b)
    /\ UNCHANGED <<verified, slashings, cast>>

\* The operator declares a bond again.
OperatorBond ==
    /\ bond # Bond
    /\ bond' = Bond
    /\ UNCHANGED <<verified, proposal, slashings, cast, polling>>

GuardiansNext ==
    \/ OperatorBond
    \/ \E b \in Ballot :
        \/ WatchdogClaim(b) \/ WatchdogClaimed(b)
        \/ SlashingProposal(b) \/ SlashingProposed(b)
        \/ VoteCounted(b) \/ Slashed(b)
        \/ \E g \in Guardian, p \in Proposal : CastVote(b, g, p)

GuardiansSpec == GuardiansInit /\ [][GuardiansNext]_guardianVars

-------------------------------------------------------------------------------
(* Properties. *)

\* Each slashing rests on as many guardians as its proposal asks for, each of whom
\* published an approval, and on a report that was verified.
SlashHasQuorum ==
    \A s \in slashings :
        /\ Cardinality(s.approvals) >= proposal[s.proposal].threshold
        /\ \A g \in s.approvals :
                [proposal |-> s.proposal, guardian |-> g, vote |-> "approve"] \in cast
        /\ verified >= Watchdogs

\* No guardian has published two votes on the proposal, which the check before the
\* await does not prevent.
VotedOnce(p) ==
    \A c, e \in cast :
        (c.proposal = p /\ e.proposal = p /\ c.guardian = e.guardian) => c = e

\* A proposal that was rejected is not slashed on, in any order of the votes.
RejectedIsSpared ==
    \A p \in Proposal : (proposal[p].status = "rejected" /\ VotedOnce(p)) =>
        \A s \in slashings : s.proposal # p

\* The guardians' votes decide what becomes of the operator's bond.
VotesDecide == SlashHasQuorum /\ RejectedIsSpared

===============================================================================
