------------------------- MODULE MCFacadeAndSessions -------------------------
(***************************************************************************)
(* Instances for TLC of four engines behind the facade with a database, of *)
(* the stakes of one session, of the rails a stake may be on, of the panel *)
(* the payer settles a ride with, of guidance along a route, of a ride's   *)
(* disputes and of the guardians' votes.  They share no state: a behaviour *)
(* is of one of them.  Some of their sets share elements, so that one      *)
(* small group of permutations is a symmetry of each.                      *)
(***************************************************************************)
EXTENDS MCTaskManager, MCSessionStakes, StakeRails, PayPanel, Navigation,
        Disputes, Guardians

CONSTANTS l1, l2, cash, operator, arbiter, g1

MCLightning == {l1, l2}
MCDirect    == {cash}

MCDeposits == {i0, i1}
MCSideOf   == [i \in MCDeposits |-> IF i = i0 THEN "rider" ELSE "driver"]

MCTrips  == {t1}
MCWanted == <<"graphhopper", "ors", "osrm">>

MCDisputes  == MCLightning
MCArbiters  == {arbiter}
MCRulings   == {[outcome |-> "upheld", complainant |-> "released", accused |-> "forfeited"],
                [outcome |-> "escalation", complainant |-> "kept", accused |-> "forfeited"]}
MCGuardians == MCLightning \cup {g1}
MCProposals == {p1}

VARIABLE part

mcVars == <<vars, sessionVars, railVars, payVars, navVars, disputeVars, guardianVars, part>>

MCInit ==
    /\ Init /\ SessionInit /\ RailsInit /\ PayInit /\ NavInit
    /\ DisputesInit /\ GuardiansInit
    /\ part \in {"facade", "session", "rail", "panel", "guidance", "disputes", "guardians"}
    /\ part # "session" => rails = <<"cash">>
    /\ part # "rail" => backend = "demo"

\* An lnd rail handles each stake by its own id: one is enough.
RailBound == backend = "lnd" => node'[i1] = "none"

\* With a second session started, the driver moves on by one place only.
GuidanceBound == Len(guide') = 2 => Total("driven")' <= 1

\* Where the payer chose again over a payment, the fare rises no more, and no
\* third choice is made.
PanelBound == strayed => owed' = owed /\ panel'.rail \in {panel.rail, Nothing}

\* Somebody other than the operator rules where there is one dispute only.
HearingBound ==
    (\E d \in Dispute : dispute'[d].arbiter \in Arbiter)
            \/ (\E q \in Hearing : handling'[q].kind = "assign" /\ handling'[q].arbiter \in Arbiter)
        => \E d \in Dispute : dispute'[d].status = "none"

MCNext ==
    \/ part = "facade" /\ Next /\ OneDomainPerId'
         /\ UNCHANGED <<sessionVars, railVars, payVars, navVars, disputeVars, guardianVars, part>>
    \/ part = "session" /\ SessionNext
         /\ UNCHANGED <<vars, railVars, payVars, navVars, disputeVars, guardianVars, part>>
    \/ part = "rail" /\ RailsNext /\ RailBound
         /\ UNCHANGED <<vars, sessionVars, payVars, navVars, disputeVars, guardianVars, part>>
    \/ part = "panel" /\ PayNext /\ PanelBound
         /\ UNCHANGED <<vars, sessionVars, railVars, navVars, disputeVars, guardianVars, part>>
    \/ part = "guidance" /\ NavNext /\ GuidanceBound
         /\ UNCHANGED <<vars, sessionVars, railVars, payVars, disputeVars, guardianVars, part>>
    \/ part = "disputes" /\ DisputesNext /\ HearingBound
         /\ UNCHANGED <<vars, sessionVars, railVars, payVars, navVars, guardianVars, part>>
    \/ part = "guardians" /\ GuardiansNext
         /\ UNCHANGED <<vars, sessionVars, railVars, payVars, navVars, disputeVars, part>>

MCSpec == MCInit /\ [][MCNext]_mcVars

\* Neither the requests nor the rails paid by an invoice are told apart, nor the
\* ballots, disputes and two of the guardians that stand in the same places.
MCPartSymmetry == Permutations(Req) \cup Permutations(MCLightning)
================================================================================
