------------------------ MODULE RulingsAndOffers_proofs ------------------------
(***************************************************************************)
(* Proofs about the disputes of a ride, the guardians of an operator and   *)
(* the offering of a request, for any number of requests in flight,        *)
(* disputes, guardians, proposals and drivers.                             *)
(*                                                                         *)
(* StakesFollowRulings is not inductive: what it says when a ruling is     *)
(* recorded holds because of what the request that records it did before,  *)
(* while others went on.  DisputesInv says what a request has done at each *)
(* stage, and that nothing another request does undoes it.                 *)
(*                                                                         *)
(* Nor is OfferedAsAsked: a driver is told with what the server knows of   *)
(* them, and with what it has of the request.  OffersInv says that it      *)
(* never knows more than the driver declares, and what a restart leaves.   *)
(***************************************************************************)
EXTENDS Disputes, Guardians, Dispatch, FiniteSetTheorems, TLAPS

--------------------------------------------------------------------------------
(* Disputes: the inductive invariant.                                          *)

Claimant == Parties \cup {Unset}

DisputeRecord ==
    [status: {"none", "filed", "assigned", "escalated", "resolved", "appealed"},
     complainant: Claimant, arbiter: Arbiter \cup {Operator, Unset},
     terms: Ruling \cup {Unset}, appealed: BOOLEAN]

FileRequest    == [kind: {"file"}, side: Parties]
AssignRequest  == [kind: {"assign"}, dispute: Dispute, arbiter: Arbiter \cup {Operator}]
ResolveRequest == [kind: {"resolve"}, stage: {"publish", "complainant", "accused", "record"},
                   dispute: Dispute, terms: Ruling]
AppealRequest  == [kind: {"appeal"}, dispute: Dispute]

DisputeRequest ==
    {Waiting} \cup FileRequest \cup AssignRequest \cup ResolveRequest \cup AppealRequest

DisputesTypeOK ==
    /\ stake \in [Parties -> {"held", "released", "forfeited", "settled"}]
    /\ dispute \in [Dispute -> DisputeRecord]
    /\ failed \subseteq Parties
    /\ handling \in [Hearing -> DisputeRequest]

\* The dispute has been filed, by one of the two sides.
Exists(d) == dispute[d].status # "none" /\ dispute[d].complainant \in Parties

FiledIsClaimed == \A d \in Dispute : dispute[d].status # "none" => Exists(d)

Dealt(s) == stake[s] # "held" \/ s \in failed

ComplainantDone(d, t) == t.complainant = "released" => Dealt(dispute[d].complainant)
AccusedDone(d, t)     == t.accused # "kept" => Dealt(Accused(d))

Published(d, t) == \E r \in rulings : r.accused = Accused(d) /\ r.terms = t

\* What the request has seen to, by its stage.
Handled(r) ==
    /\ r \in AssignRequest \cup AppealRequest \cup ResolveRequest => Exists(r.dispute)
    /\ r \in ResolveRequest =>
        /\ r.stage \in {"complainant", "accused"} =>
               r.terms.outcome # "escalation" /\ Published(r.dispute, r.terms)
        /\ r.stage = "accused" => ComplainantDone(r.dispute, r.terms)
        /\ r.stage = "record" =>
               \/ r.terms.outcome = "escalation"
               \/ ComplainantDone(r.dispute, r.terms) /\ AccusedDone(r.dispute, r.terms)

DisputesInv ==
    /\ DisputesTypeOK
    /\ FiledIsClaimed
    /\ \A q \in Hearing : Handled(handling[q])
    /\ ForfeitIsRuled
    /\ ResolvedIsDone

\* What no step undoes: a stake dealt with, a ruling published, a dispute filed.
Monotone ==
    /\ \A s \in Parties : Dealt(s) => Dealt(s)'
    /\ rulings \subseteq rulings'
    /\ \A d \in Dispute : Exists(d) => Exists(d)' /\ dispute'[d].complainant = dispute[d].complainant

--------------------------------------------------------------------------------
(* Disputes: lemmas.                                                           *)

\* Of the two sides, the other one.
LEMMA OtherSide ==
    ASSUME NEW s \in Parties
    PROVE  Other(s) \in Parties /\ Other(s) # s
  BY DEF Parties, Other

\* The kinds of request exclude each other.
LEMMA KindsOfRequest ==
    ASSUME NEW r \in DisputeRequest
    PROVE  /\ r.kind = "file"    => r \in FileRequest
           /\ r.kind = "assign"  => r \in AssignRequest
           /\ r.kind = "resolve" => r \in ResolveRequest
           /\ r.kind = "appeal"  => r \in AppealRequest
  BY DEF DisputeRequest, FileRequest, AssignRequest, ResolveRequest, AppealRequest, Waiting

\* What a request has seen to stays seen to, whatever others do.
LEMMA StaysHandled ==
    ASSUME DisputesTypeOK, Monotone, NEW r \in DisputeRequest, Handled(r)
    PROVE  Handled(r)'
  <1>1. CASE r \in ResolveRequest
    <2>1. r.dispute \in Dispute /\ Exists(r.dispute)
      BY <1>1 DEF Handled, ResolveRequest
    <2>2. /\ dispute'[r.dispute].complainant = dispute[r.dispute].complainant
          /\ Exists(r.dispute)'
          /\ dispute[r.dispute].complainant \in Parties
      BY <2>1 DEF Monotone, Exists
    <2>3. Accused(r.dispute)' = Accused(r.dispute) /\ Accused(r.dispute) \in Parties
      BY <2>2, OtherSide DEF Accused
    <2>4. Published(r.dispute, r.terms) => Published(r.dispute, r.terms)'
      BY <2>3 DEF Published, Monotone
    <2>5. ComplainantDone(r.dispute, r.terms) => ComplainantDone(r.dispute, r.terms)'
      BY <2>2 DEF ComplainantDone, Monotone
    <2>6. AccusedDone(r.dispute, r.terms) => AccusedDone(r.dispute, r.terms)'
      BY <2>3 DEF AccusedDone, Monotone
    <2>. QED  BY <1>1, <2>2, <2>4, <2>5, <2>6 DEF Handled
  <1>2. CASE r \in AssignRequest \cup AppealRequest
    <2>1. r \notin ResolveRequest
      BY <1>2 DEF AssignRequest, AppealRequest, ResolveRequest
    <2>2. r.dispute \in Dispute /\ Exists(r.dispute)
      BY <1>2 DEF Handled, AssignRequest, AppealRequest
    <2>. QED  BY <2>1, <2>2 DEF Handled, Monotone
  <1>3. CASE r \notin AssignRequest \cup AppealRequest \cup ResolveRequest
    BY <1>3 DEF Handled
  <1>. QED  BY <1>1, <1>2, <1>3

\* Requests other than the one at work, and the disputes it does not write.
LEMMA OnlyOneMoves ==
    ASSUME DisputesInv, Monotone, NEW q \in Hearing, NEW r \in DisputeRequest,
           handling' = [handling EXCEPT ![q] = r], Handled(r)'
    PROVE  /\ handling' \in [Hearing -> DisputeRequest]
           /\ \A p \in Hearing : Handled(handling[p])'
  <1>1. handling' \in [Hearing -> DisputeRequest]
    BY DEF DisputesInv, DisputesTypeOK
  <1>2. ASSUME NEW p \in Hearing
        PROVE  Handled(handling[p])'
    <2>1. CASE p = q
      BY <2>1 DEF DisputesInv, DisputesTypeOK
    <2>2. CASE p # q
      <3>1. PICK h \in DisputeRequest : h = handling[p]
        BY DEF DisputesInv, DisputesTypeOK
      <3>2. handling'[p] = h /\ Handled(h)
        BY <2>2, <3>1 DEF DisputesInv, DisputesTypeOK
      <3>3. Handled(h)'
        BY <3>2, StaysHandled DEF DisputesInv
      <3>. QED  BY <3>2, <3>3
    <2>. QED  BY <2>1, <2>2
  <1>. QED  BY <1>1, <1>2

\* A step that moves no stake, records nothing as resolved and unmakes no claim
\* leaves what is said of stakes and rulings true.
LEMMA StakesUntouched ==
    ASSUME DisputesInv, Monotone, UNCHANGED stake,
           \A d \in Dispute : dispute'[d].status = "resolved" => dispute'[d] = dispute[d]
    PROVE  ForfeitIsRuled' /\ ResolvedIsDone'
  <1>1. ForfeitIsRuled'
    BY DEF DisputesInv, ForfeitIsRuled, Monotone
  <1>2. ASSUME NEW d \in Dispute, dispute'[d].status = "resolved"
        PROVE  /\ ComplainantDone(d, dispute[d].terms)'
               /\ AccusedDone(d, dispute[d].terms)'
    <2>1. dispute'[d] = dispute[d] /\ dispute[d].status = "resolved"
      BY <1>2
    <2>2. dispute[d].complainant \in Parties /\ Accused(d) \in Parties
      BY <2>1, OtherSide DEF DisputesInv, FiledIsClaimed, Exists, Accused
    <2>3. ComplainantDone(d, dispute[d].terms) /\ AccusedDone(d, dispute[d].terms)
      BY <2>1 DEF DisputesInv, ResolvedIsDone, ComplainantDone, AccusedDone, Dealt
    <2>. QED  BY <2>1, <2>2, <2>3 DEF ComplainantDone, AccusedDone, Accused, Monotone
  <1>. QED  BY <1>1, <1>2 DEF ResolvedIsDone, ComplainantDone, AccusedDone, Dealt

--------------------------------------------------------------------------------
(* Disputes: the steps.                                                        *)

LEMMA DisputesInitInv == DisputesInit => DisputesInv
  <1>1. DisputesInit => DisputesTypeOK
    BY DEF DisputesInit, DisputesTypeOK, DisputeRecord, Claimant, DisputeRequest
  <1>2. DisputesInit => \A q \in Hearing : Handled(handling[q])
    BY DEF DisputesInit, Handled, Waiting, AssignRequest, AppealRequest, ResolveRequest
  <1>3. DisputesInit => FiledIsClaimed /\ ForfeitIsRuled /\ ResolvedIsDone
    BY DEF DisputesInit, FiledIsClaimed, ForfeitIsRuled, ResolvedIsDone
  <1>. QED  BY <1>1, <1>2, <1>3 DEF DisputesInv

\* The handlers that only take a request up, or drop it.
LEMMA FileInv ==
    ASSUME DisputesInv, NEW q \in Hearing, NEW s \in Parties, File(q, s)
    PROVE  DisputesInv'
  <1>. DEFINE r == [kind |-> "file", side |-> s]
  <1>1. Monotone
    BY DEF File, Monotone, Dealt, Exists
  <1>2. r \in FileRequest /\ r \in DisputeRequest
    BY DEF FileRequest, DisputeRequest
  <1>3. Handled(r)'
    BY DEF Handled, AssignRequest, AppealRequest, ResolveRequest
  <1>4. /\ handling' \in [Hearing -> DisputeRequest]
        /\ \A p \in Hearing : Handled(handling[p])'
    BY <1>1, <1>2, <1>3, OnlyOneMoves DEF File, Enter
  <1>5. ForfeitIsRuled' /\ ResolvedIsDone'
    BY <1>1, StakesUntouched DEF File
  <1>. QED  BY <1>4, <1>5 DEF File, DisputesInv, DisputesTypeOK, FiledIsClaimed, Exists

LEMMA AssignInv ==
    ASSUME DisputesInv, NEW q \in Hearing, NEW d \in Dispute, Assign(q, d)
    PROVE  DisputesInv'
  <1>1. PICK a \in Arbiter :
            Enter(q, [kind |-> "assign", dispute |-> d, arbiter |-> a])
    BY DEF Assign
  <1>. DEFINE r == [kind |-> "assign", dispute |-> d, arbiter |-> a]
  <1>2. Monotone
    BY DEF Assign, Monotone, Dealt, Exists
  <1>3. r \in AssignRequest /\ r \in DisputeRequest
    BY DEF AssignRequest, DisputeRequest
  <1>4. Exists(d)'
    BY DEF Assign, Exists, DisputesInv, FiledIsClaimed
  <1>5. Handled(r)'
    BY <1>4 DEF Handled, AssignRequest, AppealRequest, ResolveRequest
  <1>6. /\ handling' \in [Hearing -> DisputeRequest]
        /\ \A p \in Hearing : Handled(handling[p])'
    BY <1>1, <1>2, <1>3, <1>5, OnlyOneMoves DEF Enter
  <1>7. ForfeitIsRuled' /\ ResolvedIsDone'
    BY <1>2, StakesUntouched DEF Assign
  <1>. QED  BY <1>6, <1>7 DEF Assign, DisputesInv, DisputesTypeOK, FiledIsClaimed, Exists

LEMMA ResolveInv ==
    ASSUME DisputesInv, NEW q \in Hearing, NEW d \in Dispute, Resolve(q, d)
    PROVE  DisputesInv'
  <1>1. PICK t \in Ruling :
            Enter(q, [kind |-> "resolve", stage |-> "publish", dispute |-> d, terms |-> t])
    BY DEF Resolve
  <1>. DEFINE r == [kind |-> "resolve", stage |-> "publish", dispute |-> d, terms |-> t]
  <1>2. Monotone
    BY DEF Resolve, Monotone, Dealt, Exists
  <1>3. r \in ResolveRequest /\ r \in DisputeRequest
    BY DEF ResolveRequest, DisputeRequest
  <1>4. Exists(d)'
    BY DEF Resolve, Exists, DisputesInv, FiledIsClaimed
  <1>5. Handled(r)'
    BY <1>4 DEF Handled, AssignRequest, AppealRequest, ResolveRequest
  <1>6. /\ handling' \in [Hearing -> DisputeRequest]
        /\ \A p \in Hearing : Handled(handling[p])'
    BY <1>1, <1>2, <1>3, <1>5, OnlyOneMoves DEF Enter
  <1>7. ForfeitIsRuled' /\ ResolvedIsDone'
    BY <1>2, StakesUntouched DEF Resolve
  <1>. QED  BY <1>6, <1>7 DEF Resolve, DisputesInv, DisputesTypeOK, FiledIsClaimed, Exists

LEMMA AppealInv ==
    ASSUME DisputesInv, NEW q \in Hearing, NEW d \in Dispute, Appeal(q, d)
    PROVE  DisputesInv'
  <1>. DEFINE r == [kind |-> "appeal", dispute |-> d]
  <1>1. Monotone
    BY DEF Appeal, Monotone, Dealt, Exists
  <1>2. r \in AppealRequest /\ r \in DisputeRequest
    BY DEF AppealRequest, DisputeRequest
  <1>3. Exists(d)'
    BY DEF Appeal, Exists, DisputesInv, FiledIsClaimed
  <1>4. Handled(r)'
    BY <1>3 DEF Handled, AssignRequest, AppealRequest, ResolveRequest
  <1>5. /\ handling' \in [Hearing -> DisputeRequest]
        /\ \A p \in Hearing : Handled(handling[p])'
    BY <1>1, <1>2, <1>4, OnlyOneMoves DEF Appeal, Enter
  <1>6. ForfeitIsRuled' /\ ResolvedIsDone'
    BY <1>1, StakesUntouched DEF Appeal
  <1>. QED  BY <1>5, <1>6 DEF Appeal, DisputesInv, DisputesTypeOK, FiledIsClaimed, Exists

\* A request that leaves has nothing more to have seen to.
LEMMA WaitingIsHandled ==
    Waiting \in DisputeRequest /\ Handled(Waiting) /\ Handled(Waiting)'
  BY DEF DisputeRequest, Waiting, Handled, AssignRequest, AppealRequest, ResolveRequest

LEMMA AssignUnsignedInv ==
    ASSUME DisputesInv, NEW q \in Hearing, AssignUnsigned(q)
    PROVE  DisputesInv'
  <1>1. Monotone
    BY DEF AssignUnsigned, Monotone, Dealt, Exists
  <1>2. /\ handling' \in [Hearing -> DisputeRequest]
        /\ \A p \in Hearing : Handled(handling[p])'
    BY <1>1, WaitingIsHandled, OnlyOneMoves DEF AssignUnsigned, Leave
  <1>3. ForfeitIsRuled' /\ ResolvedIsDone'
    BY <1>1, StakesUntouched DEF AssignUnsigned
  <1>. QED  BY <1>2, <1>3 DEF AssignUnsigned, DisputesInv, DisputesTypeOK, FiledIsClaimed, Exists

\* The dispute comes to exist, and with it the request that makes the operator its
\* arbiter.
LEMMA FiledInv ==
    ASSUME DisputesInv, NEW q \in Hearing, Filed(q)
    PROVE  DisputesInv'
  <1>1. PICK d \in Dispute :
            /\ dispute[d].status = "none"
            /\ dispute' = [dispute EXCEPT ![d].status = "filed",
                                          ![d].complainant = handling[q].side]
            /\ On(q, [kind |-> "assign", dispute |-> d, arbiter |-> Operator])
    BY DEF Filed
  <1>. DEFINE r == [kind |-> "assign", dispute |-> d, arbiter |-> Operator]
  <1>2. handling[q].side \in Parties
    BY KindsOfRequest DEF Filed, DisputesInv, DisputesTypeOK, FileRequest
  <1>3. /\ dispute' \in [Dispute -> DisputeRecord]
        /\ \A e \in Dispute : e # d => dispute'[e] = dispute[e]
        /\ dispute'[d].status = "filed" /\ dispute'[d].complainant = handling[q].side
    BY <1>1, <1>2 DEF DisputesInv, DisputesTypeOK, DisputeRecord, Claimant
  <1>4. Monotone
    BY <1>1, <1>3 DEF Filed, Monotone, Dealt, Exists
  <1>5. Exists(d)' /\ FiledIsClaimed'
    BY <1>2, <1>3 DEF Exists, FiledIsClaimed, DisputesInv
  <1>6. r \in AssignRequest /\ r \in DisputeRequest
    BY DEF AssignRequest, DisputeRequest
  <1>7. Handled(r)'
    BY <1>5 DEF Handled, AssignRequest, AppealRequest, ResolveRequest
  <1>8. /\ handling' \in [Hearing -> DisputeRequest]
        /\ \A p \in Hearing : Handled(handling[p])'
    BY <1>1, <1>4, <1>6, <1>7, OnlyOneMoves DEF On
  <1>9. ForfeitIsRuled' /\ ResolvedIsDone'
    BY <1>3, <1>4, StakesUntouched DEF Filed
  <1>. QED  BY <1>3, <1>5, <1>8, <1>9 DEF Filed, DisputesInv, DisputesTypeOK

\* The dispute a request works on.
LEMMA AtWork ==
    ASSUME DisputesInv, NEW q \in Hearing, handling[q].kind \in {"assign", "resolve", "appeal"}
    PROVE  /\ handling[q].dispute \in Dispute
           /\ Exists(handling[q].dispute)
           /\ dispute[handling[q].dispute].complainant \in Parties
           /\ Accused(handling[q].dispute) \in Parties
  <1>1. handling[q] \in AssignRequest \cup AppealRequest \cup ResolveRequest
    BY KindsOfRequest DEF DisputesInv, DisputesTypeOK
  <1>2. Exists(handling[q].dispute)
    BY <1>1 DEF DisputesInv, Handled
  <1>. QED  BY <1>1, <1>2, OtherSide
            DEF AssignRequest, AppealRequest, ResolveRequest, Exists, Accused

\* Steps that give a dispute that exists a status of no ruling.
LEMMA StatusInv ==
    ASSUME DisputesInv, NEW q \in Hearing, NEW d \in Dispute, Exists(d),
           NEW x \in DisputeRecord, x.status \notin {"none", "resolved"},
           x.complainant = dispute[d].complainant,
           dispute' = [dispute EXCEPT ![d] = x], Leave(q), UNCHANGED <<stake, rulings, failed>>
    PROVE  DisputesInv'
  <1>1. /\ dispute' \in [Dispute -> DisputeRecord]
        /\ dispute'[d] = x
        /\ \A e \in Dispute : e # d => dispute'[e] = dispute[e]
    BY DEF DisputesInv, DisputesTypeOK
  <1>2. Monotone
    BY <1>1 DEF Monotone, Dealt, Exists
  <1>3. FiledIsClaimed'
    BY <1>1 DEF FiledIsClaimed, Exists, DisputesInv
  <1>4. /\ handling' \in [Hearing -> DisputeRequest]
        /\ \A p \in Hearing : Handled(handling[p])'
    BY <1>2, WaitingIsHandled, OnlyOneMoves DEF Leave
  <1>5. ForfeitIsRuled' /\ ResolvedIsDone'
    BY <1>1, <1>2, StakesUntouched
  <1>. QED  BY <1>1, <1>3, <1>4, <1>5 DEF DisputesInv, DisputesTypeOK

LEMMA AssignedInv ==
    ASSUME DisputesInv, NEW q \in Hearing, Assigned(q)
    PROVE  DisputesInv'
  <1>. DEFINE d == handling[q].dispute
              x == [dispute[d] EXCEPT !.status = "assigned", !.arbiter = handling[q].arbiter]
  <1>1. d \in Dispute /\ Exists(d)
    BY AtWork DEF Assigned
  <1>2. handling[q].arbiter \in Arbiter \cup {Operator}
    BY KindsOfRequest DEF Assigned, DisputesInv, DisputesTypeOK, AssignRequest
  <1>3. dispute[d] \in DisputeRecord
    BY <1>1 DEF DisputesInv, DisputesTypeOK
  <1>4. x \in DisputeRecord /\ x.status = "assigned" /\ x.complainant = dispute[d].complainant
    BY <1>2, <1>3 DEF DisputeRecord
  <1>5. dispute' = [dispute EXCEPT ![d] = x]
    BY <1>1, <1>3 DEF Assigned, DisputesInv, DisputesTypeOK
  <1>. HIDE DEF d, x
  <1>. QED  BY <1>1, <1>4, <1>5, StatusInv DEF Assigned

LEMMA AppealedInv ==
    ASSUME DisputesInv, NEW q \in Hearing, Appealed(q)
    PROVE  DisputesInv'
  <1>. DEFINE d == handling[q].dispute
              x == [dispute[d] EXCEPT !.status = "appealed", !.appealed = TRUE]
  <1>1. d \in Dispute /\ Exists(d)
    BY AtWork DEF Appealed
  <1>2. dispute[d] \in DisputeRecord
    BY <1>1 DEF DisputesInv, DisputesTypeOK
  <1>3. x \in DisputeRecord /\ x.status = "appealed" /\ x.complainant = dispute[d].complainant
    BY <1>2 DEF DisputeRecord
  <1>4. dispute' = [dispute EXCEPT ![d] = x]
    BY <1>1, <1>2 DEF Appealed, DisputesInv, DisputesTypeOK
  <1>. HIDE DEF d, x
  <1>. QED  BY <1>1, <1>3, <1>4, StatusInv DEF Appealed

\* The request as it goes on to its next stage.
LEMMA NextStage ==
    ASSUME DisputesInv, NEW q \in Hearing, NEW g, At(q, g),
           NEW n \in {"complainant", "accused", "record"}, OnTo(q, n)
    PROVE  \E h \in ResolveRequest :
               /\ handling' = [handling EXCEPT ![q] = h]
               /\ h \in DisputeRequest
               /\ h.stage = n
               /\ h.dispute = handling[q].dispute /\ h.dispute \in Dispute
               /\ h.terms = handling[q].terms /\ h.terms \in Ruling
  <1>1. handling[q] \in ResolveRequest
    BY KindsOfRequest DEF At, DisputesInv, DisputesTypeOK
  <1>. DEFINE h == [handling[q] EXCEPT !.stage = n]
  <1>2. /\ h \in ResolveRequest
        /\ h.stage = n /\ h.dispute = handling[q].dispute /\ h.terms = handling[q].terms
    BY <1>1 DEF ResolveRequest
  <1>3. h.dispute \in Dispute /\ h.terms \in Ruling /\ h \in DisputeRequest
    BY <1>2 DEF ResolveRequest, DisputeRequest
  <1>. QED  BY <1>2, <1>3 DEF OnTo, On

\* What a request at a stage has seen to.
LEMMA SeenTo ==
    ASSUME DisputesInv, NEW q \in Hearing, NEW g, At(q, g)
    PROVE  LET d == handling[q].dispute
               t == handling[q].terms
           IN  /\ d \in Dispute /\ t \in Ruling /\ Exists(d)
               /\ dispute[d].complainant \in Parties /\ Accused(d) \in Parties
               /\ g \in {"complainant", "accused"} =>
                      t.outcome # "escalation" /\ Published(d, t)
               /\ g = "accused" => ComplainantDone(d, t)
               /\ g = "record" => \/ t.outcome = "escalation"
                                  \/ ComplainantDone(d, t) /\ AccusedDone(d, t)
  <1>1. handling[q] \in ResolveRequest
    BY KindsOfRequest DEF At, DisputesInv, DisputesTypeOK
  <1>2. Handled(handling[q])
    BY DEF DisputesInv
  <1>. QED  BY <1>1, <1>2, AtWork DEF At, Handled, ResolveRequest

LEMMA RuledInv ==
    ASSUME DisputesInv, NEW q \in Hearing, Ruled(q)
    PROVE  DisputesInv'
  <1>. DEFINE n == IF handling[q].terms.outcome = "escalation" THEN "record" ELSE "complainant"
  <1>1. At(q, "publish") /\ OnTo(q, n)
    BY DEF Ruled
  <1>2. PICK h \in ResolveRequest :
               /\ handling' = [handling EXCEPT ![q] = h]
               /\ h \in DisputeRequest
               /\ h.stage = n
               /\ h.dispute = handling[q].dispute /\ h.dispute \in Dispute
               /\ h.terms = handling[q].terms /\ h.terms \in Ruling
    BY <1>1, NextStage
  <1>3. Monotone
    BY DEF Ruled, Monotone, Dealt, Exists
  <1>4. Exists(h.dispute)'
    BY <1>1, <1>2, <1>3, SeenTo DEF Monotone
  <1>5. Published(h.dispute, h.terms)'
    <2>. DEFINE x == [dispute |-> h.dispute, accused |-> Accused(h.dispute), terms |-> h.terms]
    <2>1. x \in rulings'
      BY <1>2 DEF Ruled
    <2>2. x.accused = Accused(h.dispute)' /\ x.terms = h.terms
      BY DEF Ruled, Accused
    <2>. QED  BY <2>1, <2>2 DEF Published
  <1>6. Handled(h)'
    BY <1>2, <1>4, <1>5 DEF Handled, ResolveRequest, AssignRequest, AppealRequest
  <1>7. /\ handling' \in [Hearing -> DisputeRequest]
        /\ \A p \in Hearing : Handled(handling[p])'
    BY <1>2, <1>3, <1>6, OnlyOneMoves
  <1>8. ForfeitIsRuled' /\ ResolvedIsDone'
    BY <1>3, StakesUntouched DEF Ruled
  <1>. QED  BY <1>7, <1>8 DEF Ruled, DisputesInv, DisputesTypeOK, FiledIsClaimed, Exists

\* A call of the rail deals with the stake it names, whether it moves it or fails.
LEMMA MovesDeals ==
    ASSUME DisputesInv, NEW s \in Parties, NEW to \in {"released", "forfeited"}, Moves(s, to)
    PROVE  /\ stake' \in [Parties -> {"held", "released", "forfeited", "settled"}]
           /\ failed' \subseteq Parties
           /\ Dealt(s)'
           /\ \A p \in Parties : Dealt(p) => Dealt(p)'
           /\ \A p \in Parties : stake'[p] = "forfeited" =>
                  stake[p] = "forfeited" \/ (p = s /\ to = "forfeited")
  BY DEF DisputesInv, DisputesTypeOK, Moves, Dealt

\* What is recorded as resolved stays done when stakes are only dealt with.
LEMMA ResolvedStaysDone ==
    ASSUME DisputesInv, UNCHANGED dispute, \A s \in Parties : Dealt(s) => Dealt(s)'
    PROVE  ResolvedIsDone'
  <1>1. ASSUME NEW d \in Dispute, dispute[d].status = "resolved"
        PROVE  dispute[d].complainant \in Parties /\ Accused(d) \in Parties
    BY <1>1, OtherSide DEF DisputesInv, FiledIsClaimed, Exists, Accused
  <1>. QED  BY <1>1 DEF DisputesInv, ResolvedIsDone, Dealt, Accused

LEMMA ComplainantMovedInv ==
    ASSUME DisputesInv, NEW q \in Hearing, ComplainantMoved(q)
    PROVE  DisputesInv'
  <1>1. At(q, "complainant") /\ OnTo(q, "accused")
    BY DEF ComplainantMoved
  <1>2. PICK h \in ResolveRequest :
               /\ handling' = [handling EXCEPT ![q] = h]
               /\ h \in DisputeRequest
               /\ h.stage = "accused"
               /\ h.dispute = handling[q].dispute /\ h.dispute \in Dispute
               /\ h.terms = handling[q].terms /\ h.terms \in Ruling
    BY <1>1, NextStage
  <1>3. /\ Exists(h.dispute) /\ dispute[h.dispute].complainant \in Parties
        /\ h.terms.outcome # "escalation" /\ Published(h.dispute, h.terms)
    BY <1>1, <1>2, SeenTo
  <1>4. /\ stake' \in [Parties -> {"held", "released", "forfeited", "settled"}]
        /\ failed' \subseteq Parties
        /\ \A p \in Parties : Dealt(p) => Dealt(p)'
        /\ \A p \in Parties : stake'[p] = "forfeited" => stake[p] = "forfeited"
        /\ h.terms.complainant = "released" => Dealt(dispute[h.dispute].complainant)'
    <2>1. CASE h.terms.complainant = "released"
      <3>1. PICK s \in Parties : s = dispute[h.dispute].complainant
        BY <1>3
      <3>2. Moves(s, "released")
        BY <1>2, <2>1, <3>1 DEF ComplainantMoved
      <3>3. Dealt(s)' /\ dispute' = dispute
        BY <3>2, MovesDeals DEF ComplainantMoved
      <3>. QED  BY <3>1, <3>2, <3>3, MovesDeals DEF Dealt
    <2>2. CASE h.terms.complainant # "released"
      BY <1>2, <2>2 DEF ComplainantMoved, DisputesInv, DisputesTypeOK, Dealt
    <2>. QED  BY <2>1, <2>2
  <1>5. Monotone
    BY <1>4 DEF ComplainantMoved, Monotone, Exists
  <1>6. Handled(h)'
    BY <1>2, <1>3, <1>4
    DEF ComplainantMoved, Handled, ResolveRequest, AssignRequest, AppealRequest,
        Exists, Published, Accused, ComplainantDone, Dealt
  <1>7. /\ handling' \in [Hearing -> DisputeRequest]
        /\ \A p \in Hearing : Handled(handling[p])'
    BY <1>2, <1>5, <1>6, OnlyOneMoves
  <1>8. ForfeitIsRuled'
    BY <1>4 DEF ComplainantMoved, DisputesInv, ForfeitIsRuled
  <1>9. ResolvedIsDone'
    BY <1>4, ResolvedStaysDone DEF ComplainantMoved
  <1>. QED  BY <1>4, <1>7, <1>8, <1>9
            DEF ComplainantMoved, DisputesInv, DisputesTypeOK, FiledIsClaimed, Exists

LEMMA AccusedMovedInv ==
    ASSUME DisputesInv, NEW q \in Hearing, AccusedMoved(q)
    PROVE  DisputesInv'
  <1>1. At(q, "accused") /\ OnTo(q, "record")
    BY DEF AccusedMoved
  <1>2. PICK h \in ResolveRequest :
               /\ handling' = [handling EXCEPT ![q] = h]
               /\ h \in DisputeRequest
               /\ h.stage = "record"
               /\ h.dispute = handling[q].dispute /\ h.dispute \in Dispute
               /\ h.terms = handling[q].terms /\ h.terms \in Ruling
    BY <1>1, NextStage
  <1>3. /\ Exists(h.dispute) /\ dispute[h.dispute].complainant \in Parties
        /\ Accused(h.dispute) \in Parties
        /\ h.terms.outcome # "escalation" /\ Published(h.dispute, h.terms)
        /\ ComplainantDone(h.dispute, h.terms)
    BY <1>1, <1>2, SeenTo
  <1>4. /\ stake' \in [Parties -> {"held", "released", "forfeited", "settled"}]
        /\ failed' \subseteq Parties
        /\ \A p \in Parties : Dealt(p) => Dealt(p)'
        /\ \A p \in Parties : stake'[p] = "forfeited" =>
               stake[p] = "forfeited"
                   \/ (p = Accused(h.dispute) /\ h.terms.accused = "forfeited")
        /\ h.terms.accused # "kept" => Dealt(Accused(h.dispute))'
    <2>1. CASE h.terms.accused # "kept"
      <3>1. PICK s \in Parties : s = Accused(h.dispute)
        BY <1>3
      <3>2. Moves(s, h.terms.accused)
        BY <1>2, <2>1, <3>1 DEF AccusedMoved, AccusedRole
      <3>3. h.terms.accused \in {"released", "forfeited"}
        BY <1>2, <2>1, DisputesAssumption
      <3>4. Dealt(s)' /\ Accused(h.dispute)' = s
        BY <3>1, <3>2, <3>3, MovesDeals DEF AccusedMoved, Accused
      <3>. QED  BY <3>1, <3>2, <3>3, <3>4, MovesDeals DEF Dealt
    <2>2. CASE h.terms.accused = "kept"
      BY <1>2, <2>2 DEF AccusedMoved, DisputesInv, DisputesTypeOK, Dealt
    <2>. QED  BY <2>1, <2>2
  <1>5. Monotone
    BY <1>4 DEF AccusedMoved, Monotone, Exists
  <1>6. ComplainantDone(h.dispute, h.terms)' /\ AccusedDone(h.dispute, h.terms)'
    <2>1. ComplainantDone(h.dispute, h.terms)'
      BY <1>3, <1>4 DEF AccusedMoved, ComplainantDone, Dealt
    <2>2. AccusedDone(h.dispute, h.terms)'
      BY <1>4 DEF AccusedDone
    <2>. QED  BY <2>1, <2>2
  <1>7. Exists(h.dispute)'
    BY <1>3 DEF AccusedMoved, Exists
  <1>8. Handled(h)'
    BY <1>2, <1>6, <1>7 DEF Handled, ResolveRequest, AssignRequest, AppealRequest
  <1>9. /\ handling' \in [Hearing -> DisputeRequest]
        /\ \A p \in Hearing : Handled(handling[p])'
    BY <1>2, <1>5, <1>8, OnlyOneMoves
  <1>10. ForfeitIsRuled'
    BY <1>3, <1>4 DEF AccusedMoved, DisputesInv, ForfeitIsRuled, Published
  <1>11. ResolvedIsDone'
    BY <1>4, ResolvedStaysDone DEF AccusedMoved
  <1>. QED  BY <1>4, <1>9, <1>10, <1>11
            DEF AccusedMoved, DisputesInv, DisputesTypeOK, FiledIsClaimed, Exists

LEMMA RecordedInv ==
    ASSUME DisputesInv, NEW q \in Hearing, RulingRecorded(q)
    PROVE  DisputesInv'
  <1>. DEFINE d == handling[q].dispute
              t == handling[q].terms
  <1>1. /\ d \in Dispute /\ t \in Ruling /\ Exists(d)
        /\ dispute[d].complainant \in Parties /\ Accused(d) \in Parties
        /\ \/ t.outcome = "escalation"
           \/ ComplainantDone(d, t) /\ AccusedDone(d, t)
    BY SeenTo DEF RulingRecorded
  <1>2. /\ dispute' \in [Dispute -> DisputeRecord]
        /\ \A e \in Dispute : e # d => dispute'[e] = dispute[e]
        /\ dispute'[d].complainant = dispute[d].complainant
        /\ dispute'[d].terms = t
        /\ dispute'[d].status = IF t.outcome = "escalation" THEN "escalated" ELSE "resolved"
    BY <1>1 DEF RulingRecorded, DisputesInv, DisputesTypeOK, DisputeRecord
  <1>3. /\ \A e \in Dispute : dispute'[e].complainant = dispute[e].complainant
        /\ \A e \in Dispute : Accused(e)' = Accused(e)
    BY <1>2 DEF Accused
  <1>4. Monotone
    <2>1. UNCHANGED <<stake, rulings, failed>>
      BY DEF RulingRecorded
    <2>2. ASSUME NEW e \in Dispute, Exists(e)
          PROVE  Exists(e)' /\ dispute'[e].complainant = dispute[e].complainant
      <3>1. CASE e = d
        BY <1>1, <1>2, <3>1 DEF Exists
      <3>2. CASE e # d
        BY <1>2, <2>2, <3>2 DEF Exists
      <3>. QED  BY <3>1, <3>2
    <2>. QED  BY <2>1, <2>2 DEF Monotone, Dealt
  <1>5. FiledIsClaimed'
    BY <1>1, <1>2 DEF FiledIsClaimed, Exists, DisputesInv
  <1>6. /\ handling' \in [Hearing -> DisputeRequest]
        /\ \A p \in Hearing : Handled(handling[p])'
    BY <1>4, WaitingIsHandled, OnlyOneMoves DEF RulingRecorded, Leave
  <1>7. ForfeitIsRuled'
    BY DEF RulingRecorded, DisputesInv, ForfeitIsRuled
  <1>8. ResolvedIsDone'
    <2>1. ASSUME NEW e \in Dispute, dispute'[e].status = "resolved"
          PROVE  ComplainantDone(e, dispute[e].terms)' /\ AccusedDone(e, dispute[e].terms)'
      <3>1. CASE e = d
        <4>1. t.outcome # "escalation"
          BY <1>2, <2>1, <3>1
        <4>2. ComplainantDone(d, t) /\ AccusedDone(d, t)
          BY <1>1, <4>1
        <4>3. /\ dispute'[e].terms = t /\ stake' = stake /\ failed' = failed
              /\ dispute'[e].complainant = dispute[d].complainant
              /\ Accused(e)' = Accused(d)
          BY <1>1, <1>2, <1>3, <3>1 DEF RulingRecorded
        <4>4. ComplainantDone(e, dispute[e].terms)'
          BY <4>2, <4>3 DEF ComplainantDone, Dealt
        <4>5. AccusedDone(e, dispute[e].terms)'
          BY <4>2, <4>3 DEF AccusedDone, Dealt
        <4>. QED  BY <4>4, <4>5
      <3>2. CASE e # d
        BY <1>2, <1>3, <2>1, <3>2
        DEF RulingRecorded, DisputesInv, ResolvedIsDone, ComplainantDone, AccusedDone, Dealt
      <3>. QED  BY <3>1, <3>2
    <2>. QED  BY <2>1 DEF ResolvedIsDone, ComplainantDone, AccusedDone, Dealt
  <1>. QED  BY <1>2, <1>5, <1>6, <1>7, <1>8 DEF RulingRecorded, DisputesInv, DisputesTypeOK

LEMMA RideSettlesInv ==
    ASSUME DisputesInv, NEW s \in Parties, RideSettles(s)
    PROVE  DisputesInv'
  <1>1. /\ stake' \in [Parties -> {"held", "released", "forfeited", "settled"}]
        /\ \A p \in Parties : Dealt(p) => Dealt(p)'
        /\ \A p \in Parties : stake'[p] = "forfeited" => stake[p] = "forfeited"
    BY DEF RideSettles, DisputesInv, DisputesTypeOK, Dealt
  <1>2. Monotone
    BY <1>1 DEF RideSettles, Monotone, Exists
  <1>3. ASSUME NEW p \in Hearing
        PROVE  Handled(handling[p])'
    <2>1. PICK h \in DisputeRequest : h = handling[p]
      BY DEF DisputesInv, DisputesTypeOK
    <2>2. Handled(h)'
      BY <1>2, <2>1, StaysHandled DEF DisputesInv
    <2>. QED  BY <2>1, <2>2 DEF RideSettles
  <1>4. ForfeitIsRuled'
    BY <1>1 DEF RideSettles, DisputesInv, ForfeitIsRuled
  <1>5. ResolvedIsDone'
    BY <1>1, ResolvedStaysDone DEF RideSettles
  <1>. QED  BY <1>1, <1>3, <1>4, <1>5
            DEF RideSettles, DisputesInv, DisputesTypeOK, FiledIsClaimed, Exists

--------------------------------------------------------------------------------
(* Disputes: the theorem.                                                      *)

LEMMA DisputesStep == DisputesInv /\ [DisputesNext]_disputeVars => DisputesInv'
  <1>. SUFFICES ASSUME DisputesInv, [DisputesNext]_disputeVars  PROVE DisputesInv'
    OBVIOUS
  <1>1. ASSUME NEW q \in Hearing,
               \/ Filed(q) \/ Assigned(q) \/ AssignUnsigned(q)
               \/ Ruled(q) \/ ComplainantMoved(q) \/ AccusedMoved(q)
               \/ RulingRecorded(q) \/ Appealed(q)
        PROVE  DisputesInv'
    BY <1>1, FiledInv, AssignedInv, AssignUnsignedInv, RuledInv, ComplainantMovedInv,
       AccusedMovedInv, RecordedInv, AppealedInv
  <1>2. ASSUME NEW q \in Hearing, NEW s \in Parties, File(q, s)
        PROVE  DisputesInv'
    BY <1>2, FileInv
  <1>3. ASSUME NEW q \in Hearing, NEW d \in Dispute, Assign(q, d) \/ Resolve(q, d) \/ Appeal(q, d)
        PROVE  DisputesInv'
    BY <1>3, AssignInv, ResolveInv, AppealInv
  <1>4. ASSUME NEW s \in Parties, RideSettles(s)
        PROVE  DisputesInv'
    BY <1>4, RideSettlesInv
  <1>5. CASE UNCHANGED disputeVars
    <2>1. Monotone
      BY <1>5 DEF disputeVars, Monotone, Dealt, Exists
    <2>2. \A p \in Hearing : Handled(handling[p])'
      BY <1>5 DEF disputeVars, DisputesInv, Handled, Exists, Published, ComplainantDone,
                  AccusedDone, Accused, Dealt
    <2>. QED  BY <1>5, <2>2 DEF disputeVars, DisputesInv, DisputesTypeOK, FiledIsClaimed,
                  Exists, ForfeitIsRuled, ResolvedIsDone, Accused
  <1>. QED  BY <1>1, <1>2, <1>3, <1>4, <1>5 DEF DisputesNext

\* Stakes follow the rulings, for any number of disputes and of requests in flight:
\* no forfeit without a published ruling that says so, and nothing recorded as
\* resolved whose stakes were not seen to (server.js, section A of the dispute
\* endpoints).
THEOREM StakesFollow == DisputesSpec => []StakesFollowRulings
  <1>1. DisputesInv => StakesFollowRulings
    BY DEF DisputesInv, StakesFollowRulings
  <1>. QED  BY <1>1, DisputesInitInv, DisputesStep, PTL DEF DisputesSpec
--------------------------------------------------------------------------------
(* Guardians: the inductive invariant.                                         *)
(*                                                                             *)
(* A rejection and a slashing of one proposal exclude each other by counting:  *)
(* enough rejections leave too few guardians for the approvals.  That is true  *)
(* of the votes as they stood when it was decided; GuardiansInv keeps it true  *)
(* of the votes as they stand, which only gain as long as nobody votes twice.  *)

ProposalRecord ==
    [status: {"none", "active", "rejected", "executed"}, threshold: Nat,
     votes: [Guardian -> Vote \cup {"none"}]]

VoteRequest  == [kind: {"vote"}, guardian: Guardian, proposal: Proposal, vote: Vote]
SlashRequest == [kind: {"slash"}, proposal: Proposal]

BallotRequest ==
    {Unused} \cup [kind: {"claim", "propose"}] \cup VoteRequest \cup SlashRequest

GuardiansTypeOK ==
    /\ verified \in Nat
    /\ proposal \in [Proposal -> ProposalRecord]
    /\ polling \in [Ballot -> BallotRequest]

Made(p) == proposal[p].status # "none"

\* A proposal is made, voted and slashed on only once the report is verified.
MadeWhenVerified ==
    /\ \A p \in Proposal : Made(p) => ThresholdMet
    /\ \A b \in Ballot : polling[b].kind = "propose" => ThresholdMet
    /\ \A b \in Ballot : polling[b].kind \in {"vote", "slash"} => Made(polling[b].proposal)

\* Every vote counted, or about to be, has been published.
VotesArePublished ==
    /\ \A p \in Proposal, g \in Guardian :
        proposal[p].votes[g] # "none" =>
            [proposal |-> p, guardian |-> g, vote |-> proposal[p].votes[g]] \in cast
    /\ \A b \in Ballot : polling[b].kind = "vote" =>
        [proposal |-> polling[b].proposal, guardian |-> polling[b].guardian,
         vote |-> polling[b].vote] \in cast

\* The approvals of a proposal slashed on are still there, if nobody voted twice.
SlashedIsApproved ==
    \A s \in slashings :
        /\ s.proposal \in Proposal /\ Made(s.proposal)
        /\ VotedOnce(s.proposal) =>
               Cardinality(Approvals(proposal[s.proposal].votes))
                   >= proposal[s.proposal].threshold

\* So are the rejections of a proposal rejected.
RejectedIsOutvoted ==
    \A p \in Proposal : (proposal[p].status = "rejected" /\ VotedOnce(p)) =>
        Cardinality(Voters(proposal[p].votes, "reject")) + proposal[p].threshold
            > Cardinality(Guardian)

GuardiansInv ==
    /\ GuardiansTypeOK
    /\ MadeWhenVerified
    /\ VotesArePublished
    /\ SlashedIsApproved
    /\ RejectedIsOutvoted
    /\ SlashHasQuorum

--------------------------------------------------------------------------------
(* Guardians: counting votes.                                                  *)

\* Votes are counted in a finite number, no greater than that of the guardians.
LEMMA VotersCounted ==
    ASSUME NEW votes, NEW v
    PROVE  /\ IsFiniteSet(Voters(votes, v))
           /\ Cardinality(Voters(votes, v)) \in Nat
           /\ Cardinality(Guardian) \in Nat
  <1>1. Voters(votes, v) \in SUBSET Guardian
    BY DEF Voters
  <1>2. IsFiniteSet(Voters(votes, v)) /\ IsFiniteSet(Guardian)
    BY <1>1, FS_Subset, GuardiansAssumption
  <1>. QED  BY <1>2, FS_CardinalityType

\* Who votes one way does not vote the other: approvals and rejections together are
\* no more than the guardians.
LEMMA VotesAreShared ==
    ASSUME NEW votes
    PROVE  Cardinality(Voters(votes, "approve")) + Cardinality(Voters(votes, "reject"))
               <= Cardinality(Guardian)
  <1>1. Voters(votes, "approve") \cap Voters(votes, "reject") = {}
    BY DEF Voters
  <1>2. Voters(votes, "approve") \subseteq Guardian /\ Voters(votes, "reject") \subseteq Guardian
    BY DEF Voters
  <1>. QED  BY <1>1, <1>2, FS_MajoritiesIntersect, VotersCounted, GuardiansAssumption

\* A vote that replaces no other one loses no voter of either kind.
LEMMA VotersGain ==
    ASSUME NEW votes \in [Guardian -> Vote \cup {"none"}], NEW g \in Guardian, NEW w \in Vote,
           votes[g] \in {"none", w}, NEW v \in Vote
    PROVE  Cardinality(Voters(votes, v)) <= Cardinality(Voters([votes EXCEPT ![g] = w], v))
  <1>1. Voters(votes, v) \in SUBSET Voters([votes EXCEPT ![g] = w], v)
    BY DEF Voters, Vote
  <1>. QED  BY <1>1, VotersCounted, FS_Subset

--------------------------------------------------------------------------------
(* Guardians: the steps.                                                       *)

LEMMA GuardiansInitInv == GuardiansInit => GuardiansInv
  <1>1. GuardiansInit => GuardiansTypeOK
    BY DEF GuardiansInit, GuardiansTypeOK, ProposalRecord, BallotRequest
  <1>2. GuardiansInit => MadeWhenVerified /\ VotesArePublished
    BY DEF GuardiansInit, MadeWhenVerified, VotesArePublished, Made, Unused
  <1>3. GuardiansInit => SlashedIsApproved /\ RejectedIsOutvoted /\ SlashHasQuorum
    BY DEF GuardiansInit, SlashedIsApproved, RejectedIsOutvoted, SlashHasQuorum
  <1>. QED  BY <1>1, <1>2, <1>3 DEF GuardiansInv

\* The kinds of request exclude each other.
LEMMA KindsOfBallot ==
    ASSUME NEW r \in BallotRequest
    PROVE  /\ r.kind = "vote"  => r \in VoteRequest
           /\ r.kind = "slash" => r \in SlashRequest
  BY DEF BallotRequest, VoteRequest, SlashRequest, Unused

\* Votes published are not taken back: who voted twice has done so for good.
LEMMA VotedOnceBefore ==
    ASSUME cast \subseteq cast', NEW p, VotedOnce(p)'
    PROVE  VotedOnce(p)
  BY DEF VotedOnce

\* The steps that change neither proposals nor what was published about them.
LEMMA ProposalsUntouched ==
    ASSUME GuardiansInv, UNCHANGED <<proposal, slashings>>, cast \subseteq cast',
           verified' \in Nat, ThresholdMet => ThresholdMet',
           polling' \in [Ballot -> BallotRequest],
           NEW b \in Ballot,
           \A c \in Ballot : c # b => polling'[c] = polling[c],
           polling'[b].kind = "propose" => ThresholdMet,
           polling'[b].kind \in {"vote", "slash"} => Made(polling'[b].proposal),
           polling'[b].kind = "vote" =>
               [proposal |-> polling'[b].proposal, guardian |-> polling'[b].guardian,
                vote |-> polling'[b].vote] \in cast'
    PROVE  GuardiansInv'
  <1>1. GuardiansTypeOK'
    BY DEF GuardiansInv, GuardiansTypeOK
  <1>2. MadeWhenVerified'
    BY DEF GuardiansInv, MadeWhenVerified, Made
  <1>3. VotesArePublished'
    BY DEF GuardiansInv, VotesArePublished
  <1>4. SlashedIsApproved'
    BY VotedOnceBefore DEF GuardiansInv, SlashedIsApproved, Made, Approvals, Voters
  <1>5. RejectedIsOutvoted'
    BY VotedOnceBefore DEF GuardiansInv, RejectedIsOutvoted, Voters
  <1>6. SlashHasQuorum'
    BY DEF GuardiansInv, SlashHasQuorum, ThresholdMet, MadeWhenVerified, SlashedIsApproved
  <1>. QED  BY <1>1, <1>2, <1>3, <1>4, <1>5, <1>6 DEF GuardiansInv

LEMMA WatchdogClaimInv ==
    ASSUME GuardiansInv, NEW b \in Ballot, WatchdogClaim(b)
    PROVE  GuardiansInv'
  <1>1. /\ polling' \in [Ballot -> BallotRequest]
        /\ polling'[b].kind = "claim"
        /\ \A c \in Ballot : c # b => polling'[c] = polling[c]
    BY DEF WatchdogClaim, TakeUp, GuardiansInv, GuardiansTypeOK, BallotRequest
  <1>2. /\ UNCHANGED <<proposal, slashings>> /\ cast \subseteq cast'
        /\ verified' \in Nat /\ (ThresholdMet => ThresholdMet')
    BY DEF WatchdogClaim, GuardiansInv, GuardiansTypeOK, ThresholdMet
  <1>. QED  BY <1>1, <1>2, ProposalsUntouched

LEMMA WatchdogClaimedInv ==
    ASSUME GuardiansInv, NEW b \in Ballot, WatchdogClaimed(b)
    PROVE  GuardiansInv'
  <1>1. /\ polling' \in [Ballot -> BallotRequest]
        /\ polling'[b].kind = "none"
        /\ \A c \in Ballot : c # b => polling'[c] = polling[c]
    BY DEF WatchdogClaimed, Answer, GuardiansInv, GuardiansTypeOK, BallotRequest, Unused
  <1>2. /\ UNCHANGED <<proposal, slashings>> /\ cast \subseteq cast'
        /\ verified' \in Nat /\ (ThresholdMet => ThresholdMet')
    BY GuardiansAssumption DEF WatchdogClaimed, GuardiansInv, GuardiansTypeOK, ThresholdMet
  <1>. QED  BY <1>1, <1>2, ProposalsUntouched

LEMMA SlashingProposalInv ==
    ASSUME GuardiansInv, NEW b \in Ballot, SlashingProposal(b)
    PROVE  GuardiansInv'
  <1>1. /\ polling' \in [Ballot -> BallotRequest]
        /\ polling'[b].kind = "propose" /\ ThresholdMet
        /\ \A c \in Ballot : c # b => polling'[c] = polling[c]
    BY DEF SlashingProposal, TakeUp, GuardiansInv, GuardiansTypeOK, BallotRequest
  <1>2. /\ UNCHANGED <<proposal, slashings>> /\ cast \subseteq cast'
        /\ verified' \in Nat /\ (ThresholdMet => ThresholdMet')
    BY DEF SlashingProposal, GuardiansInv, GuardiansTypeOK, ThresholdMet
  <1>. QED  BY <1>1, <1>2, ProposalsUntouched

LEMMA CastVoteInv ==
    ASSUME GuardiansInv, NEW b \in Ballot, NEW g \in Guardian, NEW p \in Proposal,
           CastVote(b, g, p)
    PROVE  GuardiansInv'
  <1>1. PICK v \in Vote :
            /\ TakeUp(b, [kind |-> "vote", guardian |-> g, proposal |-> p, vote |-> v])
            /\ cast' = cast \cup {[proposal |-> p, guardian |-> g, vote |-> v]}
    BY DEF CastVote
  <1>. DEFINE r == [kind |-> "vote", guardian |-> g, proposal |-> p, vote |-> v]
  <1>2. r \in BallotRequest
    BY DEF BallotRequest, VoteRequest
  <1>3. /\ polling' \in [Ballot -> BallotRequest]
        /\ polling'[b] = r
        /\ \A c \in Ballot : c # b => polling'[c] = polling[c]
    BY <1>1, <1>2 DEF TakeUp, GuardiansInv, GuardiansTypeOK
  <1>4. /\ UNCHANGED <<proposal, slashings>> /\ cast \subseteq cast'
        /\ verified' \in Nat /\ (ThresholdMet => ThresholdMet') /\ Made(p)
    BY <1>1 DEF CastVote, GuardiansInv, GuardiansTypeOK, ThresholdMet, Made
  <1>5. [proposal |-> p, guardian |-> g, vote |-> v] \in cast'
    BY <1>1
  <1>. QED  BY <1>3, <1>4, <1>5, ProposalsUntouched

\* A proposal comes to be: nothing was counted, slashed or rejected on it before.
LEMMA SlashingProposedInv ==
    ASSUME GuardiansInv, NEW b \in Ballot, SlashingProposed(b)
    PROVE  GuardiansInv'
  <1>1. PICK p \in Proposal, k \in Threshold :
            /\ proposal[p].status = "none"
            /\ proposal' = [proposal EXCEPT ![p].status = "active", ![p].threshold = k]
    BY DEF SlashingProposed
  <1>2. /\ proposal' \in [Proposal -> ProposalRecord]
        /\ \A o \in Proposal : o # p => proposal'[o] = proposal[o]
        /\ proposal'[p].status = "active" /\ proposal'[p].votes = proposal[p].votes
    <2>1. proposal[p] \in ProposalRecord /\ k \in Nat
      BY GuardiansAssumption DEF GuardiansInv, GuardiansTypeOK
    <2>. DEFINE x == [proposal[p] EXCEPT !.status = "active", !.threshold = k]
    <2>2. x \in ProposalRecord /\ x.status = "active" /\ x.votes = proposal[p].votes
      BY <2>1 DEF ProposalRecord
    <2>3. proposal' = [proposal EXCEPT ![p] = x]
      BY <1>1, <2>1 DEF GuardiansInv, GuardiansTypeOK, ProposalRecord
    <2>. HIDE DEF x
    <2>. QED  BY <2>2, <2>3 DEF GuardiansInv, GuardiansTypeOK
  <1>3. /\ polling' \in [Ballot -> BallotRequest]
        /\ polling'[b] = Unused
        /\ \A c \in Ballot : c # b => polling'[c] = polling[c]
    BY DEF SlashingProposed, Answer, GuardiansInv, GuardiansTypeOK, BallotRequest
  <1>4. ThresholdMet /\ ThresholdMet' /\ UNCHANGED <<verified, slashings, cast>>
    BY DEF SlashingProposed, GuardiansInv, MadeWhenVerified, ThresholdMet
  <1>5. GuardiansTypeOK'
    BY <1>2, <1>3, <1>4 DEF GuardiansInv, GuardiansTypeOK
  <1>6. \A o \in Proposal : Made(o) => Made(o)' /\ o # p
    BY <1>1, <1>2 DEF Made
  <1>7. MadeWhenVerified'
    <2>1. \A c \in Ballot : polling'[c].kind \in {"vote", "slash"} =>
              /\ polling'[c] = polling[c]
              /\ polling[c].proposal \in Proposal /\ Made(polling[c].proposal)
      BY <1>3, KindsOfBallot
      DEF Unused, GuardiansInv, GuardiansTypeOK, MadeWhenVerified, VoteRequest, SlashRequest
    <2>. QED  BY <1>4, <1>6, <2>1 DEF MadeWhenVerified
  <1>8. VotesArePublished'
    BY <1>2, <1>3, <1>4 DEF Unused, GuardiansInv, VotesArePublished
  <1>9. SlashedIsApproved'
    BY <1>2, <1>4, <1>6
    DEF GuardiansInv, SlashedIsApproved, VotedOnce, Approvals, Voters
  <1>10. RejectedIsOutvoted'
    BY <1>2, <1>4 DEF GuardiansInv, RejectedIsOutvoted, VotedOnce, Voters
  <1>11. SlashHasQuorum'
    BY <1>2, <1>4, <1>6 DEF GuardiansInv, SlashHasQuorum, SlashedIsApproved
  <1>. QED  BY <1>5, <1>7, <1>8, <1>9, <1>10, <1>11 DEF GuardiansInv

\* A vote is counted, whatever became of its proposal meanwhile.
LEMMA VoteCountedInv ==
    ASSUME GuardiansInv, NEW b \in Ballot, VoteCounted(b)
    PROVE  GuardiansInv'
  <1>1. polling[b] \in VoteRequest
    BY KindsOfBallot DEF VoteCounted, GuardiansInv, GuardiansTypeOK
  <1>2. PICK p \in Proposal, g \in Guardian, w \in Vote :
            p = polling[b].proposal /\ g = polling[b].guardian /\ w = polling[b].vote
    BY <1>1 DEF VoteRequest
  <1>3. Made(p) /\ [proposal |-> p, guardian |-> g, vote |-> w] \in cast
    BY <1>1, <1>2 DEF GuardiansInv, MadeWhenVerified, VotesArePublished, VoteRequest
  <1>4. PICK votes \in [Guardian -> Vote \cup {"none"}], k \in Nat,
             new \in [Guardian -> Vote \cup {"none"}] :
            /\ votes = proposal[p].votes /\ k = proposal[p].threshold
            /\ new = [votes EXCEPT ![g] = w]
    BY DEF GuardiansInv, GuardiansTypeOK, ProposalRecord
  <1>5. VotedOnce(p) => votes[g] \in {"none", w}
    <2>. SUFFICES ASSUME VotedOnce(p), votes[g] # "none"  PROVE votes[g] = w
      OBVIOUS
    <2>1. [proposal |-> p, guardian |-> g, vote |-> votes[g]] \in cast
      BY <1>4 DEF GuardiansInv, VotesArePublished
    <2>2. [proposal |-> p, guardian |-> g, vote |-> votes[g]]
              = [proposal |-> p, guardian |-> g, vote |-> w]
      BY <1>3, <2>1 DEF VotedOnce
    <2>. QED  BY <2>2
  <1>6. VotedOnce(p) => \A v \in Vote :
            Cardinality(Voters(votes, v)) <= Cardinality(Voters(new, v))
    BY <1>4, <1>5, VotersGain
  <1>7. \A v \in Vote : Cardinality(Voters(votes, v)) \in Nat /\ Cardinality(Voters(new, v)) \in Nat
    BY VotersCounted
  <1>8. UNCHANGED <<verified, cast>>
    BY DEF VoteCounted
  \* What both outcomes have in common: the vote is stored, and a proposal that
  \* gets rejected is so by a sufficient number.
  <1>9. /\ proposal' \in [Proposal -> ProposalRecord]
        /\ \A o \in Proposal : o # p => proposal'[o] = proposal[o]
        /\ proposal'[p].votes = new /\ proposal'[p].threshold = k
        /\ \/ proposal'[p].status = proposal[p].status
           \/ /\ proposal'[p].status = "rejected"
              /\ Cardinality(Voters(new, "reject")) + k > Cardinality(Guardian)
    <2>1. proposal[p] \in ProposalRecord
      BY DEF GuardiansInv, GuardiansTypeOK
    <2>2. CASE proposal' = [proposal EXCEPT ![p].votes = new]
      <3>. DEFINE x == [proposal[p] EXCEPT !.votes = new]
      <3>1. /\ x \in ProposalRecord /\ x.votes = new /\ x.threshold = k
            /\ x.status = proposal[p].status
        BY <1>4, <2>1 DEF ProposalRecord
      <3>2. proposal' = [proposal EXCEPT ![p] = x]
        BY <2>1, <2>2 DEF GuardiansInv, GuardiansTypeOK, ProposalRecord
      <3>. HIDE DEF x
      <3>. QED  BY <3>1, <3>2 DEF GuardiansInv, GuardiansTypeOK
    <2>3. ASSUME NEW st \in {proposal[p].status, "rejected"},
                 proposal' = [proposal EXCEPT ![p].votes = new, ![p].status = st],
                 st = proposal[p].status
                   \/ Cardinality(Voters(new, "reject")) + k > Cardinality(Guardian)
          PROVE  <1>9!1 /\ <1>9!2 /\ <1>9!3 /\ <1>9!4
      <3>. DEFINE x == [proposal[p] EXCEPT !.votes = new, !.status = st]
      <3>1. /\ x \in ProposalRecord /\ x.votes = new /\ x.threshold = k /\ x.status = st
        BY <1>4, <2>1 DEF ProposalRecord
      <3>2. proposal' = [proposal EXCEPT ![p] = x]
        BY <2>1, <2>3 DEF GuardiansInv, GuardiansTypeOK, ProposalRecord
      <3>. HIDE DEF x
      <3>3. proposal \in [Proposal -> ProposalRecord]
        BY DEF GuardiansInv, GuardiansTypeOK
      <3>4. proposal' \in [Proposal -> ProposalRecord] /\ proposal'[p] = x
        BY <3>1, <3>2, <3>3
      <3>5. \A o \in Proposal : o # p => proposal'[o] = proposal[o]
        BY <3>2, <3>3
      <3>6. proposal'[p].votes = new /\ proposal'[p].threshold = k /\ proposal'[p].status = st
        BY <3>1, <3>4
      <3>7. \/ proposal'[p].status = proposal[p].status
            \/ /\ proposal'[p].status = "rejected"
               /\ Cardinality(Voters(new, "reject")) + k > Cardinality(Guardian)
        BY <2>3, <3>6
      <3>. QED  BY <3>4, <3>5, <3>6, <3>7
    <2>4. \/ proposal' = [proposal EXCEPT ![p].votes = new]
          \/ proposal' = [proposal EXCEPT ![p].votes = new,
                 ![p].status = IF Cardinality(Voters(new, "reject")) + k > Cardinality(Guardian)
                                 THEN "rejected" ELSE @]
      BY <1>2, <1>4 DEF VoteCounted
    <2>. QED  BY <2>2, <2>3, <2>4
  <1>10. Made(p)' /\ \A o \in Proposal : Made(o) => Made(o)'
    BY <1>3, <1>9 DEF Made
  <1>11. /\ polling' \in [Ballot -> BallotRequest]
         /\ polling'[b] = Unused \/ polling'[b] = [kind |-> "slash", proposal |-> p]
         /\ \A c \in Ballot : c # b => polling'[c] = polling[c]
    BY <1>2 DEF VoteCounted, Answer, GuardiansInv, GuardiansTypeOK, BallotRequest, SlashRequest
  <1>12. GuardiansTypeOK'
    BY <1>8, <1>9, <1>11 DEF GuardiansInv, GuardiansTypeOK
  <1>13. MadeWhenVerified'
    <2>1. ASSUME NEW c \in Ballot, polling'[c].kind \in {"vote", "slash"}
          PROVE  \E o \in Proposal : polling'[c].proposal = o /\ Made(o)
      <3>1. CASE c = b
        BY <1>3, <1>11, <2>1, <3>1 DEF Unused
      <3>2. CASE c # b
        <4>1. polling'[c] = polling[c]
          BY <1>11, <3>2
        <4>2. polling[c] \in VoteRequest \cup SlashRequest
          BY <2>1, <4>1, KindsOfBallot DEF GuardiansInv, GuardiansTypeOK
        <4>. QED
          BY <2>1, <4>1, <4>2 DEF GuardiansInv, MadeWhenVerified, VoteRequest, SlashRequest
      <3>. QED  BY <3>1, <3>2
    <2>2. \A o \in Proposal : Made(o)' => ThresholdMet
      BY <1>3, <1>9 DEF Made, GuardiansInv, MadeWhenVerified
    <2>3. ThresholdMet => ThresholdMet'
      BY <1>8 DEF ThresholdMet
    <2>4. \A c \in Ballot : polling'[c].kind = "propose" => ThresholdMet
      BY <1>11 DEF Unused, GuardiansInv, MadeWhenVerified
    <2>5. \A c \in Ballot : polling'[c].kind \in {"vote", "slash"} =>
              Made(polling[c].proposal)'
      BY <1>10, <2>1 DEF Made
    <2>. QED  BY <2>2, <2>3, <2>4, <2>5 DEF MadeWhenVerified
  <1>14. VotesArePublished'
    BY <1>3, <1>4, <1>8, <1>9, <1>11 DEF Unused, GuardiansInv, VotesArePublished
  <1>15. RejectedIsOutvoted'
    <2>1. ASSUME proposal'[p].status = "rejected", VotedOnce(p)'
          PROVE  Cardinality(Voters(new, "reject")) + k > Cardinality(Guardian)
      <3>1. CASE proposal[p].status = "rejected"
        <4>1. VotedOnce(p)
          BY <1>8, <2>1 DEF VotedOnce
        <4>2. Cardinality(Voters(votes, "reject")) + k > Cardinality(Guardian)
          BY <1>4, <3>1, <4>1 DEF GuardiansInv, RejectedIsOutvoted
        <4>. QED  BY <1>6, <1>7, <4>1, <4>2, VotersCounted DEF Vote
      <3>2. CASE proposal[p].status # "rejected"
        BY <1>9, <2>1, <3>2
      <3>. QED  BY <3>1, <3>2
    <2>2. ASSUME NEW o \in Proposal, proposal'[o].status = "rejected", VotedOnce(o)'
          PROVE  Cardinality(Voters(proposal'[o].votes, "reject")) + proposal'[o].threshold
                     > Cardinality(Guardian)
      <3>1. CASE o = p
        BY <1>9, <2>1, <2>2, <3>1
      <3>2. CASE o # p
        <4>1. proposal'[o] = proposal[o] /\ VotedOnce(o)
          BY <1>8, <1>9, <2>2, <3>2 DEF VotedOnce
        <4>. QED  BY <2>2, <4>1 DEF GuardiansInv, RejectedIsOutvoted
      <3>. QED  BY <3>1, <3>2
    <2>. QED  BY <2>2 DEF RejectedIsOutvoted, Voters
  <1>16. ASSUME NEW s \in slashings
         PROVE  /\ s.proposal \in Proposal /\ Made(s.proposal)'
                /\ VotedOnce(s.proposal)' =>
                       Cardinality(Approvals(proposal'[s.proposal].votes))
                           >= proposal'[s.proposal].threshold
    <2>1. s.proposal \in Proposal /\ Made(s.proposal)'
      BY <1>10 DEF GuardiansInv, SlashedIsApproved
    <2>2. ASSUME VotedOnce(s.proposal)'
          PROVE  Cardinality(Approvals(proposal'[s.proposal].votes))
                     >= proposal'[s.proposal].threshold
      <3>1. /\ VotedOnce(s.proposal)
            /\ Cardinality(Approvals(proposal[s.proposal].votes))
                   >= proposal[s.proposal].threshold
        BY <1>8, <2>2 DEF VotedOnce, GuardiansInv, SlashedIsApproved
      <3>2. CASE s.proposal = p
        BY <1>4, <1>6, <1>7, <1>9, <3>1, <3>2 DEF Approvals, Vote
      <3>3. CASE s.proposal # p
        BY <1>9, <2>1, <3>1, <3>3
      <3>. QED  BY <3>2, <3>3
    <2>. QED  BY <2>1, <2>2
  <1>17. slashings' = slashings
           \/ /\ slashings' = slashings \cup {[proposal |-> p, approvals |-> Approvals(new)]}
              /\ Cardinality(Approvals(new)) >= k
    BY <1>2, <1>4 DEF VoteCounted
  <1>18. SlashedIsApproved'
    <2>1. ASSUME NEW s \in slashings'
          PROVE  /\ s.proposal \in Proposal /\ Made(s.proposal)'
                 /\ VotedOnce(s.proposal)' =>
                        Cardinality(Approvals(proposal'[s.proposal].votes))
                            >= proposal'[s.proposal].threshold
      <3>1. CASE s \in slashings
        BY <1>16, <3>1
      <3>2. CASE s \notin slashings
        <4>1. s.proposal = p /\ Cardinality(Approvals(new)) >= k
          BY <1>17, <2>1, <3>2
        <4>. QED  BY <1>9, <1>10, <4>1
      <3>. QED  BY <3>1, <3>2
    <2>. QED  BY <2>1 DEF SlashedIsApproved, Approvals, Voters
  <1>19. SlashHasQuorum'
    <2>1. verified' >= Watchdogs
      BY <1>3, <1>8 DEF GuardiansInv, MadeWhenVerified, ThresholdMet
    <2>2. \A s \in slashings : proposal'[s.proposal].threshold = proposal[s.proposal].threshold
      BY <1>4, <1>9 DEF GuardiansInv, SlashedIsApproved
    <2>3. \A h \in Approvals(new) : [proposal |-> p, guardian |-> h, vote |-> "approve"] \in cast
      BY <1>3, <1>4 DEF Approvals, Voters, GuardiansInv, VotesArePublished
    <2>. QED  BY <1>8, <1>9, <1>17, <2>1, <2>2, <2>3 DEF GuardiansInv, SlashHasQuorum
  <1>. QED  BY <1>12, <1>13, <1>14, <1>15, <1>18, <1>19 DEF GuardiansInv

\* The slashing is published, whatever became of its proposal meanwhile.
LEMMA SlashedInv ==
    ASSUME GuardiansInv, NEW b \in Ballot, Slashed(b)
    PROVE  GuardiansInv'
  <1>1. PICK p \in Proposal : p = polling[b].proposal
    BY KindsOfBallot DEF Slashed, GuardiansInv, GuardiansTypeOK, SlashRequest
  <1>2. Made(p)
    BY <1>1 DEF Slashed, GuardiansInv, MadeWhenVerified
  <1>3. /\ proposal' \in [Proposal -> ProposalRecord]
        /\ \A o \in Proposal : /\ proposal'[o].votes = proposal[o].votes
                               /\ proposal'[o].threshold = proposal[o].threshold
                               /\ proposal'[o].status \in {proposal[o].status, "executed"}
        /\ \A o \in Proposal : o # p => proposal'[o] = proposal[o]
    BY <1>1 DEF Slashed, GuardiansInv, GuardiansTypeOK, ProposalRecord
  <1>4. /\ polling' \in [Ballot -> BallotRequest]
        /\ polling'[b] = Unused
        /\ \A c \in Ballot : c # b => polling'[c] = polling[c]
    BY DEF Slashed, Answer, GuardiansInv, GuardiansTypeOK, BallotRequest
  <1>5. UNCHANGED <<verified, slashings, cast>>
    BY DEF Slashed
  <1>6. \A o \in Proposal : (Made(o) => Made(o)') /\ (Made(o)' => ThresholdMet)
    BY <1>2, <1>3 DEF Made, GuardiansInv, MadeWhenVerified
  <1>7. GuardiansTypeOK'
    BY <1>3, <1>4, <1>5 DEF GuardiansInv, GuardiansTypeOK
  <1>8. MadeWhenVerified'
    <2>1. ASSUME NEW c \in Ballot, polling'[c].kind \in {"vote", "slash"}
          PROVE  \E o \in Proposal : polling'[c].proposal = o /\ Made(o)
      <3>1. polling'[c] = polling[c]
        BY <1>4, <2>1 DEF Unused
      <3>2. polling[c] \in VoteRequest \cup SlashRequest
        BY <2>1, <3>1, KindsOfBallot DEF GuardiansInv, GuardiansTypeOK
      <3>. QED
        BY <2>1, <3>1, <3>2 DEF GuardiansInv, MadeWhenVerified, VoteRequest, SlashRequest
    <2>2. \A c \in Ballot : polling'[c].kind \in {"vote", "slash"} =>
              Made(polling[c].proposal)'
      BY <1>6, <2>1 DEF Made
    <2>. QED  BY <1>4, <1>5, <1>6, <2>2 DEF Unused, GuardiansInv, MadeWhenVerified, ThresholdMet
  <1>9. VotesArePublished'
    BY <1>3, <1>4, <1>5 DEF Unused, GuardiansInv, VotesArePublished
  <1>10. SlashedIsApproved'
    <2>1. ASSUME NEW s \in slashings
          PROVE  /\ s.proposal \in Proposal /\ Made(s.proposal)'
                 /\ VotedOnce(s.proposal)' =>
                        Cardinality(Approvals(proposal'[s.proposal].votes))
                            >= proposal'[s.proposal].threshold
      BY <1>3, <1>5, <1>6 DEF GuardiansInv, SlashedIsApproved, VotedOnce
    <2>. QED  BY <1>5, <2>1 DEF SlashedIsApproved, Approvals, Voters
  <1>11. RejectedIsOutvoted'
    <2>1. ASSUME NEW o \in Proposal, proposal'[o].status = "rejected", VotedOnce(o)'
          PROVE  Cardinality(Voters(proposal'[o].votes, "reject")) + proposal'[o].threshold
                     > Cardinality(Guardian)
      <3>1. proposal[o].status = "rejected" /\ VotedOnce(o)
        BY <1>3, <1>5, <2>1 DEF VotedOnce
      <3>. QED  BY <1>3, <3>1 DEF GuardiansInv, RejectedIsOutvoted
    <2>. QED  BY <2>1 DEF RejectedIsOutvoted, Voters
  <1>12. SlashHasQuorum'
    BY <1>3, <1>5 DEF GuardiansInv, SlashHasQuorum, SlashedIsApproved
  <1>. QED  BY <1>7, <1>8, <1>9, <1>10, <1>11, <1>12 DEF GuardiansInv

LEMMA BondInv ==
    ASSUME GuardiansInv, OperatorBond \/ UNCHANGED guardianVars
    PROVE  GuardiansInv'
  <1>1. UNCHANGED <<verified, proposal, slashings, cast, polling>>
    BY DEF OperatorBond, guardianVars
  <1>. QED
    BY <1>1 DEF GuardiansInv, GuardiansTypeOK, MadeWhenVerified, Made, ThresholdMet,
      VotesArePublished, SlashedIsApproved, RejectedIsOutvoted, SlashHasQuorum, VotedOnce,
      Approvals, Voters

--------------------------------------------------------------------------------
(* Guardians: the theorem.                                                     *)

LEMMA GuardiansStep == GuardiansInv /\ [GuardiansNext]_guardianVars => GuardiansInv'
  <1>. SUFFICES ASSUME GuardiansInv, [GuardiansNext]_guardianVars  PROVE GuardiansInv'
    OBVIOUS
  <1>1. ASSUME NEW b \in Ballot,
               \/ WatchdogClaim(b) \/ WatchdogClaimed(b)
               \/ SlashingProposal(b) \/ SlashingProposed(b) \/ VoteCounted(b) \/ Slashed(b)
        PROVE  GuardiansInv'
    BY <1>1, WatchdogClaimInv, WatchdogClaimedInv, SlashingProposalInv, SlashingProposedInv,
       VoteCountedInv, SlashedInv
  <1>2. ASSUME NEW b \in Ballot, NEW g \in Guardian, NEW p \in Proposal, CastVote(b, g, p)
        PROVE  GuardiansInv'
    BY <1>2, CastVoteInv
  <1>. QED  BY <1>1, <1>2, BondInv DEF GuardiansNext

\* A proposal rejected has not been slashed on: its rejections leave too few
\* guardians for the approvals that a slashing takes.
LEMMA VotesDecideNow == GuardiansInv => VotesDecide
  <1>. SUFFICES ASSUME GuardiansInv, NEW p \in Proposal, proposal[p].status = "rejected",
                       VotedOnce(p), NEW s \in slashings, s.proposal = p
                PROVE  FALSE
    BY DEF VotesDecide, GuardiansInv, RejectedIsSpared
  <1>. DEFINE votes == proposal[p].votes
              k     == proposal[p].threshold
  <1>1. Cardinality(Voters(votes, "approve")) >= k
    BY DEF GuardiansInv, SlashedIsApproved, Approvals
  <1>2. Cardinality(Voters(votes, "reject")) + k > Cardinality(Guardian)
    BY DEF GuardiansInv, RejectedIsOutvoted
  <1>3. /\ Cardinality(Voters(votes, "approve")) \in Nat
        /\ Cardinality(Voters(votes, "reject")) \in Nat
        /\ Cardinality(Guardian) \in Nat /\ k \in Nat
    BY VotersCounted DEF GuardiansInv, GuardiansTypeOK, ProposalRecord
  <1>4. Cardinality(Voters(votes, "approve")) + Cardinality(Voters(votes, "reject"))
            <= Cardinality(Guardian)
    BY VotesAreShared
  <1>. HIDE DEF votes, k
  <1>. QED  BY <1>1, <1>2, <1>3, <1>4

\* The guardians' votes decide what becomes of the bond, for any number of guardians,
\* proposals and requests in flight: every slashing has its quorum of published
\* approvals and a verified report, and where nobody voted twice a rejected proposal
\* is never slashed on (server.js, section C of the dispute endpoints).
THEOREM VotesDecideIt == GuardiansSpec => []VotesDecide
  BY GuardiansInitInv, GuardiansStep, VotesDecideNow, PTL DEF GuardiansSpec

--------------------------------------------------------------------------------
(* Offers: the inductive invariant.                                            *)

Claim == Need \cup {"licence"}

JobRecord ==
    [status: {"none", "requested", "taken", "gone"}, needs: SUBSET Need,
     preferred: SUBSET Driver, scheduled: BOOLEAN, clock: Nat, expanded: BOOLEAN,
     reach: Nat, dispatched: BOOLEAN, reminded: BOOLEAN, driver: SUBSET Driver]

OffersTypeOK ==
    /\ profile \in [Driver -> [claims: SUBSET Claim, distance: Nat]]
    /\ job \in JobRecord
    /\ asked \in JobRecord
    /\ presence \in [Driver -> [claims: SUBSET Claim, live: BOOLEAN]]
    /\ push \in [Driver -> BOOLEAN]
    /\ app  \in [Driver -> {"off", "away", "on"}]
    /\ list \in [Driver -> BOOLEAN]
    /\ rung \in [Driver -> BOOLEAN]
    /\ poll \in [Driver -> {"none", "with", "without"}]

\* What the server knows of a driver, the driver declared.
Declared == \A d \in Driver : presence[d].claims \subseteq Claims(d)

\* What the server still has of the request is what the rider asked, or nothing.
Remembers ==
    /\ job.needs \in {asked.needs, {}}
    /\ job.preferred \in {asked.preferred, {}}
    /\ job.scheduled => job.preferred = {}
    /\ job.status \in {"none", "requested"} => job.driver = {}

\* To whom j may have been told.
Fit(d, j) ==
    /\ j.needs \subseteq Claims(d)
    /\ InFavouriteWindow(j) => d \in j.preferred

OffersInv ==
    /\ OffersTypeOK
    /\ Declared
    /\ Remembers
    /\ \A d \in Driver :
         /\ job.status = "none" => ~Told(d)
         /\ Requested /\ Kept /\ Told(d) => Fit(d, job)
         /\ Requested /\ rung[d] => ~BeforeLead(job)

LEMMA EligibleFits ==
    ASSUME NEW j \in JobRecord, NEW claims, NEW all,
           claims \subseteq all, Eligible(claims, j)
    PROVE  j.needs \subseteq all
<1>1. j.needs \subseteq Need
  BY DEF JobRecord
<1> QED
  BY <1>1 DEF Eligible, GenderEligible, AccessEligible, OptionEligible, Need

\* Whoever a broadcast or a push of j reaches.
LEMMA HeardFits ==
    ASSUME OffersTypeOK, Declared, NEW j \in JobRecord, NEW d \in Driver,
           Hears(d, j) \/ Pushed(d, j)
    PROVE  Fit(d, j)
<1>1. Known(d) \subseteq Claims(d)
  BY DEF Known, Declared
<1>2. j.needs \subseteq Claims(d)
  <2>1. CASE Hears(d, j)
    <3>1. Eligible(Known(d), j)
      BY <2>1 DEF Hears
    <3> QED
      BY <3>1, <1>1, EligibleFits
  <2>2. CASE Pushed(d, j)
    <3>1. Eligible(Claims(d) \cap {"woman"}, j)
      BY <2>2 DEF Pushed
    <3>2. Claims(d) \cap {"woman"} \subseteq Claims(d)
      OBVIOUS
    <3> QED
      BY <3>1, <3>2, EligibleFits
  <2> QED
    BY <2>1, <2>2
<1>3. FavouriteEligible(d, j)
  BY DEF Hears, Pushed
<1> QED
  BY <1>2, <1>3 DEF Fit, FavouriteEligible

LEMMA ReplayedFits ==
    ASSUME NEW j \in JobRecord, NEW d \in Driver, Replayed(d, j)
    PROVE  Fit(d, j) /\ ~BeforeLead(j) /\ j.status = "requested"
<1>1. Eligible(Claims(d), j) /\ FavouriteEligible(d, j)
  BY DEF Replayed
<1>2. j.needs \subseteq Claims(d)
  BY <1>1, EligibleFits
<1> QED
  BY <1>1, <1>2 DEF Fit, FavouriteEligible, Replayed

LEMMA ListedFits ==
    ASSUME OffersTypeOK, NEW d \in Driver, Listed(d)
    PROVE  Fit(d, job) /\ Requested
<1>1. Eligible(Claims(d), job) /\ FavouriteEligible(d, job) /\ Requested
  BY DEF Listed
<1>2. job.needs \subseteq Claims(d)
  BY <1>1, EligibleFits DEF OffersTypeOK
<1> QED
  BY <1>1, <1>2 DEF Fit, FavouriteEligible

\* A job that is dispatched leaves everybody it was told to fit for it.
LEMMA DispatchKeeps ==
    ASSUME OffersTypeOK, Declared, NEW j \in JobRecord, Dispatched(j),
           poll' = poll, profile' = profile, NEW d \in Driver,
           Told(d) => Fit(d, j)
    PROVE  Told(d)' => Fit(d, j)
<1>1. list'[d] \/ rung'[d] => list[d] \/ rung[d] \/ Hears(d, j) \/ Pushed(d, j)
  BY DEF Dispatched
<1>2. Hears(d, j) \/ Pushed(d, j) => Fit(d, j)
  BY HeardFits
<1> QED
  BY <1>1, <1>2 DEF Told

LEMMA DispatchTypes ==
    ASSUME OffersTypeOK, NEW j, Dispatched(j)
    PROVE  list' \in [Driver -> BOOLEAN] /\ rung' \in [Driver -> BOOLEAN]
<1>1. \A e \in Driver : Hears(e, j) \in BOOLEAN /\ Pushed(e, j) \in BOOLEAN
  BY DEF Hears, Pushed, OffersTypeOK
<1> QED
  BY <1>1 DEF Dispatched, OffersTypeOK

--------------------------------------------------------------------------------
(* What the drivers do. *)

\* A step that leaves the request alone, and tells nobody of it who is not fit.
LEMMA DriversKeep ==
    ASSUME OffersInv, UNCHANGED server,
           presence' \in [Driver -> [claims: SUBSET Claim, live: BOOLEAN]],
           push' \in [Driver -> BOOLEAN],
           app'  \in [Driver -> {"off", "away", "on"}],
           list' \in [Driver -> BOOLEAN],
           rung' \in [Driver -> BOOLEAN],
           poll' \in [Driver -> {"none", "with", "without"}],
           \A e \in Driver :
             /\ presence'[e].claims \subseteq Claims(e)
             /\ Told(e)' => Told(e) \/ (Requested /\ Fit(e, job))
             /\ rung'[e] => rung[e] \/ ~BeforeLead(job)
    PROVE  OffersInv'
<1>1. OffersTypeOK'
  BY DEF OffersInv, OffersTypeOK, server
<1>2. Declared'
  BY DEF Declared, Claims, server
<1>3. Remembers'
  BY DEF OffersInv, Remembers, server
<1>4. ASSUME NEW e \in Driver
      PROVE  /\ job'.status = "none" => ~Told(e)'
             /\ Requested' /\ Kept' /\ Told(e)' => Fit(e, job)'
             /\ Requested' /\ rung'[e] => ~BeforeLead(job)'
  <2>1. Requested' = Requested /\ Kept' = Kept /\ job' = job
        /\ Fit(e, job)' = Fit(e, job) /\ BeforeLead(job)' = BeforeLead(job)
    BY DEF server, Requested, Kept, Fit, Claims, InFavouriteWindow, BeforeLead
  <2>2. /\ job.status = "none" => ~Told(e)
        /\ Requested /\ Kept /\ Told(e) => Fit(e, job)
        /\ Requested /\ rung[e] => ~BeforeLead(job)
    BY DEF OffersInv
  <2> QED
    BY <2>1, <2>2 DEF Requested
<1> QED
  BY <1>1, <1>2, <1>3, <1>4 DEF OffersInv

LEMMA RegisterKeeps ==
    ASSUME OffersInv, NEW d \in Driver, RegisterDriver(d), UNCHANGED <<server, poll>>,
           push' \in [Driver -> BOOLEAN],
           app'  \in [Driver -> {"off", "away", "on"}]
    PROVE  OffersInv'
<1> USE DEF OffersInv
<1>0. PICK replayed \in BOOLEAN : replayed = Replayed(d, job)
  BY DEF Replayed
<1>1. /\ list' = [list EXCEPT ![d] = @ \/ replayed]
      /\ rung' = [rung EXCEPT ![d] = @ \/ replayed]
  BY <1>0 DEF RegisterDriver
<1>2. replayed => Fit(d, job) /\ ~BeforeLead(job) /\ Requested
  BY <1>0, ReplayedFits DEF OffersTypeOK, Requested
<1>3. /\ list' \in [Driver -> BOOLEAN]
      /\ rung' \in [Driver -> BOOLEAN]
      /\ poll' \in [Driver -> {"none", "with", "without"}]
  BY <1>1 DEF OffersTypeOK
<1>4. /\ presence' \in [Driver -> [claims: SUBSET Claim, live: BOOLEAN]]
      /\ \A e \in Driver : presence'[e].claims \subseteq Claims(e)
  <2> DEFINE known == [claims |-> Claims(d), live |-> TRUE]
  <2>1. known \in [claims: SUBSET Claim, live: BOOLEAN] /\ known.claims \subseteq Claims(d)
    BY DEF OffersTypeOK, Claims
  <2>2. presence' = presence \/ presence' = [presence EXCEPT ![d] = known]
    BY DEF RegisterDriver, UpdateDriverPresence
  <2> HIDE DEF known
  <2>3. CASE presence' = presence
    BY <2>3 DEF OffersTypeOK, Declared
  <2>4. CASE presence' = [presence EXCEPT ![d] = known]
    BY <2>1, <2>4 DEF OffersTypeOK, Declared
  <2> QED
    BY <2>2, <2>3, <2>4
<1>5. \A e \in Driver : /\ Told(e)' => Told(e) \/ (Requested /\ Fit(e, job))
                        /\ rung'[e] => rung[e] \/ ~BeforeLead(job)
  BY <1>1, <1>2 DEF Told, OffersTypeOK
<1> QED
  BY <1>3, <1>4, <1>5, DriversKeep

\* Everything an app, its socket or the push service does.
DriverStep(d) ==
    \/ AcceptLost(d)
    \/ GoOnline(d) \/ GoOffline(d) \/ Connect(d) \/ Revive(d) \/ Disconnect(d)
    \/ DriverLocation(d) \/ PresenceLapses(d) \/ SubscriptionEnds(d)
    \/ Poll(d) \/ PollEnds(d) \/ PollFails(d)

LEMMA DriverStepKeeps ==
    ASSUME OffersInv, NEW d \in Driver, DriverStep(d)
    PROVE  OffersInv'
<1> USE DEF OffersInv
<1>1. CASE Connect(d)
  BY <1>1, RegisterKeeps DEF Connect, OffersTypeOK
<1>2. CASE Revive(d)
  BY <1>2, RegisterKeeps DEF Revive, OffersTypeOK
<1>3. CASE Poll(d)
  <2>1. PICK listed \in BOOLEAN : listed = Listed(d)
    BY DEF Listed
  <2>2. poll' = [poll EXCEPT ![d] = IF listed THEN "with" ELSE "without"]
    BY <1>3, <2>1 DEF Poll
  <2>3. listed => Fit(d, job) /\ Requested
    BY <2>1, ListedFits
  <2>4. UNCHANGED <<server, presence, push, app, list, rung>>
    BY <1>3 DEF Poll
  <2>5. \A e \in Driver : Told(e)' => Told(e) \/ (Requested /\ Fit(e, job))
    BY <2>2, <2>3, <2>4 DEF Told, OffersTypeOK
  <2>6. poll' \in [Driver -> {"none", "with", "without"}]
    BY <2>2 DEF OffersTypeOK
  <2> QED
    BY <2>4, <2>5, <2>6, DriversKeep DEF OffersTypeOK, Declared
<1>4. CASE AcceptLost(d) \/ GoOnline(d) \/ GoOffline(d) \/ Disconnect(d)
           \/ SubscriptionEnds(d) \/ PollEnds(d) \/ PollFails(d)
  <2>1. UNCHANGED <<server, presence, rung>>
    BY <1>4 DEF AcceptLost, GoOnline, GoOffline, Disconnect, SubscriptionEnds, PollEnds, PollFails
  <2>2. /\ push' \in [Driver -> BOOLEAN]
        /\ app'  \in [Driver -> {"off", "away", "on"}]
        /\ list' \in [Driver -> BOOLEAN]
        /\ poll' \in [Driver -> {"none", "with", "without"}]
    BY <1>4 DEF AcceptLost, GoOnline, GoOffline, Disconnect, SubscriptionEnds, PollEnds,
                PollFails, OffersTypeOK
  <2>3. \A e \in Driver : Told(e)' => Told(e)
    BY <1>4 DEF AcceptLost, GoOnline, GoOffline, Disconnect, SubscriptionEnds, PollEnds,
                PollFails, OffersTypeOK, Told
  <2> QED
    BY <2>1, <2>2, <2>3, DriversKeep DEF OffersTypeOK, Declared
<1>5. CASE DriverLocation(d) \/ PresenceLapses(d)
  <2>1. UNCHANGED <<server, push, app, list, rung, poll>>
    BY <1>5 DEF DriverLocation, PresenceLapses
  <2>2. PICK known \in [claims: SUBSET Claim, live: BOOLEAN] :
            presence' = [presence EXCEPT ![d] = known] /\ known.claims \subseteq Claims(d)
    <3>1. presence[d] \in [claims: SUBSET Claim, live: BOOLEAN]
          /\ presence[d].claims \subseteq Claims(d)
      BY DEF OffersTypeOK, Declared
    <3>2. CASE DriverLocation(d)
      <4> DEFINE known == [claims |-> presence[d].claims \ {"access"}, live |-> TRUE]
      <4>1. presence' = [presence EXCEPT ![d] = known]
        BY <3>2 DEF DriverLocation, UpdateDriverPresence
      <4>2. known \in [claims: SUBSET Claim, live: BOOLEAN] /\ known.claims \subseteq Claims(d)
        BY <3>1
      <4> HIDE DEF known
      <4> QED
        BY <4>1, <4>2
    <3>3. CASE PresenceLapses(d)
      <4> DEFINE known == IF presence[d].live THEN [presence[d] EXCEPT !.live = FALSE]
                                              ELSE NoPresence
      <4>1. presence' = [presence EXCEPT ![d] = known]
        BY <3>3 DEF PresenceLapses
      <4>2. known \in [claims: SUBSET Claim, live: BOOLEAN] /\ known.claims \subseteq Claims(d)
        BY <3>1 DEF NoPresence
      <4> HIDE DEF known
      <4> QED
        BY <4>1, <4>2
    <3> QED
      BY <1>5, <3>2, <3>3
  <2>3. /\ presence' \in [Driver -> [claims: SUBSET Claim, live: BOOLEAN]]
        /\ \A e \in Driver : presence'[e].claims \subseteq Claims(e)
    BY <2>2 DEF OffersTypeOK, Declared
  <2>4. \A e \in Driver : Told(e)' => Told(e)
    BY <2>1 DEF Told
  <2> QED
    BY <2>1, <2>3, <2>4, DriversKeep DEF OffersTypeOK
<1> QED
  BY <1>1, <1>2, <1>3, <1>4, <1>5 DEF DriverStep

--------------------------------------------------------------------------------
(* What the rider, the sweep and the server do.                                *)

\* A step of the request that tells nobody of it who is not fit.
LEMMA JobKeeps ==
    ASSUME OffersInv, UNCHANGED <<profile, presence, poll>>,
           job' \in JobRecord, asked' \in JobRecord, Remembers',
           push' \in [Driver -> BOOLEAN],
           app'  \in [Driver -> {"off", "away", "on"}],
           list' \in [Driver -> BOOLEAN],
           rung' \in [Driver -> BOOLEAN],
           \A e \in Driver :
             /\ job'.status = "none" => ~Told(e)'
             /\ job'.status = "requested" /\ Kept' /\ Told(e)' => Fit(e, job')
             /\ job'.status = "requested" /\ rung'[e] => ~BeforeLead(job')
    PROVE  OffersInv'
<1>1. OffersTypeOK' /\ Declared'
  BY DEF OffersInv, OffersTypeOK, Declared, Claims
<1>2. \A e \in Driver : Fit(e, job)' <=> Fit(e, job')
  BY DEF Fit, Claims, InFavouriteWindow
<1>3. BeforeLead(job)' <=> BeforeLead(job')
  BY DEF BeforeLead
<1> QED
  BY <1>1, <1>2, <1>3 DEF OffersInv, Requested

LEMMA RequestKeeps ==
    ASSUME OffersInv, Request
    PROVE  OffersInv'
<1> USE DEF OffersInv
<1>1. job \in JobRecord /\ job.status = "none" /\ job.clock \in Nat /\ job.driver = {}
  BY DEF Request, OffersTypeOK, JobRecord, Remembers
<1>2. PICK a \in Ask :
        LET j == [job EXCEPT !.status = "requested", !.needs = a.needs,
                             !.preferred = a.preferred, !.scheduled = a.scheduled,
                             !.dispatched = ~(a.scheduled /\ 0 < LeadOpens)]
        IN /\ job' = j
           /\ asked' = j
           /\ IF j.dispatched THEN Dispatched(j) ELSE UNCHANGED <<list, rung>>
  BY DEF Request
<1>3. /\ a.needs \in SUBSET Need /\ a.preferred \in SUBSET Driver /\ a.scheduled \in BOOLEAN
      /\ a.scheduled => a.preferred = {}
  BY DispatchAssumption
<1>4. PICK now \in BOOLEAN : now = ~(a.scheduled /\ 0 < LeadOpens)
  OBVIOUS
<1> DEFINE j == [job EXCEPT !.status = "requested", !.needs = a.needs,
                            !.preferred = a.preferred, !.scheduled = a.scheduled,
                            !.dispatched = now]
<1>5. /\ j \in JobRecord /\ j.status = "requested" /\ j.needs = a.needs
      /\ j.preferred = a.preferred /\ j.scheduled = a.scheduled /\ j.dispatched = now
      /\ j.driver = {} /\ j.clock = job.clock
  BY <1>1, <1>3, <1>4 DEF JobRecord
<1>6. job' = j /\ asked' = j /\ (IF now THEN Dispatched(j) ELSE UNCHANGED <<list, rung>>)
  BY <1>2, <1>4, <1>5
<1>7. UNCHANGED <<profile, presence, push, app, poll>>
  BY DEF Request
<1>8. \A e \in Driver : ~Told(e)
  BY <1>1
<1> HIDE DEF j
<1>9. Remembers'
  BY <1>3, <1>5, <1>6 DEF Remembers
<1>10. CASE now
  <2>1. ASSUME NEW e \in Driver
        PROVE  Told(e)' => Fit(e, j)
    BY <1>5, <1>6, <1>7, <1>8, <1>10, DispatchKeeps
  <2>2. /\ list' \in [Driver -> BOOLEAN]
        /\ rung' \in [Driver -> BOOLEAN]
    BY <1>6, <1>10, DispatchTypes
  <2>3. ~BeforeLead(j)
    <3>1. LeadOpens \in Nat
      BY DispatchAssumption
    <3>2. ~(a.scheduled /\ 0 < LeadOpens)
      BY <1>4, <1>10
    <3> QED
      BY <1>1, <1>5, <3>1, <3>2 DEF BeforeLead
  <2> QED
    BY <1>5, <1>6, <1>7, <1>9, <2>1, <2>2, <2>3, JobKeeps DEF OffersTypeOK
<1>11. CASE ~now
  <2>1. UNCHANGED <<list, rung>>
    BY <1>6, <1>11
  <2>2. \A e \in Driver : ~Told(e)' /\ ~rung'[e]
    BY <1>7, <1>8, <2>1 DEF Told
  <2> QED
    BY <1>5, <1>6, <1>7, <1>9, <2>1, <2>2, JobKeeps DEF OffersTypeOK
<1> QED
  BY <1>10, <1>11

\* What a sweep leaves as it was, and in view of which a driver is fit.
SameOffer(j) ==
    /\ j \in JobRecord
    /\ j.needs = job.needs /\ j.preferred = job.preferred /\ j.scheduled = job.scheduled
    /\ j.clock = job.clock /\ j.driver = job.driver

LEMMA WiderKeeps ==
    ASSUME NEW j \in JobRecord
    PROVE  /\ Wider(j) \in JobRecord /\ Wider(j).status = j.status
           /\ Wider(j).needs = j.needs /\ Wider(j).preferred = j.preferred
           /\ Wider(j).scheduled = j.scheduled /\ Wider(j).clock = j.clock
           /\ Wider(j).driver = j.driver
<1>1. PICK reach \in Nat : Wider(j) = [j EXCEPT !.reach = reach]
  <2>1. j.reach \in Nat
    BY DEF JobRecord
  <2> QED
    BY <2>1 DEF Wider
<1> QED
  BY <1>1 DEF JobRecord

LEMMA RingKeeps ==
    ASSUME OffersInv, Requested, NEW j, SameOffer(j), SameOffer(job'),
           job'.status \in {"requested", "gone"},
           UNCHANGED <<profile, asked, presence, push, app, poll>>,
           \/ Dispatched(j) /\ ~BeforeLead(j)
           \/ UNCHANGED <<list, rung>>
    PROVE  OffersInv'
<1> USE DEF OffersInv
<1>1. Remembers'
  BY DEF Remembers, SameOffer, Requested
<1>2. /\ \A e \in Driver : Fit(e, j) = Fit(e, job) /\ Fit(e, job') = Fit(e, job)
      /\ BeforeLead(j) = BeforeLead(job) /\ BeforeLead(job') = BeforeLead(job)
  BY DEF SameOffer, Fit, InFavouriteWindow, BeforeLead
<1>3. Kept' = Kept
  BY DEF Kept, SameOffer
<1>4. CASE UNCHANGED <<list, rung>>
  <2>1. \A e \in Driver : Told(e)' = Told(e) /\ rung'[e] = rung[e]
    BY <1>4 DEF Told
  <2> QED
    BY <1>1, <1>2, <1>3, <1>4, <2>1, JobKeeps DEF OffersTypeOK, SameOffer
<1>5. CASE Dispatched(j) /\ ~BeforeLead(j)
  <2>1. /\ list' \in [Driver -> BOOLEAN]
        /\ rung' \in [Driver -> BOOLEAN]
    BY <1>5, DispatchTypes
  <2>2. ASSUME NEW e \in Driver, Kept, Told(e)'
        PROVE  Fit(e, job')
    <3>1. Told(e) => Fit(e, j)
      BY <1>2, <2>2
    <3>2. Told(e)' => Fit(e, j)
      BY <1>5, <3>1, DispatchKeeps DEF SameOffer
    <3> QED
      BY <1>2, <2>2, <3>2
  <2>3. ~BeforeLead(job')
    BY <1>2, <1>5
  <2> QED
    BY <1>1, <1>3, <2>1, <2>2, <2>3, JobKeeps DEF OffersTypeOK, SameOffer
<1> QED
  BY <1>4, <1>5

LEMMA SweepKeeps ==
    ASSUME OffersInv, Sweep
    PROVE  OffersInv'
<1> USE DEF OffersInv
<1>1. UNCHANGED <<profile, asked, presence, push, app, poll>>
  BY DEF Sweep
<1>2. job \in JobRecord
  BY DEF OffersTypeOK
<1>3. CASE SweepRequested
  <2> DEFINE opened == IF OpensToAll(job) THEN [job EXCEPT !.expanded = TRUE] ELSE job
  <2>1. Requested
    BY <1>3 DEF SweepRequested
  <2>2. SameOffer(opened) /\ opened.status = "requested" /\ opened.reach = job.reach
    <3>1. CASE OpensToAll(job)
      BY <1>2, <2>1, <3>1 DEF SameOffer, JobRecord, Requested
    <3>2. CASE ~OpensToAll(job)
      BY <1>2, <2>1, <3>2 DEF SameOffer, JobRecord, Requested
    <3> QED
      BY <3>1, <3>2
  <2>3. SameOffer(Wider(opened)) /\ Wider(opened).status = "requested"
    BY <2>2, WiderKeeps DEF SameOffer
  <2>4. OpensToAll(job) => ~BeforeLead(opened)
    BY <2>2 DEF OpensToAll, Remembers, BeforeLead, SameOffer
  <2>5. SameOffer([opened EXCEPT !.status = "gone"])
    BY <2>2 DEF SameOffer, JobRecord
  <2>6. SameOffer([job EXCEPT !.dispatched = TRUE])
        /\ [job EXCEPT !.dispatched = TRUE].status = "requested"
    BY <1>2, <2>1 DEF SameOffer, JobRecord, Requested
  <2>7. \/ /\ job' = [opened EXCEPT !.status = "gone"] \/ job' = opened
           /\ IF OpensToAll(job) THEN Dispatched(opened) ELSE UNCHANGED <<list, rung>>
        \/ /\ ~BeforeLead(job)
           /\ job' = [job EXCEPT !.dispatched = TRUE] /\ Dispatched([job EXCEPT !.dispatched = TRUE])
        \/ ~job.scheduled /\ job' = Wider(opened) /\ Dispatched(Wider(opened))
    BY <1>3 DEF SweepRequested
  <2> HIDE DEF opened
  <2>8. CASE /\ job' = [opened EXCEPT !.status = "gone"] \/ job' = opened
             /\ IF OpensToAll(job) THEN Dispatched(opened) ELSE UNCHANGED <<list, rung>>
    <3>1. SameOffer(job') /\ job'.status \in {"requested", "gone"}
      BY <2>2, <2>5, <2>8 DEF SameOffer, JobRecord
    <3> QED
      BY <1>1, <2>1, <2>2, <2>4, <2>8, <3>1, RingKeeps
  <2>9. CASE /\ ~BeforeLead(job)
             /\ job' = [job EXCEPT !.dispatched = TRUE]
             /\ Dispatched([job EXCEPT !.dispatched = TRUE])
    <3>1. ~BeforeLead(job')
      BY <2>6, <2>9 DEF BeforeLead, SameOffer
    <3> QED
      BY <1>1, <2>1, <2>6, <2>9, <3>1, RingKeeps
  <2>10. CASE ~job.scheduled /\ job' = Wider(opened) /\ Dispatched(Wider(opened))
    <3>1. ~BeforeLead(Wider(opened))
      BY <2>3, <2>10 DEF BeforeLead, SameOffer
    <3> QED
      BY <1>1, <2>1, <2>3, <2>10, <3>1, RingKeeps
  <2> QED
    BY <2>7, <2>8, <2>9, <2>10
<1>4. CASE SweepTaken \/ SweepNothing
  <2>1. UNCHANGED <<list, rung>> /\ job' \in JobRecord /\ job'.status = job.status
        /\ job'.needs = job.needs /\ job'.preferred = job.preferred
        /\ job'.scheduled = job.scheduled /\ job'.driver = job.driver
        /\ job'.status # "requested"
    <3>1. PICK reminded \in BOOLEAN : job' \in {job, [job EXCEPT !.reminded = reminded]}
      <4>1. job.reminded \in BOOLEAN /\ job.scheduled \in BOOLEAN
        BY <1>2 DEF JobRecord
      <4> QED
        BY <1>4, <4>1 DEF SweepTaken, SweepNothing
    <3> QED
      BY <1>2, <1>4, <3>1 DEF SweepTaken, SweepNothing, JobRecord
  <2>2. Remembers'
    BY <1>1, <2>1 DEF Remembers
  <2>3. \A e \in Driver : Told(e)' = Told(e)
    BY <1>1, <2>1 DEF Told
  <2> QED
    BY <1>1, <2>1, <2>2, <2>3, JobKeeps DEF OffersTypeOK
<1> QED
  BY <1>3, <1>4 DEF Sweep

\* The rider leaves, a driver takes the job, a tick passes or the server restarts.
LEMMA ServerKeeps ==
    ASSUME OffersInv, Leaves \/ Tick \/ Restart \/ \E d \in Driver : Accept(d)
    PROVE  OffersInv'
<1> USE DEF OffersInv
<1>1. job \in JobRecord
  BY DEF OffersTypeOK
<1>2. CASE Leaves
  <2>1. job' \in JobRecord /\ Remembers' /\ job'.status = "gone"
    BY <1>1, <1>2 DEF Leaves, JobRecord, Remembers
  <2> QED
    BY <1>2, <2>1, JobKeeps DEF Leaves, drivers, OffersTypeOK
<1>3. CASE Tick
  <2>1. Last \in Nat
    BY DispatchAssumption DEF Last
  <2>2. /\ job' \in JobRecord /\ job'.clock >= job.clock
        /\ job'.status = job.status /\ job.status # "none"
        /\ job'.needs = job.needs /\ job'.preferred = job.preferred
        /\ job'.scheduled = job.scheduled /\ job'.driver = job.driver
    BY <1>1, <1>3, <2>1 DEF Tick, JobRecord
  <2>3. UNCHANGED <<profile, asked, drivers>>
    BY <1>3 DEF Tick
  <2>4. Remembers' /\ Kept' = Kept
    BY <2>2, <2>3 DEF Remembers, Kept
  <2>5. ASSUME NEW e \in Driver
        PROVE  Told(e)' = Told(e) /\ (Fit(e, job) => Fit(e, job'))
               /\ (~BeforeLead(job) => ~BeforeLead(job'))
    <3>1. job.clock \in Nat /\ job'.clock \in Nat
      BY <1>1, <2>2 DEF JobRecord
    <3>2. InFavouriteWindow(job') => InFavouriteWindow(job)
      BY <2>2, <3>1, DispatchAssumption DEF InFavouriteWindow
    <3>3. BeforeLead(job') => BeforeLead(job)
      BY <2>2, <3>1, DispatchAssumption DEF BeforeLead
    <3> QED
      BY <2>2, <2>3, <3>2, <3>3 DEF Told, drivers, Fit
  <2> QED
    BY <2>2, <2>3, <2>4, <2>5, JobKeeps DEF OffersTypeOK, drivers, Requested
<1>4. CASE Restart
  <2>1. /\ job' \in JobRecord /\ job'.status = job.status
        /\ job'.needs \in {job.needs, {}} /\ job'.preferred \in {job.preferred, {}}
        /\ job'.scheduled = job.scheduled /\ job'.driver = job.driver
        /\ job'.clock = job.clock
        /\ job.status # "gone" => job'.needs = {} /\ job'.preferred = {}
    <3>1. CASE job.status = "gone"
      <4>1. job' = job
        BY <1>4, <3>1 DEF Restart
      <4> QED
        BY <1>1, <3>1, <4>1
    <3>2. CASE job.status # "gone"
      <4>1. job' = [job EXCEPT !.needs = {}, !.preferred = {}, !.expanded = FALSE,
                               !.reach = 0, !.dispatched = FALSE, !.reminded = FALSE]
        BY <1>4, <3>2 DEF Restart
      <4>2. job' \in JobRecord
        BY <1>1, <4>1 DEF JobRecord
      <4>3. /\ job'.status = job.status /\ job'.needs = {} /\ job'.preferred = {}
            /\ job'.scheduled = job.scheduled /\ job'.driver = job.driver
            /\ job'.clock = job.clock
        BY <1>1, <4>1 DEF JobRecord
      <4> QED
        BY <4>2, <4>3
    <3> QED
      BY <3>1, <3>2
  <2>2. UNCHANGED <<profile, asked, list, rung, poll>>
    BY <1>4 DEF Restart
  <2>3. Remembers'
    BY <2>1, <2>2 DEF Remembers
  <2>4. ASSUME NEW e \in Driver
        PROVE  Told(e)' = Told(e) /\ (job'.status # "gone" => Fit(e, job'))
               /\ BeforeLead(job') = BeforeLead(job)
    BY <2>1, <2>2 DEF Told, Fit, InFavouriteWindow, BeforeLead
  <2>5. presence' \in [Driver -> [claims: SUBSET Claim, live: BOOLEAN]]
        /\ push' \in [Driver -> BOOLEAN] /\ app' \in [Driver -> {"off", "away", "on"}]
        /\ \A e \in Driver : presence'[e].claims = {}
    BY <1>4 DEF Restart, NoPresence, OffersTypeOK
  <2>6. OffersTypeOK' /\ Declared'
    BY <2>1, <2>2, <2>5 DEF OffersTypeOK, Declared
  <2>7. \A e \in Driver : (Fit(e, job)' <=> Fit(e, job')) /\ (BeforeLead(job)' <=> BeforeLead(job'))
    BY <2>2 DEF Fit, Claims, InFavouriteWindow, BeforeLead
  <2> QED
    BY <2>1, <2>2, <2>3, <2>4, <2>6, <2>7 DEF Requested
<1>5. CASE \E d \in Driver : Accept(d)
  <2>1. PICK d \in Driver : Accept(d)
    BY <1>5
  <2>2. /\ job' \in JobRecord /\ job'.status = "taken" /\ job'.needs = job.needs
        /\ job'.preferred = job.preferred /\ job'.scheduled = job.scheduled
    BY <1>1, <2>1 DEF Accept, JobRecord
  <2>3. Remembers' /\ list' \in [Driver -> BOOLEAN]
    BY <2>1, <2>2 DEF Remembers, Accept, OffersTypeOK
  <2> QED
    BY <2>1, <2>2, <2>3, JobKeeps DEF Accept, OffersTypeOK
<1> QED
  BY <1>2, <1>3, <1>4, <1>5

--------------------------------------------------------------------------------
(* What holds of every behaviour.                                              *)

LEMMA InitOffers == Init => OffersInv
<1> SUFFICES ASSUME Init
             PROVE  OffersInv
  OBVIOUS
<1> USE DEF Init
<1>1. profile \in [Driver -> [claims: SUBSET Claim, distance: Nat]]
  BY DispatchAssumption DEF Claim
<1>2. OffersTypeOK
  BY <1>1 DEF OffersTypeOK, JobRecord, NoPresence
<1>3. Declared /\ Remembers
  BY DEF Declared, NoPresence, Remembers
<1>4. \A d \in Driver : ~Told(d) /\ ~rung[d]
  BY DEF Told
<1> QED
  BY <1>2, <1>3, <1>4 DEF OffersInv

LEMMA NextOffers == OffersInv /\ [Next]_vars => OffersInv'
<1> SUFFICES ASSUME OffersInv, [Next]_vars
             PROVE  OffersInv'
  OBVIOUS
<1>1. CASE Request
  BY <1>1, RequestKeeps
<1>2. CASE Sweep
  BY <1>2, SweepKeeps
<1>3. CASE Leaves \/ Tick \/ Restart \/ \E d \in Driver : Accept(d)
  BY <1>3, ServerKeeps
<1>4. CASE \E d \in App : DriverStep(d)
  BY <1>4, DriverStepKeeps, DispatchAssumption
<1>5. CASE UNCHANGED vars
  <2>1. UNCHANGED server /\ UNCHANGED drivers
    BY <1>5 DEF vars
  <2>2. \A e \in Driver : Told(e)' = Told(e)
    BY <2>1 DEF drivers, Told
  <2> QED
    BY <2>1, <2>2, DriversKeep DEF drivers, OffersInv, OffersTypeOK, Declared
<1> QED
  BY <1>1, <1>2, <1>3, <1>4, <1>5 DEF Next, DriverStep

LEMMA OffersImply == OffersInv => OfferedAsAsked
<1> SUFFICES ASSUME OffersInv, Requested, Kept, NEW d \in Driver
             PROVE  /\ Told(d) => Fit(d, job)
                    /\ rung[d] => ~BeforeLead(job)
                    /\ MayAccept(d) =>
                         /\ asked.needs \cup Required \subseteq Claims(d)
                         /\ asked.preferred # {} /\ job.clock < HeadStart
                              => d \in asked.preferred
  BY DEF OfferedAsAsked, Fit
<1>1. Known(d) \subseteq Claims(d)
  BY DEF Known, OffersInv, Declared
<1>2. MayAccept(d) => job.needs \subseteq Claims(d) /\ Required \subseteq Claims(d)
  BY <1>1 DEF MayAccept, Claimed, Admitted
<1>3. job.driver = {}
  BY DEF OffersInv, Remembers, Requested
<1> QED
  BY <1>2, <1>3 DEF OffersInv, Kept, MayAccept, FavouriteEligible, InFavouriteWindow

\* However stale what the server knows, a job reaches only drivers who have what the
\* rider needs, favourites alone during the head start, and nobody before the lead
\* window, and the gates of accept let nobody else take it (OfferedAsAsked), for any
\* drivers, requests and timings.
THEOREM Offers == Spec => []OfferedAsAsked
<1>1. Spec => []OffersInv
  BY InitOffers, NextOffers, PTL DEF Spec
<1> QED
  BY <1>1, OffersImply, PTL
================================================================================
