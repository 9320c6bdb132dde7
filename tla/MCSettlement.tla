----------------------------- MODULE MCSettlement -----------------------------
(***************************************************************************)
(* Instances of Settlement for TLC.                                        *)
(***************************************************************************)
EXTENDS Settlement

CONSTANTS q1, q2, h1, h2, i1, i2, lnaddress, tando

MCReqs     == {q1, q2}
MCFares    == {2, 3}
MCHandles  == {h1, h2}
MCInvoices == {i1, i2}
MCRails    == {lnaddress, tando}

\* One behaviour sees two rails, or two payees, not two of both.
Paying == {q \in Req : req[q].kind = "pay"}
RailsSeen  == {l \in Rail : handle[l] # Absent} \cup {invoice[i].rail : i \in Invoice}
                \cup {req[q].rail : q \in Paying}
PayeesSeen == {handle[l] : l \in Rail} \cup {invoice[i].handle : i \in Invoice}
                \cup {req[q].handle : q \in Paying}
SeenBound  == Cardinality(RailsSeen \ {Absent}) <= 1 \/ Cardinality(PayeesSeen \ {Absent}) <= 1

\* Nothing reads the record of a settlement: a behaviour is followed to the first
\* it makes, and to its confirmation once no request is in flight.  One that proves
\* nothing is made while nothing is paid and nothing else is in flight.
Quiet == \A q \in Req : req[q] = Idle
RecordBound ==
    /\ record.status = "none" \/ record'.status = "confirmed"
    /\ record'.status = "confirmed" => Quiet
    /\ \/ record'.status \in {"none", "confirmed"} \/ record'.proof # Absent
       \/ Quiet' /\ \A i \in Invoice : ~invoice[i].paid

MCSpec == SettlementInit /\ [][SettlementNext /\ RecordBound /\ SeenBound']_vars

MCSymmetry == Permutations(Req) \cup Permutations(Invoice) \cup Permutations(Handle)
                 \cup Permutations(Rail)
=============================================================================
