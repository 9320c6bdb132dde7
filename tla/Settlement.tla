------------------------------ MODULE Settlement ------------------------------
(***************************************************************************)
(* Payment of the fare from rider to driver, while the fare moves under it *)
(* at any step (FareBoard, which Fares implements): the driver's handles,  *)
(* the invoices this operator had minted (its ledger), proof of payment,   *)
(* the driver's confirmation (server.js, "NON-CUSTODIAL MULTI-RAIL         *)
(* SETTLEMENT", and settlement/).                                          *)
(*                                                                         *)
(* Rail holds the rails of the Lightning kind a driver may accept          *)
(* (lnaddress, lightning, tando): each mints an invoice a preimage proves  *)
(* paid, and what is out, being minted or proven is told apart by rail.    *)
(* "manual" stands for the others (cash, mpesa, card, cashu), which answer *)
(* words the driver must confirm.                                          *)
(* Checking a preimage is local and yields to nobody; minting an invoice,  *)
(* a fiat price and a LUD-21 check are awaits.  Tips do not touch the fare *)
(* and are left out.                                                       *)
(***************************************************************************)
EXTENDS FareBoard, Sequences, SequencesExt

CONSTANTS
    Req,       \* bound: requests in flight at once
    Rail,      \* rails that mint invoices
    Handle,    \* Lightning Addresses the driver may advertise
    Invoice,   \* bound: invoices that may be minted
    MaxLedger, \* MAX_RECORDED_INSTRUCTIONS
    Absent       \* absent value

ASSUME SettlementAssumption == MaxLedger \in Nat \ {0} /\ Fare \subseteq Nat \ {0}

VARIABLES
    req,      \* req[q]: the request in slot q
    handle,   \* ride.paymentMethods: handle[l], Absent if rail l is not accepted
    invoice,  \* invoice[i]: its rail, amount and payee, and what became of it
    ledger,   \* ride.paymentInstructions: newest first, Absent where no invoice is
    pending,  \* ride.pendingInstruction
    record    \* ride.settlementRecord, and the invoice its proof was for

paying    == <<handle, invoice, ledger, pending, record>>
fareVars  == <<fare, provider>>
vars      == <<fareVars, req, paying>>

RailId == Rail \cup {"manual"}

Idle == [kind |-> "none"]

Begin(q, r) == req[q] = Idle /\ req' = [req EXCEPT ![q] = r]
End(q)      == req' = [req EXCEPT ![q] = Idle]

SettlementInit ==
    /\ Init
    /\ req = [q \in Req |-> Idle]
    /\ handle = [l \in Rail |-> Absent]
    /\ invoice = [i \in Invoice |-> [life |-> "none", rail |-> Absent, amount |-> 0,
                                     handle |-> Absent, paid |-> FALSE]]
    /\ ledger = <<>>
    /\ pending = [rail |-> Absent, invoice |-> Absent]
    /\ record = [status |-> "none", rail |-> Absent, verified |-> FALSE, proof |-> Absent]

-------------------------------------------------------------------------------
(* The driver's handles. *)

\* Replaced wholesale, at any time after the match.
PaymentMethods ==
    /\ provider
    /\ \E h \in [Rail -> Handle \cup {Absent}] : h # handle /\ handle' = h
    /\ UNCHANGED <<fareVars, req, invoice, ledger, pending, record>>

-------------------------------------------------------------------------------
(* Instructions. *)

\* liveInstruction: an invoice on the ledger, comfortably unexpired, of this rail
\* and for this amount and payee.
LiveFor(i, rail, amount, payee) ==
    /\ i # Absent
    /\ invoice[i].life = "fresh"
    /\ invoice[i].rail = rail
    /\ invoice[i].amount = amount
    /\ invoice[i].handle = payee

\* recordInstruction: newest first, and no more than MaxLedger.  The requests that
\* share a build record its invoice in one step, so the hash that keeps it from
\* being listed twice has nothing to remove.
LedgerWith(entry) ==
    LET all == <<entry>> \o ledger
    IN SubSeq(all, 1, IF Len(all) < MaxLedger THEN Len(all) ELSE MaxLedger)

Reusable(rail, amount, payee) == {i \in ToSet(ledger) : LiveFor(i, rail, amount, payee)}

\* The newest invoice already out is handed back in the same turn.
PayAgain(l) ==
    /\ fare # 0 /\ handle[l] # Absent
    /\ \E n \in DOMAIN ledger :
            /\ LiveFor(ledger[n], l, fare, handle[l])
            /\ \A m \in 1..(n - 1) : ~LiveFor(ledger[m], l, fare, handle[l])
            /\ pending' = [rail |-> l, invoice |-> ledger[n]]
    /\ UNCHANGED <<fareVars, req, handle, invoice, ledger, record>>

PayInstruction(q) ==
    /\ fare # 0
    /\ \/ \E l \in Rail :
            /\ handle[l] # Absent
            /\ Reusable(l, fare, handle[l]) = {}
            /\ Begin(q, [kind |-> "pay", rail |-> l, fare |-> fare, handle |-> handle[l]])
       \/ Begin(q, [kind |-> "payManual"])
    /\ UNCHANGED <<fareVars, paying>>

\* instructionOnce: the requests that wait for the build q waits for.
SharesBuild(q, r) ==
    /\ req[r].kind = "pay"
    /\ req[r].rail = req[q].rail
    /\ req[r].fare = req[q].fare
    /\ req[r].handle = req[q].handle

Sharers_Alone(q) == {q}

\* The build ends, and every request that waited for it answers and records.
Sharers(q) == {r \in Req : SharesBuild(q, r)}

InvoiceBuilt(q) ==
    /\ req[q].kind = "pay"
    /\ \E i \in Invoice, life \in {"fresh", "ending"} :
            /\ invoice[i].life = "none"
            /\ invoice' = [invoice EXCEPT ![i] = [life |-> life, rail |-> req[q].rail,
                                                  amount |-> req[q].fare,
                                                  handle |-> req[q].handle, paid |-> FALSE]]
            /\ ledger' = LedgerWith(i)
            /\ pending' = [rail |-> req[q].rail, invoice |-> i]
    /\ req' = [r \in Req |-> IF r \in Sharers(q) THEN Idle ELSE req[r]]
    /\ UNCHANGED <<fareVars, handle, record>>

BuildFails(q) ==
    /\ req[q].kind = "pay"
    /\ req' = [r \in Req |-> IF r \in Sharers(q) THEN Idle ELSE req[r]]
    /\ UNCHANGED <<fareVars, paying>>

\* The fiat figure is in, or is not: an instruction with nothing to reuse.
ManualBuilt(q) ==
    /\ req[q].kind = "payManual"
    /\ ledger' = LedgerWith(Absent)
    /\ pending' = [rail |-> "manual", invoice |-> Absent]
    /\ End(q)
    /\ UNCHANGED <<fareVars, handle, invoice, record>>

-------------------------------------------------------------------------------
(* The rider's wallet, and the invoice's clock. *)

\* "ending" is from a minute before the invoice expires: the wallet may still be
\* in time.
Pay(i) ==
    /\ invoice[i].life # "none" /\ ~invoice[i].paid
    /\ invoice' = [invoice EXCEPT ![i].paid = TRUE]
    /\ UNCHANGED <<fareVars, req, handle, ledger, pending, record>>

Age(i) ==
    /\ invoice[i].life = "fresh"
    /\ invoice' = [invoice EXCEPT ![i].life = "ending"]
    /\ UNCHANGED <<fareVars, req, handle, ledger, pending, record>>

-------------------------------------------------------------------------------
(* Proof, and the record it makes. *)

FareNow_BeforeChecking(fareThen) == fareThen

\* What a settle reads of the fare once its rail has answered.
FareNow(fareThen) == fare

\* proven is the invoice the proof stands for, Absent if it proves none; it must
\* also cover the fare.
Settles(rail, proven, failed, proof, fareThen) ==
    LET verified == proven # Absent /\ invoice[proven].amount >= FareNow(fareThen)
        status   == IF verified THEN "verified"
                    ELSE IF proven # Absent THEN "short"
                    ELSE IF failed THEN "unverified" ELSE "declared"
    IN record' = [status |-> status, rail |-> rail, verified |-> verified, proof |-> proof]

Candidates_Latest(rail) == {pending.invoice} \ {Absent}

\* The hashed invoices of the rail a preimage is checked against; with none, the
\* last instruction, whatever its rail.
Candidates(rail) ==
    LET hashed == {i \in ToSet(ledger) \ {Absent} : invoice[i].rail = rail}
    IN IF hashed # {} THEN hashed ELSE {pending.invoice} \ {Absent}

\* A preimage, of a paid invoice or (Absent) of nothing, is checked in one turn,
\* under the rail the rider names (or, naming none, that of the last instruction).
SettlePreimage(l, proof) ==
    /\ fare # 0
    /\ proof # Absent => invoice[proof].paid
    /\ IF proof \in Candidates(l)
         THEN Settles(l, proof, FALSE, proof, fare)
         ELSE Settles(l, Absent, Candidates(l) # {}, proof, fare)
    /\ UNCHANGED <<fareVars, req, handle, invoice, ledger, pending>>

\* A rail that can only take the rider's word for it: cash, a receipt reference,
\* a malformed code, a pasted token.  (A card number is refused, unrecorded.)
SettleManual ==
    /\ fare # 0
    /\ \E failed \in BOOLEAN : Settles("manual", Absent, failed, Absent, fare)
    /\ UNCHANGED <<fareVars, req, handle, invoice, ledger, pending>>

\* With no preimage the payee's service is asked about the last instruction,
\* whatever rail is named: which it was shows in the record alone.
SettleByService(q) ==
    /\ fare # 0
    /\ pending.invoice # Absent
    /\ Begin(q, [kind |-> "settle", invoice |-> pending.invoice, fare |-> fare])
    /\ UNCHANGED <<fareVars, paying>>

ServiceAnswers(q) ==
    LET r == req[q] IN
    /\ r.kind = "settle"
    /\ \E l \in Rail :
            \/ invoice[r.invoice].paid /\ Settles(l, r.invoice, FALSE, r.invoice, r.fare)
            \/ Settles(l, Absent, FALSE, Absent, r.fare)
    /\ End(q)
    /\ UNCHANGED <<fareVars, handle, invoice, ledger, pending>>

ConfirmReceived ==
    /\ provider
    /\ record' = [record EXCEPT !.status = "confirmed"]
    /\ UNCHANGED <<fareVars, req, handle, invoice, ledger, pending>>

-------------------------------------------------------------------------------
FareChanges == Next /\ UNCHANGED <<req, paying>>

SettlementNext ==
    \/ FareChanges
    \/ PaymentMethods \/ SettleManual \/ ConfirmReceived
    \/ \E l \in Rail :
            \/ PayAgain(l)
            \/ \E proof \in Invoice \cup {Absent} : SettlePreimage(l, proof)
    \/ \E i \in Invoice : Pay(i) \/ Age(i)
    \/ \E q \in Req :
            \/ PayInstruction(q) \/ InvoiceBuilt(q) \/ BuildFails(q) \/ ManualBuilt(q)
            \/ SettleByService(q) \/ ServiceAnswers(q)

SettlementSpec == SettlementInit /\ [][SettlementNext]_vars

-------------------------------------------------------------------------------
(* Properties. *)

TypeOK ==
    /\ fare \in Fare \cup {0}
    /\ provider \in BOOLEAN
    /\ \A q \in Req : req[q].kind \in {"none", "pay", "payManual", "settle"}
    /\ handle \in [Rail -> Handle \cup {Absent}]
    /\ invoice \in [Invoice -> [life: {"none", "fresh", "ending"}, rail: Rail \cup {Absent},
                                amount: Nat, handle: Handle \cup {Absent}, paid: BOOLEAN]]
    /\ ledger \in BoundedSeq(Invoice \cup {Absent}, MaxLedger)
    /\ pending \in [rail: RailId \cup {Absent}, invoice: Invoice \cup {Absent}]
    /\ record.rail \in RailId \cup {Absent}
    /\ record.status \in {"none", "verified", "short", "unverified", "declared", "confirmed"}

\* No two invoices of one rail on the ledger are comfortably payable for the same
\* amount and payee, however the rider taps: a tap is handed the one already out, or
\* shares the one being minted.  Two would let one fare be paid twice.
OneInvoicePerPrice ==
    \A i, j \in ToSet(ledger) \ {Absent} :
        (i # j /\ invoice[i].life = "fresh")
            => ~LiveFor(j, invoice[i].rail, invoice[i].amount, invoice[i].handle)

\* A settlement is recorded verified, and a receipt for the fare published, only when an
\* invoice of at least the fare at that moment has been paid: the fare may have
\* risen since the invoice was minted, and while its payment was being checked.
VerifiedCoversFare ==
    [][(record' # record /\ record'.status = "verified")
            => /\ invoice[record'.proof].paid
               /\ invoice[record'.proof].amount >= fare]_vars

\* A rider who did pay an invoice still on the ledger is never told the proof is
\* bad under the rail it was asked on, whatever was asked for after it, on that rail
\* or another.
ProofIsRecognised ==
    [][(record' # record /\ record'.status = "unverified" /\ record'.proof # Absent)
            => ~(/\ record'.proof \in ToSet(ledger)
                 /\ invoice[record'.proof].rail = record'.rail)]_vars

=============================================================================
