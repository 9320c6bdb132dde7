------------------------- MODULE Settlement_proofs -------------------------
(***************************************************************************)
(* Proofs about the payment of the fare, for any number of requests in     *)
(* flight, invoices, rails and handles, and a fare that moves at any step. *)
(*                                                                         *)
(* That two invoices on the ledger never ask for one price rests on what   *)
(* holds while an invoice is being minted (NothingOut): none is on the     *)
(* ledger on that rail for that amount and payee, since whoever asks for   *)
(* it meanwhile shares the build.                                          *)
(***************************************************************************)
EXTENDS Settlement, SequenceTheorems, TLAPS

Entry == Invoice \cup {Absent}

Request ==
    [kind: {"pay"}, rail: Rail, fare: Fare, handle: Handle]
        \cup [kind: {"payManual"}]
        \cup [kind: {"settle"}, invoice: Invoice, fare: Fare]
        \cup {Idle}

InvoiceType == [life: {"none", "fresh", "ending"}, rail: Rail \cup {Absent}, amount: Nat,
                handle: Handle \cup {Absent}, paid: BOOLEAN]

RailName == RailId \cup {Absent}

Status == {"none", "verified", "short", "unverified", "declared", "confirmed"}

SettlementTyped ==
    /\ fare \in Fare \cup {0}
    /\ provider \in BOOLEAN
    /\ req \in [Req -> Request]
    /\ handle \in [Rail -> Handle \cup {Absent}]
    /\ invoice \in [Invoice -> InvoiceType]
    /\ ledger \in Seq(Entry) /\ Len(ledger) <= MaxLedger
    /\ pending \in [rail: RailName, invoice: Entry]
    /\ record \in [status: Status, rail: RailName, verified: BOOLEAN, proof: Entry]

\* Only an invoice that was minted is on the ledger.
Minted == \A i \in ToSet(ledger) \ {Absent} : invoice[i].life # "none"

\* While an invoice is being minted the ledger has none to reuse for its price.
NothingOut ==
    \A q \in Req : req[q].kind = "pay" => Reusable(req[q].rail, req[q].fare, req[q].handle) = {}

SettlementInv == SettlementTyped /\ Minted /\ NothingOut /\ OneInvoicePerPrice

-----------------------------------------------------------------------------
(* The ledger.                                                             *)

\* Recording puts the entry in front and drops the oldest: nothing else gets on the
\* ledger, which stays within its bound.
LEMMA RecordedEntries ==
    ASSUME ledger \in Seq(Entry), NEW entry \in Entry
    PROVE  /\ LedgerWith(entry) \in Seq(Entry)
           /\ Len(LedgerWith(entry)) <= MaxLedger
           /\ ToSet(LedgerWith(entry)) \subseteq {entry} \cup ToSet(ledger)
<1> DEFINE all == <<entry>> \o ledger
           kept == IF Len(all) < MaxLedger THEN Len(all) ELSE MaxLedger
<1>1. /\ <<entry>> \in Seq(Entry) /\ Len(<<entry>>) = 1 /\ <<entry>>[1] = entry
      /\ Len(ledger) \in Nat /\ DOMAIN ledger = 1..Len(ledger)
  BY LenProperties
<1>2. /\ all \in Seq(Entry) /\ Len(all) = Len(ledger) + 1
      /\ \A n \in 1..Len(all) : all[n] = IF n = 1 THEN entry ELSE ledger[n - 1]
  BY <1>1, ConcatProperties
<1>3. \A n \in 1..Len(all) : all[n] \in {entry} \cup ToSet(ledger)
  <2>1. ASSUME NEW n \in 1..Len(all), n # 1
        PROVE  n - 1 \in DOMAIN ledger
    BY <1>1, <1>2, <2>1
  <2> QED BY <1>2, <2>1 DEF ToSet
<1> HIDE DEF all
<1>4. kept \in 0..Len(all) /\ kept <= MaxLedger
  BY <1>1, <1>2, SettlementAssumption
<1> HIDE DEF kept
<1>5. /\ SubSeq(all, 1, kept) \in Seq(Entry)
      /\ Len(SubSeq(all, 1, kept)) = kept
      /\ \A n \in 1..kept : SubSeq(all, 1, kept)[n] = all[n]
  <2>1. \A n \in 1..kept : n \in 1..Len(all) /\ all[n] \in Entry
    BY <1>1, <1>2, <1>4, ElementOfSeq
  <2>2. /\ Len(SubSeq(all, 1, kept)) = IF 1 <= kept THEN kept - 1 + 1 ELSE 0
        /\ \A n \in 1..(kept - 1 + 1) : SubSeq(all, 1, kept)[n] = all[1 + n - 1]
    BY <1>2, <1>4, <2>1, SubSeqProperties
  <2> QED BY <1>2, <1>4, <2>1, <2>2, SubSeqProperties
<1>6. ToSet(SubSeq(all, 1, kept)) \subseteq {entry} \cup ToSet(ledger)
  BY <1>3, <1>4, <1>5, LenProperties DEF ToSet
<1>7. LedgerWith(entry) = SubSeq(all, 1, kept)
  BY DEF LedgerWith, all, kept
<1> QED BY <1>4, <1>5, <1>6, <1>7

\* The entries of the ledger are entries.
LEMMA EntriesOf ==
    ASSUME NEW s \in Seq(Entry)
    PROVE  ToSet(s) \subseteq Entry
BY ElementOfSeq, LenProperties DEF ToSet

-----------------------------------------------------------------------------
(* The steps.                                                              *)

\* A request sets out that mints nothing, or ends, or is left alone.
Calmer == \A q \in Req : req'[q].kind = "pay" => req'[q] = req[q]

\* No invoice is fresh that was not, or is about something else than it was.
Staler ==
    \A i \in Invoice : /\ invoice'[i].life = "fresh" => invoice[i].life = "fresh"
                       /\ invoice'[i].life = "none" => invoice[i].life = "none"
                       /\ invoice'[i].rail = invoice[i].rail
                       /\ invoice'[i].amount = invoice[i].amount
                       /\ invoice'[i].handle = invoice[i].handle

\* No step keeps a record it has not, by another name.
LEMMA RequestsOf ==
    /\ Idle \in Request /\ Idle.kind = "none"
    /\ \A r \in Request : r.kind = "pay" => r.rail \in Rail /\ r.fare \in Fare /\ r.handle \in Handle
    /\ \A r \in Request : r.kind = "settle" => r.fare \in Fare /\ r.invoice \in Invoice
    /\ \A r \in Request : r.kind \in {"none", "pay", "payManual", "settle"}
BY DEF Request, Idle

\* What leaves the ledger with entries it had, and the invoices no fresher, keeps
\* what is out.
LEMMA LedgerKept ==
    ASSUME SettlementInv, SettlementTyped', Calmer, Staler,
           ToSet(ledger') \subseteq ToSet(ledger) \cup {Absent}
    PROVE  SettlementInv'
<1>1. ToSet(ledger') \subseteq Entry
  BY EntriesOf DEF SettlementTyped
<1>2. Minted'
  BY <1>1 DEF Minted, SettlementInv, Staler, Entry
<1>3. NothingOut'
  <2> SUFFICES ASSUME NEW q \in Req, req'[q].kind = "pay",
                      NEW i \in ToSet(ledger'), i # Absent, invoice'[i].life = "fresh",
                      invoice'[i].rail = req'[q].rail,
                      invoice'[i].amount = req'[q].fare, invoice'[i].handle = req'[q].handle
               PROVE  FALSE
    BY DEF NothingOut, Reusable, LiveFor
  <2>1. i \in Invoice /\ i \in ToSet(ledger) /\ req'[q] = req[q]
    BY <1>1 DEF Entry, Calmer
  <2>2. i \in Reusable(req[q].rail, req[q].fare, req[q].handle)
    BY <2>1 DEF Reusable, LiveFor, Staler
  <2> QED BY <2>1, <2>2 DEF SettlementInv, NothingOut
<1>4. OneInvoicePerPrice'
  BY <1>1 DEF OneInvoicePerPrice, LiveFor, SettlementInv, Staler, Entry
<1> QED BY <1>2, <1>3, <1>4 DEF SettlementInv

\* A slot of the requests is taken or cleared.
LEMMA OneRequest ==
    ASSUME SettlementInv, NEW q \in Req, NEW r \in Request, req' = [req EXCEPT ![q] = r]
    PROVE  /\ req' \in [Req -> Request]
           /\ \A o \in Req : req'[o] = IF o = q THEN r ELSE req[o]
BY DEF SettlementInv, SettlementTyped

\* The steps that leave the invoices, the ledger and whatever is being minted alone.
LEMMA QuietInv ==
    ASSUME SettlementInv, UNCHANGED <<invoice, ledger>>, SettlementTyped', Calmer
    PROVE  SettlementInv'
<1>1. Staler
  BY DEF Staler
<1>2. ToSet(ledger') \subseteq ToSet(ledger) \cup {Absent}
  OBVIOUS
<1> QED BY <1>1, <1>2, LedgerKept

LEMMA FareChangesInv ==
    ASSUME SettlementInv, FareChanges
    PROVE  SettlementInv'
<1>1. fare' \in Fare \cup {0} /\ provider' \in BOOLEAN /\ UNCHANGED <<req, paying>>
  BY DEF FareChanges, Next, Post, Move, Match, SettlementInv, SettlementTyped
<1>2. SettlementTyped' /\ Calmer
  BY <1>1 DEF SettlementInv, SettlementTyped, paying, Calmer
<1> QED BY <1>1, <1>2, QuietInv DEF paying

LEMMA PaymentMethodsInv ==
    ASSUME SettlementInv, PaymentMethods
    PROVE  SettlementInv'
<1>1. SettlementTyped' /\ Calmer
  BY DEF PaymentMethods, fareVars, SettlementInv, SettlementTyped, Calmer
<1> QED BY <1>1, QuietInv DEF PaymentMethods

LEMMA PayAgainInv ==
    ASSUME SettlementInv, NEW l \in Rail, PayAgain(l)
    PROVE  SettlementInv'
<1>1. PICK n \in DOMAIN ledger : pending' = [rail |-> l, invoice |-> ledger[n]]
  BY DEF PayAgain
<1>2. ledger[n] \in Entry
  BY ElementOfSeq, LenProperties DEF SettlementInv, SettlementTyped
<1>3. SettlementTyped' /\ Calmer
  BY <1>1, <1>2
  DEF PayAgain, fareVars, SettlementInv, SettlementTyped, Calmer, RailId, RailName
<1> QED BY <1>3, QuietInv DEF PayAgain

\* An invoice is asked for when the ledger has none for its price.
LEMMA PayInstructionInv ==
    ASSUME SettlementInv, NEW q \in Req, PayInstruction(q)
    PROVE  SettlementInv'
<1>1. UNCHANGED <<fare, provider, handle, invoice, ledger, pending, record>> /\ fare \in Fare
  BY DEF PayInstruction, fareVars, paying, SettlementInv, SettlementTyped
<1>2. ASSUME NEW l \in Rail, handle[l] # Absent, Reusable(l, fare, handle[l]) = {},
             Begin(q, [kind |-> "pay", rail |-> l, fare |-> fare, handle |-> handle[l]])
      PROVE  SettlementInv'
  <2>0. PICK payee \in Handle : payee = handle[l]
    BY <1>2 DEF SettlementInv, SettlementTyped
  <2>1. PICK r \in Request : /\ r.kind = "pay" /\ r.rail = l /\ r.fare = fare
                             /\ r.handle = payee /\ req' = [req EXCEPT ![q] = r]
    BY <1>1, <1>2, <2>0 DEF Begin, Request
  <2>2. /\ req' \in [Req -> Request]
        /\ \A o \in Req : req'[o] = IF o = q THEN r ELSE req[o]
    BY <2>1, OneRequest
  <2>3. SettlementTyped' /\ Minted' /\ OneInvoicePerPrice'
    BY <1>1, <2>2
    DEF SettlementInv, SettlementTyped, Minted, OneInvoicePerPrice, LiveFor
  <2>4. NothingOut'
    BY <1>1, <1>2, <2>0, <2>1, <2>2 DEF SettlementInv, NothingOut, Reusable, LiveFor
  <2> QED BY <2>3, <2>4 DEF SettlementInv
<1>3. CASE Begin(q, [kind |-> "payManual"])
  <2>1. PICK r \in Request : r.kind # "pay" /\ req' = [req EXCEPT ![q] = r]
    BY <1>3 DEF Begin, Request
  <2>2. /\ req' \in [Req -> Request]
        /\ \A o \in Req : req'[o] = IF o = q THEN r ELSE req[o]
    BY <2>1, OneRequest
  <2>3. SettlementTyped' /\ Calmer
    BY <1>1, <2>1, <2>2 DEF SettlementInv, SettlementTyped, Calmer
  <2> QED BY <1>1, <2>3, QuietInv
<1> QED BY <1>2, <1>3 DEF PayInstruction

\* The invoice minted is the only one for its price, since there was none and all
\* who wait for one are answered with it.
LEMMA InvoiceBuiltInv ==
    ASSUME SettlementInv, NEW q \in Req, InvoiceBuilt(q)
    PROVE  SettlementInv'
<1>1. /\ req[q].kind = "pay" /\ req[q].rail \in Rail /\ req[q].fare \in Fare
      /\ req[q].handle \in Handle
  BY RequestsOf DEF InvoiceBuilt, SettlementInv, SettlementTyped
<1>2. PICK i \in Invoice, life \in {"fresh", "ending"} :
        /\ invoice[i].life = "none"
        /\ invoice' = [invoice EXCEPT ![i] = [life |-> life, rail |-> req[q].rail,
                                              amount |-> req[q].fare,
                                              handle |-> req[q].handle, paid |-> FALSE]]
        /\ ledger' = LedgerWith(i)
        /\ pending' = [rail |-> req[q].rail, invoice |-> i]
  BY DEF InvoiceBuilt
<1>3. PICK minted \in InvoiceType :
        /\ minted.life = life /\ minted.rail = req[q].rail
        /\ minted.amount = req[q].fare /\ minted.handle = req[q].handle
        /\ invoice' = [invoice EXCEPT ![i] = minted]
  BY <1>1, <1>2, SettlementAssumption DEF InvoiceType
<1>4. /\ invoice' \in [Invoice -> InvoiceType]
      /\ \A j \in Invoice : invoice'[j] = IF j = i THEN minted ELSE invoice[j]
  BY <1>3 DEF SettlementInv, SettlementTyped
<1>5. /\ ledger' \in Seq(Entry) /\ Len(ledger') <= MaxLedger
      /\ ToSet(ledger') \subseteq {i} \cup ToSet(ledger)
      /\ ToSet(ledger') \subseteq Entry /\ ToSet(ledger) \subseteq Entry
  BY <1>2, RecordedEntries, EntriesOf DEF SettlementInv, SettlementTyped, Entry
<1>6. /\ req' \in [Req -> Request]
      /\ \A r \in Req : req'[r] = IF r \in Sharers(q) THEN Idle ELSE req[r]
  BY RequestsOf DEF InvoiceBuilt, SettlementInv, SettlementTyped
<1>7. SettlementTyped'
  <2>1. pending' \in [rail: RailName, invoice: Entry]
    BY <1>1, <1>2 DEF RailId, RailName, Entry
  <2> QED
    BY <1>4, <1>5, <1>6, <2>1
    DEF InvoiceBuilt, fareVars, SettlementInv, SettlementTyped
<1>8. Minted'
  BY <1>3, <1>4, <1>5 DEF Minted, SettlementInv, Entry
<1>9. \A j \in ToSet(ledger) \ {Absent} : j # i
  BY <1>2 DEF Minted, SettlementInv
<1>10. \A j \in ToSet(ledger) \ {Absent} :
         invoice[j].life = "fresh"
            => \/ invoice[j].rail # req[q].rail \/ invoice[j].amount # req[q].fare
               \/ invoice[j].handle # req[q].handle
  BY <1>1 DEF SettlementInv, NothingOut, Reusable, LiveFor
<1>11. OneInvoicePerPrice'
  <2> SUFFICES ASSUME NEW j \in ToSet(ledger') \ {Absent}, NEW k \in ToSet(ledger') \ {Absent},
                      j # k, invoice'[j].life = "fresh", invoice'[k].life = "fresh"
               PROVE  \/ invoice'[j].rail # invoice'[k].rail
                      \/ invoice'[j].amount # invoice'[k].amount
                      \/ invoice'[j].handle # invoice'[k].handle
    BY DEF OneInvoicePerPrice, LiveFor
  <2>1. j \in Invoice /\ k \in Invoice
    BY <1>5 DEF Entry
  <2>2. CASE j = i
    BY <1>3, <1>4, <1>5, <1>9, <1>10, <2>1, <2>2
  <2>3. CASE k = i
    BY <1>3, <1>4, <1>5, <1>9, <1>10, <2>1, <2>3
  <2>4. CASE j # i /\ k # i
    BY <1>4, <1>5, <2>1, <2>4 DEF SettlementInv, OneInvoicePerPrice, LiveFor
  <2> QED BY <2>2, <2>3, <2>4
<1>12. NothingOut'
  <2> SUFFICES ASSUME NEW r \in Req, req'[r].kind = "pay",
                      NEW j \in ToSet(ledger'), j # Absent, invoice'[j].life = "fresh",
                      invoice'[j].rail = req'[r].rail,
                      invoice'[j].amount = req'[r].fare, invoice'[j].handle = req'[r].handle
               PROVE  FALSE
    BY DEF NothingOut, Reusable, LiveFor
  <2>1. r \notin Sharers(q) /\ req'[r] = req[r] /\ j \in Invoice
    BY <1>5, <1>6, RequestsOf DEF Entry
  <2>2. CASE j = i
    BY <1>3, <1>4, <2>1, <2>2 DEF Sharers, SharesBuild
  <2>3. CASE j # i
    <3>1. j \in Reusable(req[r].rail, req[r].fare, req[r].handle)
      BY <1>4, <1>5, <2>1, <2>3 DEF Reusable, LiveFor
    <3> QED BY <2>1, <3>1 DEF SettlementInv, NothingOut
  <2> QED BY <2>2, <2>3
<1> QED BY <1>7, <1>8, <1>11, <1>12 DEF SettlementInv

LEMMA BuildFailsInv ==
    ASSUME SettlementInv, NEW q \in Req, BuildFails(q)
    PROVE  SettlementInv'
<1>1. /\ req' \in [Req -> Request]
      /\ \A r \in Req : req'[r] \in {Idle, req[r]}
  BY RequestsOf DEF BuildFails, SettlementInv, SettlementTyped
<1>2. SettlementTyped'
  BY <1>1 DEF BuildFails, fareVars, paying, SettlementInv, SettlementTyped
<1>3. Calmer
  BY <1>1, RequestsOf DEF Calmer
<1> QED BY <1>2, <1>3, QuietInv DEF BuildFails, paying

LEMMA ManualBuiltInv ==
    ASSUME SettlementInv, NEW q \in Req, ManualBuilt(q)
    PROVE  SettlementInv'
<1>1. /\ ledger' = LedgerWith(Absent) /\ req' = [req EXCEPT ![q] = Idle]
      /\ pending' = [rail |-> "manual", invoice |-> Absent]
      /\ UNCHANGED <<fare, provider, handle, invoice, record>>
  BY DEF ManualBuilt, End, fareVars
<1>2. /\ ledger' \in Seq(Entry) /\ Len(ledger') <= MaxLedger
      /\ ToSet(ledger') \subseteq {Absent} \cup ToSet(ledger)
  BY <1>1, RecordedEntries DEF SettlementInv, SettlementTyped, Entry
<1>3. /\ req' \in [Req -> Request]
      /\ \A o \in Req : req'[o] = IF o = q THEN Idle ELSE req[o]
  BY <1>1, OneRequest, RequestsOf
<1>4. pending' \in [rail: RailName, invoice: Entry]
  BY <1>1 DEF RailId, RailName, Entry
<1>5. SettlementTyped'
  BY <1>1, <1>2, <1>3, <1>4 DEF SettlementInv, SettlementTyped
<1>6. Calmer /\ Staler
  BY <1>1, <1>3, RequestsOf DEF Calmer, Staler
<1> QED BY <1>2, <1>5, <1>6, LedgerKept

\* An invoice is paid, or draws to its end.
LEMMA InvoiceMovesInv ==
    ASSUME SettlementInv, NEW i \in Invoice, Pay(i) \/ Age(i)
    PROVE  SettlementInv'
<1>1. UNCHANGED <<fare, provider, req, handle, ledger, pending, record>>
  BY DEF Pay, Age, fareVars
<1>2. PICK moved \in InvoiceType :
        /\ invoice' = [invoice EXCEPT ![i] = moved]
        /\ moved.rail = invoice[i].rail
        /\ moved.amount = invoice[i].amount /\ moved.handle = invoice[i].handle
        /\ moved.life = invoice[i].life \/ moved.life = "ending"
  <2>1. invoice[i] \in InvoiceType
    BY DEF SettlementInv, SettlementTyped
  <2>2. CASE Pay(i)
    <3>1. PICK paid \in InvoiceType : paid = [invoice[i] EXCEPT !.paid = TRUE]
      BY <2>1 DEF InvoiceType
    <3>2. invoice' = [invoice EXCEPT ![i] = paid]
      BY <2>2, <3>1 DEF Pay, SettlementInv, SettlementTyped
    <3>3. /\ paid.rail = invoice[i].rail
          /\ paid.amount = invoice[i].amount /\ paid.handle = invoice[i].handle
          /\ paid.life = invoice[i].life
      BY <2>1, <3>1 DEF InvoiceType
    <3> QED BY <3>2, <3>3
  <2>3. CASE Age(i)
    <3>1. PICK aged \in InvoiceType : aged = [invoice[i] EXCEPT !.life = "ending"]
      BY <2>1 DEF InvoiceType
    <3>2. invoice' = [invoice EXCEPT ![i] = aged]
      BY <2>3, <3>1 DEF Age, SettlementInv, SettlementTyped
    <3>3. /\ aged.rail = invoice[i].rail
          /\ aged.amount = invoice[i].amount /\ aged.handle = invoice[i].handle
          /\ aged.life = "ending"
      BY <2>1, <3>1 DEF InvoiceType
    <3> QED BY <3>2, <3>3
  <2> QED BY <2>2, <2>3
<1>3. /\ invoice' \in [Invoice -> InvoiceType]
      /\ \A j \in Invoice : invoice'[j] = IF j = i THEN moved ELSE invoice[j]
  BY <1>2 DEF SettlementInv, SettlementTyped
<1>4. SettlementTyped' /\ Calmer
  BY <1>1, <1>3 DEF SettlementInv, SettlementTyped, Calmer
<1>5. Staler
  BY <1>2, <1>3 DEF Staler
<1> QED BY <1>1, <1>4, <1>5, LedgerKept

\* What a settle records is a record.
LEMMA SettlesRecord ==
    ASSUME NEW rail \in RailName, NEW proven \in Entry, NEW failed \in BOOLEAN,
           NEW proof \in Entry, NEW fareThen, Settles(rail, proven, failed, proof, fareThen)
    PROVE  /\ record' \in [status: Status, rail: RailName, verified: BOOLEAN, proof: Entry]
           /\ record'.proof = proof /\ record'.rail = rail
           /\ record'.status = "verified" => proven # Absent /\ invoice[proven].amount >= fare
           /\ record'.status = "unverified" => proven = Absent /\ failed
<1>1. PICK verified \in BOOLEAN :
        verified = (proven # Absent /\ invoice[proven].amount >= fare)
  OBVIOUS
<1>2. PICK status \in Status :
        /\ status = IF verified THEN "verified"
                    ELSE IF proven # Absent THEN "short"
                    ELSE IF failed THEN "unverified" ELSE "declared"
        /\ record' = [status |-> status, rail |-> rail, verified |-> verified, proof |-> proof]
  BY <1>1 DEF Settles, FareNow, Status
<1> QED BY <1>1, <1>2

\* An invoice that is on the ledger, asked on that rail.
Listed(i, rail) == i \in ToSet(ledger) /\ invoice[i].rail = rail

\* What a step that settles goes by: the invoice it takes as proven.
SettlesOn(rail, proven, failed, proof) ==
    /\ \E fareThen : Settles(rail, proven, failed, proof, fareThen)
    /\ proven # Absent => proof = proven /\ invoice[proof].paid
    /\ (failed /\ proven = Absent /\ proof # Absent) => ~Listed(proof, rail)
    /\ UNCHANGED <<fare, provider, handle, invoice, ledger, pending>>
    /\ UNCHANGED req \/ \E q \in Req : req' = [req EXCEPT ![q] = Idle]

\* Every settle takes as proven a paid invoice only, and calls a proof bad only when
\* its invoice is not on the ledger under the rail it names.
LEMMA SettlesSoundly ==
    ASSUME SettlementInv,
           \/ \E l \in Rail, proof \in Invoice \cup {Absent} : SettlePreimage(l, proof)
           \/ SettleManual
           \/ \E q \in Req : ServiceAnswers(q)
    PROVE  \E rail \in RailName, proven \in Entry, failed \in BOOLEAN, proof \in Entry :
              SettlesOn(rail, proven, failed, proof)
<1>0. Absent \in Entry /\ Rail \subseteq RailName /\ "manual" \in RailName
  BY DEF Entry, RailName, RailId
<1>1. ASSUME NEW l \in Rail, NEW proof \in Entry, SettlePreimage(l, proof)
      PROVE  \E proven \in Entry, failed \in BOOLEAN : SettlesOn(l, proven, failed, proof)
  <2>1. CASE proof \in Candidates(l)
    <3>1. SettlesOn(l, proof, FALSE, proof)
      BY <1>1, <2>1 DEF SettlePreimage, SettlesOn, fareVars
    <3> QED BY <3>1
  <2>2. CASE proof \notin Candidates(l)
    <3>1. proof # Absent => ~Listed(proof, l)
      BY <2>2 DEF Candidates, Listed
    <3>2. PICK failed \in BOOLEAN : failed = (Candidates(l) # {})
      OBVIOUS
    <3>3. SettlesOn(l, Absent, failed, proof)
      BY <1>1, <2>2, <3>1, <3>2 DEF SettlePreimage, SettlesOn, fareVars
    <3> QED BY <1>0, <3>3
  <2> QED BY <2>1, <2>2
<1>2. ASSUME SettleManual
      PROVE  \E failed \in BOOLEAN : SettlesOn("manual", Absent, failed, Absent)
  <2>1. PICK failed \in BOOLEAN : Settles("manual", Absent, failed, Absent, fare)
    BY <1>2 DEF SettleManual
  <2>2. SettlesOn("manual", Absent, failed, Absent)
    BY <1>2, <2>1 DEF SettleManual, SettlesOn, fareVars
  <2> QED BY <2>2
<1>3. ASSUME NEW q \in Req, ServiceAnswers(q)
      PROVE  \E l \in Rail, proven \in Entry : SettlesOn(l, proven, FALSE, proven)
  <2>1. req[q].invoice \in Entry
    BY <1>3, RequestsOf DEF ServiceAnswers, SettlementInv, SettlementTyped, Entry
  <2>2. PICK l \in Rail :
          \/ invoice[req[q].invoice].paid
               /\ Settles(l, req[q].invoice, FALSE, req[q].invoice, req[q].fare)
          \/ Settles(l, Absent, FALSE, Absent, req[q].fare)
    BY <1>3 DEF ServiceAnswers
  <2>3. CASE invoice[req[q].invoice].paid
              /\ Settles(l, req[q].invoice, FALSE, req[q].invoice, req[q].fare)
    <3>1. SettlesOn(l, req[q].invoice, FALSE, req[q].invoice)
      BY <1>3, <2>3 DEF ServiceAnswers, SettlesOn, End, fareVars
    <3> QED BY <2>1, <3>1
  <2>4. CASE Settles(l, Absent, FALSE, Absent, req[q].fare)
    <3>1. SettlesOn(l, Absent, FALSE, Absent)
      BY <1>3, <2>4 DEF ServiceAnswers, SettlesOn, End, fareVars
    <3> QED BY <1>0, <3>1
  <2> QED BY <2>2, <2>3, <2>4
<1>4. CASE \E l \in Rail, proof \in Invoice \cup {Absent} : SettlePreimage(l, proof)
  <2>1. PICK l \in Rail, proof \in Entry : SettlePreimage(l, proof)
    BY <1>4 DEF Entry
  <2> QED BY <1>0, <1>1, <2>1
<1>5. CASE SettleManual
  BY <1>0, <1>2, <1>5
<1>6. CASE \E q \in Req : ServiceAnswers(q)
  BY <1>0, <1>3, <1>6
<1> QED BY <1>4, <1>5, <1>6

LEMMA SettlesInv ==
    ASSUME SettlementInv,
           NEW rail \in RailName, NEW proven \in Entry, NEW failed \in BOOLEAN,
           NEW proof \in Entry, SettlesOn(rail, proven, failed, proof)
    PROVE  /\ SettlementInv'
           /\ record'.status = "verified" =>
                invoice[record'.proof].paid /\ invoice[record'.proof].amount >= fare
           /\ (record'.status = "unverified" /\ record'.proof # Absent) =>
                ~Listed(record'.proof, record'.rail)
<1>1. /\ record' \in [status: Status, rail: RailName, verified: BOOLEAN, proof: Entry]
      /\ record'.proof = proof /\ record'.rail = rail
      /\ record'.status = "verified" => proven # Absent /\ invoice[proven].amount >= fare
      /\ record'.status = "unverified" => proven = Absent /\ failed
  <2>1. PICK fareThen : Settles(rail, proven, failed, proof, fareThen)
    BY DEF SettlesOn
  <2> QED BY <2>1, SettlesRecord
<1>2. /\ req' \in [Req -> Request]
      /\ \A o \in Req : req'[o] \in {req[o], Idle}
  <2>1. CASE UNCHANGED req
    BY <2>1 DEF SettlementInv, SettlementTyped
  <2>2. ASSUME NEW q \in Req, req' = [req EXCEPT ![q] = Idle]
        PROVE  req' \in [Req -> Request] /\ \A o \in Req : req'[o] \in {req[o], Idle}
    BY <2>2, OneRequest, RequestsOf
  <2> QED BY <2>1, <2>2 DEF SettlesOn
<1>3. SettlementTyped'
  BY <1>1, <1>2 DEF SettlesOn, SettlementInv, SettlementTyped
<1>4. Calmer
  BY <1>2, RequestsOf DEF Calmer
<1>5. SettlementInv'
  BY <1>3, <1>4, QuietInv DEF SettlesOn
<1>6. record'.status = "verified" =>
        invoice[record'.proof].paid /\ invoice[record'.proof].amount >= fare
  BY <1>1 DEF SettlesOn
<1>7. (record'.status = "unverified" /\ record'.proof # Absent) =>
        ~Listed(record'.proof, record'.rail)
  BY <1>1 DEF SettlesOn
<1> QED BY <1>5, <1>6, <1>7

LEMMA SettleByServiceInv ==
    ASSUME SettlementInv, NEW q \in Req, SettleByService(q)
    PROVE  SettlementInv'
<1>1. PICK r \in Request : r.kind # "pay" /\ req' = [req EXCEPT ![q] = r]
  <2>1. pending.invoice \in Invoice /\ fare \in Fare
    BY DEF SettleByService, SettlementInv, SettlementTyped, Entry
  <2>2. PICK r \in Request : r = [kind |-> "settle", invoice |-> pending.invoice, fare |-> fare]
    BY <2>1 DEF Request
  <2>3. r.kind # "pay" /\ req' = [req EXCEPT ![q] = r]
    BY <2>2 DEF SettleByService, Begin
  <2> QED BY <2>3
<1>2. /\ req' \in [Req -> Request]
      /\ \A o \in Req : req'[o] = IF o = q THEN r ELSE req[o]
  BY <1>1, OneRequest
<1>3. SettlementTyped' /\ Calmer
  BY <1>1, <1>2 DEF SettleByService, fareVars, paying, SettlementInv, SettlementTyped, Calmer
<1> QED BY <1>3, QuietInv DEF SettleByService, paying

LEMMA ConfirmReceivedInv ==
    ASSUME SettlementInv, ConfirmReceived
    PROVE  SettlementInv' /\ record'.status = "confirmed"
<1>1. /\ record' \in [status: Status, rail: RailName, verified: BOOLEAN, proof: Entry]
      /\ record'.status = "confirmed"
  BY DEF ConfirmReceived, SettlementInv, SettlementTyped, Status
<1>2. SettlementTyped' /\ Calmer
  BY <1>1 DEF ConfirmReceived, fareVars, SettlementInv, SettlementTyped, Calmer
<1> QED BY <1>1, <1>2, QuietInv DEF ConfirmReceived

-----------------------------------------------------------------------------
(* The theorems.                                                           *)

LEMMA SettlementInvInit == SettlementInit => SettlementInv
<1> SUFFICES ASSUME SettlementInit PROVE SettlementInv
  OBVIOUS
<1>1. ledger = <<>> /\ ledger \in Seq(Entry) /\ Len(ledger) <= MaxLedger /\ ToSet(ledger) = {}
  BY EmptySeq, SettlementAssumption DEF SettlementInit, ToSet
<1>2. invoice \in [Invoice -> InvoiceType]
  BY DEF SettlementInit, InvoiceType
<1>3. req \in [Req -> Request] /\ \A q \in Req : req[q].kind = "none"
  BY RequestsOf DEF SettlementInit
<1>4. SettlementTyped
  BY <1>1, <1>2, <1>3 DEF SettlementInit, Init, SettlementTyped, Entry, Status, RailName
<1> QED BY <1>1, <1>3, <1>4 DEF SettlementInv, Minted, NothingOut, OneInvoicePerPrice, Reusable

\* What a step that records a settlement has found out.
SettledSoundly ==
    /\ (record' # record /\ record'.status = "verified")
          => /\ invoice[record'.proof].paid
             /\ invoice[record'.proof].amount >= fare
    /\ (record' # record /\ record'.status = "unverified" /\ record'.proof # Absent)
          => ~Listed(record'.proof, record'.rail)

\* Every step keeps the invariant, settles on a paid invoice that covers the fare, and
\* calls no proof bad whose invoice is on the ledger.
LEMMA SettlementStep ==
    ASSUME SettlementInv, [SettlementNext]_vars
    PROVE  SettlementInv' /\ SettledSoundly
<1>1. CASE UNCHANGED vars
  <2>1. SettlementTyped' /\ Calmer
    BY <1>1 DEF vars, fareVars, paying, SettlementInv, SettlementTyped, Calmer
  <2> QED BY <1>1, <2>1, QuietInv DEF vars, fareVars, paying, SettledSoundly
<1>2. CASE FareChanges
  BY <1>2, FareChangesInv DEF FareChanges, paying, SettledSoundly
<1>3. CASE PaymentMethods
  BY <1>3, PaymentMethodsInv DEF PaymentMethods, SettledSoundly
<1>4. ASSUME NEW l \in Rail, PayAgain(l)
      PROVE  SettlementInv' /\ SettledSoundly
  BY <1>4, PayAgainInv DEF PayAgain, SettledSoundly
<1>5. CASE \/ \E l \in Rail, proof \in Invoice \cup {Absent} : SettlePreimage(l, proof)
           \/ SettleManual
           \/ \E q \in Req : ServiceAnswers(q)
  BY <1>5, SettlesSoundly, SettlesInv DEF SettledSoundly
<1>6. CASE ConfirmReceived
  BY <1>6, ConfirmReceivedInv DEF SettledSoundly
<1>7. ASSUME NEW i \in Invoice, Pay(i) \/ Age(i)
      PROVE  SettlementInv' /\ SettledSoundly
  BY <1>7, InvoiceMovesInv DEF Pay, Age, SettledSoundly
<1>8. ASSUME NEW q \in Req, PayInstruction(q)
      PROVE  SettlementInv' /\ SettledSoundly
  BY <1>8, PayInstructionInv DEF PayInstruction, paying, SettledSoundly
<1>9. ASSUME NEW q \in Req, InvoiceBuilt(q)
      PROVE  SettlementInv' /\ SettledSoundly
  BY <1>9, InvoiceBuiltInv DEF InvoiceBuilt, SettledSoundly
<1>10. ASSUME NEW q \in Req, BuildFails(q)
       PROVE  SettlementInv' /\ SettledSoundly
  BY <1>10, BuildFailsInv DEF BuildFails, paying, SettledSoundly
<1>11. ASSUME NEW q \in Req, ManualBuilt(q)
       PROVE  SettlementInv' /\ SettledSoundly
  BY <1>11, ManualBuiltInv DEF ManualBuilt, SettledSoundly
<1>12. ASSUME NEW q \in Req, SettleByService(q)
       PROVE  SettlementInv' /\ SettledSoundly
  BY <1>12, SettleByServiceInv DEF SettleByService, paying, SettledSoundly
<1> QED
  BY <1>1, <1>2, <1>3, <1>4, <1>5, <1>6, <1>7, <1>8, <1>9, <1>10, <1>11, <1>12
  DEF SettlementNext

LEMMA SettlementInvHolds == SettlementSpec => []SettlementInv
BY SettlementInvInit, SettlementStep, PTL DEF SettlementSpec

\* Every variable keeps the values its comment gives it.
THEOREM SettlementTypes == SettlementSpec => []TypeOK
<1>1. SettlementInv => TypeOK
  <2> SUFFICES ASSUME SettlementInv PROVE TypeOK
    OBVIOUS
  <2>1. ledger \in BoundedSeq(Invoice \cup {Absent}, MaxLedger)
    <3>1. /\ ledger \in [1..Len(ledger) -> Entry] /\ Len(ledger) \in 0..MaxLedger
      BY LenProperties, SettlementAssumption DEF SettlementInv, SettlementTyped
    <3> QED BY <3>1 DEF BoundedSeq, SeqOf, Entry
  <2> QED
    BY <2>1, RequestsOf
    DEF TypeOK, SettlementInv, SettlementTyped, InvoiceType, Entry, Status, RailName
<1> QED BY <1>1, SettlementInvHolds, PTL

\* No two invoices of one rail on the ledger are payable for one amount and payee,
\* however many taps overlap: what mints an invoice found none for its price, and
\* nobody else mints one for that price meanwhile (liveInstruction, instructionOnce).
THEOREM OneToPay == SettlementSpec => []OneInvoicePerPrice
<1>1. SettlementInv => OneInvoicePerPrice
  BY DEF SettlementInv
<1> QED BY <1>1, SettlementInvHolds, PTL

\* A settlement is recorded verified only on a paid invoice of at least the fare at
\* that moment, by whichever way the proof came (POST /settle).
THEOREM VerifiedIsCovered == SettlementSpec => VerifiedCoversFare
<1>1. SettlementInv /\ [SettlementNext]_vars =>
        [(record' # record /\ record'.status = "verified")
            => /\ invoice[record'.proof].paid
               /\ invoice[record'.proof].amount >= fare]_vars
  BY SettlementStep DEF SettledSoundly
<1> QED BY <1>1, SettlementInvHolds, PTL DEF SettlementSpec, VerifiedCoversFare

\* The proof of a paid invoice still on the ledger is never called bad under the
\* rail it was asked on, whatever was asked for after it (POST /settle).
THEOREM ProofsAreRecognised == SettlementSpec => ProofIsRecognised
<1>1. SettlementInv /\ [SettlementNext]_vars =>
        [(record' # record /\ record'.status = "unverified" /\ record'.proof # Absent)
            => ~Listed(record'.proof, record'.rail)]_vars
  BY SettlementStep DEF SettledSoundly
<1> QED
  BY <1>1, SettlementInvHolds, PTL DEF SettlementSpec, ProofIsRecognised, Listed

=============================================================================
