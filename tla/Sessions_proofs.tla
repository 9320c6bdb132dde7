-------------------------- MODULE Sessions_proofs --------------------------
(***************************************************************************)
(* Proofs about what the run "sessions" checks beside the facade: the      *)
(* panel the payer settles a ride with, the stakes of a session on         *)
(* whichever rails, the rails themselves, and guidance along a route.      *)
(* The four share no state.                                                *)
(***************************************************************************)
EXTENDS SessionStakes, PayPanel, StakeRails, Navigation, SequenceTheorems, FiniteSetTheorems, TLAPS

-----------------------------------------------------------------------------
(* The panel.                                                              *)

Offer == [rail : Rails, fare : Nat]

\* A payment asked of the wallet.
Asking ==
    [ invoice : Offer, paid : BOOLEAN, refused : BOOLEAN,
      told : {"waiting", "paid", "failed", "unknown", "lost"} ]

PanelState ==
    [ rail : Rails \cup {Nothing}, offer : Offer \cup {Nothing},
      busy : {"no", "instruction", "nwc", "settle"}, unknown : BOOLEAN,
      unknownFor : Offer \cup {Nothing}, declared : BOOLEAN, seen : {"open", "recorded"} ]

PayCall ==
    [call : {"instruct"}, invoice : Offer]
        \cup [call : {"settle"}, direct : BOOLEAN, invoice : Offer \cup {Nothing}]

PanelTypeOK ==
    /\ owed \in Nat
    /\ settlement \in {"open", "recorded"}
    /\ panel \in PanelState
    /\ pending \subseteq PayCall
    /\ asked \in Seq(Asking)
    /\ strayed \in BOOLEAN

\* A refusal is of a payment that was not made, and stays so.
RefusedIsUnpaid ==
    \A k \in DOMAIN asked : asked[k].told = "failed" => asked[k].refused /\ ~asked[k].paid

\* It may have been paid, or may still be.
Alive(k) == asked[k].told # "failed"

\* While the payer has not strayed, all that may have been paid is one invoice; where
\* its outcome is unknown the panel says so, and elsewhere it can offer no other.
OneInvoice ==
    /\ \A k, l \in DOMAIN asked :
         Alive(k) /\ Alive(l) => asked[k].invoice = asked[l].invoice
    /\ \A k \in DOMAIN asked :
         /\ asked[k].told # "lost"
         /\ asked[k].told = "unknown" =>
              panel.unknown /\ panel.unknownFor = asked[k].invoice
         /\ asked[k].told \in {"waiting", "paid"} =>
              /\ panel.offer \in {Nothing, asked[k].invoice}
              /\ Calls("instruct") = {}
    /\ Calls("instruct") # {} => panel.offer = Nothing
    /\ \A c, d \in Calls("instruct") : c = d

PanelInv == PanelTypeOK /\ RefusedIsUnpaid /\ (~strayed => OneInvoice)

\* Nothing is asked of the wallet and no other invoice offered.
LEMMA NothingAsked ==
    ASSUME PanelInv, PanelTypeOK', UNCHANGED asked,
           Calls("instruct")' \subseteq Calls("instruct"),
           panel'.offer \in {Nothing, panel.offer},
           panel'.unknown = panel.unknown, panel'.unknownFor = panel.unknownFor,
           strayed => strayed'
    PROVE  PanelInv'
<1>1. RefusedIsUnpaid'
  BY DEF PanelInv, RefusedIsUnpaid
<1>2. ASSUME ~strayed' PROVE OneInvoice'
  <2>1. OneInvoice
    BY <1>2 DEF PanelInv, PanelTypeOK
  <2> QED BY <2>1 DEF OneInvoice, Alive
<1> QED BY <1>1, <1>2 DEF PanelInv

LEMMA SelectRailInv ==
    ASSUME PanelInv, NEW r \in Rails, SelectRail(r)
    PROVE  PanelInv'
<1>1. PICK c : c = [call |-> "instruct", invoice |-> OfferOf(r)]
  OBVIOUS
<1>2. c \in PayCall /\ pending' = pending \cup {c}
  BY <1>1 DEF SelectRail, OfferOf, Offer, PayCall, PanelInv, PanelTypeOK
<1>3. /\ panel' \in PanelState /\ panel'.offer = Nothing
      /\ panel'.unknown = panel.unknown /\ panel'.unknownFor = panel.unknownFor
  BY DEF SelectRail, PanelInv, PanelTypeOK, PanelState
<1>4. PanelTypeOK'
  BY <1>2, <1>3 DEF SelectRail, PanelInv, PanelTypeOK
<1>5. RefusedIsUnpaid'
  BY DEF SelectRail, PanelInv, RefusedIsUnpaid
<1>6. ASSUME ~strayed' PROVE OneInvoice'
  <2>1. OneInvoice /\ ~UnderWay /\ UNCHANGED asked
    BY <1>6 DEF SelectRail, PanelInv, PanelTypeOK
  <2>2. \A k \in DOMAIN asked : asked[k].told \notin {"waiting", "paid"}
    BY <2>1 DEF UnderWay
  <2>3. Calls("instruct")' \subseteq {c}
    BY <1>2, <2>1 DEF UnderWay, Calls
  <2> QED BY <1>3, <2>1, <2>2, <2>3 DEF OneInvoice, Alive
<1> QED BY <1>4, <1>5, <1>6 DEF PanelInv

LEMMA InstructedInv ==
    ASSUME PanelInv, NEW c \in pending, Instructed(c)
    PROVE  PanelInv'
<1>1. c.call = "instruct" /\ c.invoice \in Offer
  BY DEF Instructed, PanelInv, PanelTypeOK, PayCall
<1>2. /\ panel' \in PanelState
      /\ panel'.offer = c.invoice
      /\ panel.unknownFor # c.invoice =>
           panel'.unknown = panel.unknown /\ panel'.unknownFor = panel.unknownFor
  BY <1>1 DEF Instructed, Rearmed, PanelInv, PanelTypeOK, PanelState
<1>3. PanelTypeOK'
  BY <1>2 DEF Instructed, PanelInv, PanelTypeOK
<1>4. RefusedIsUnpaid'
  BY DEF Instructed, PanelInv, RefusedIsUnpaid
<1>5. ASSUME ~strayed' PROVE OneInvoice'
  <2>1. OneInvoice /\ panel.unknownFor # c.invoice /\ UNCHANGED asked
    BY <1>5 DEF Instructed, PanelInv, PanelTypeOK
  <2>2. c \in Calls("instruct")
    BY <1>1 DEF Calls
  <2>3. Calls("instruct")' = {}
    BY <2>1, <2>2 DEF OneInvoice, Calls, Instructed
  <2>4. \A k \in DOMAIN asked : asked[k].told \notin {"waiting", "paid"}
    BY <2>1, <2>2 DEF OneInvoice
  <2> QED BY <1>2, <2>1, <2>3, <2>4 DEF OneInvoice, Alive
<1> QED BY <1>3, <1>4, <1>5 DEF PanelInv

\* The wallet is asked only for what the panel offers.
LEMMA PayWithNwcInv ==
    ASSUME PanelInv, PayWithNwc
    PROVE  PanelInv'
<1>1. PICK a : a = [ invoice |-> panel.offer, paid |-> FALSE, refused |-> FALSE,
                     told |-> "waiting" ]
  OBVIOUS
<1>2. a \in Asking /\ asked' = Append(asked, a)
  BY <1>1 DEF PayWithNwc, OneTap, Asking, PanelInv, PanelTypeOK, PanelState
<1>3. /\ asked \in Seq(Asking) /\ asked' \in Seq(Asking)
      /\ Len(asked) \in Nat /\ Len(asked') = Len(asked) + 1
      /\ DOMAIN asked = 1..Len(asked) /\ DOMAIN asked' = 1..Len(asked')
      /\ \A k \in 1..Len(asked) : asked'[k] = asked[k]
      /\ asked'[Len(asked) + 1] = a
  BY <1>2, AppendProperties, LenProperties DEF PanelInv, PanelTypeOK
<1>4. \A k \in DOMAIN asked' :
        \/ k \in DOMAIN asked /\ asked'[k] = asked[k]
        \/ asked'[k] = a
  BY <1>3
<1>5. panel' \in PanelState /\ panel'.offer = panel.offer /\ panel.offer # Nothing
      /\ ~panel.unknown /\ panel'.unknownFor = panel.unknownFor
  BY DEF PayWithNwc, OneTap, PanelInv, PanelTypeOK, PanelState
<1>6. PanelTypeOK'
  BY <1>3, <1>5 DEF PayWithNwc, PanelInv, PanelTypeOK
<1>7. RefusedIsUnpaid'
  BY <1>1, <1>4 DEF PanelInv, RefusedIsUnpaid
<1>8. ASSUME ~strayed' PROVE OneInvoice'
  <2>1. OneInvoice /\ UNCHANGED pending
    BY <1>8 DEF PayWithNwc, PanelInv
  <2>2. Calls("instruct") = {} /\ Calls("instruct")' = {}
    BY <1>5, <2>1 DEF OneInvoice, Calls
  <2>3. \A k \in DOMAIN asked :
          asked[k].told # "failed" =>
              asked[k].told \in {"waiting", "paid"} /\ asked[k].invoice = a.invoice
    <3>1. \A k \in DOMAIN asked : asked[k] \in Asking
      BY <1>3
    <3> QED BY <1>1, <1>5, <2>1, <3>1 DEF OneInvoice, Asking
  <2>4. \A k \in DOMAIN asked' : asked'[k].told # "failed" =>
           asked'[k].told \in {"waiting", "paid"} /\ asked'[k].invoice = a.invoice
    BY <1>1, <1>4, <2>3
  <2>5. panel'.offer = a.invoice
    BY <1>1, <1>5
  <2> QED BY <2>2, <2>4, <2>5 DEF OneInvoice, Alive
<1> QED BY <1>6, <1>7, <1>8 DEF PanelInv

\* One payment asked of the wallet is marked.
LEMMA OneMarked ==
    ASSUME PanelInv, NEW k \in DOMAIN asked, NEW a \in Asking,
           asked' = [asked EXCEPT ![k] = a]
    PROVE  /\ asked' \in Seq(Asking)
           /\ DOMAIN asked' = DOMAIN asked
           /\ asked[k] \in Asking
           /\ \A j \in DOMAIN asked : asked'[j] = IF j = k THEN a ELSE asked[j]
<1>1. asked \in Seq(Asking) /\ DOMAIN asked = 1..Len(asked)
  BY LenProperties DEF PanelInv, PanelTypeOK
<1>2. k \in 1..Len(asked)
  BY <1>1
<1> QED BY <1>1, <1>2, ExceptSeq, ElementOfSeq

LEMMA WalletPaysInv ==
    ASSUME PanelInv, NEW k \in DOMAIN asked, WalletPays(k)
    PROVE  PanelInv'
<1>1. asked[k] \in Asking
  BY ElementOfSeq, LenProperties DEF PanelInv, PanelTypeOK
<1>2. PICK a : a = [asked[k] EXCEPT !.paid = TRUE]
  OBVIOUS
<1>3. /\ a \in Asking /\ a.told = asked[k].told /\ a.refused = asked[k].refused
      /\ a.invoice = asked[k].invoice
  BY <1>1, <1>2 DEF Asking
<1>4. asked' = [asked EXCEPT ![k] = a]
  BY <1>2 DEF WalletPays
<1>5. /\ asked' \in Seq(Asking) /\ DOMAIN asked' = DOMAIN asked
      /\ \A j \in DOMAIN asked : asked'[j] = IF j = k THEN a ELSE asked[j]
  BY <1>3, <1>4, OneMarked
<1>6. PanelTypeOK'
  BY <1>5 DEF WalletPays, PanelInv, PanelTypeOK
<1>7. RefusedIsUnpaid'
  BY <1>3, <1>5 DEF WalletPays, PanelInv, RefusedIsUnpaid
<1>8. ASSUME ~strayed' PROVE OneInvoice'
  <2>1. OneInvoice /\ UNCHANGED <<pending, panel>>
    BY <1>8 DEF WalletPays, PanelInv
  <2> QED BY <1>3, <1>5, <2>1 DEF OneInvoice, Alive, Calls
<1> QED BY <1>6, <1>7, <1>8 DEF PanelInv

LEMMA TellsInv ==
    ASSUME PanelInv, NEW k \in DOMAIN asked,
           NEW answer \in {"proof", "refused", "garbled", "timeout"}, Tells(k, answer)
    PROVE  PanelInv'
<1>1. asked[k] \in Asking /\ asked[k].told = "waiting"
  BY ElementOfSeq, LenProperties DEF Tells, PanelInv, PanelTypeOK
<1>2. PICK a : a = [asked[k] EXCEPT !.told = Meaning(answer), !.refused = (answer = "refused")]
  OBVIOUS
<1>3. /\ a \in Asking /\ a.paid = asked[k].paid /\ a.invoice = asked[k].invoice
      /\ a.told = Meaning(answer) /\ a.refused = (answer = "refused")
      /\ a.told \in {"paid", "failed", "unknown"}
      /\ a.told = "failed" => answer = "refused"
  BY <1>1, <1>2 DEF Asking, Meaning
<1>4. asked' = [asked EXCEPT ![k] = a]
  BY <1>2 DEF Tells
<1>5. /\ asked' \in Seq(Asking) /\ DOMAIN asked' = DOMAIN asked
      /\ \A j \in DOMAIN asked : asked'[j] = IF j = k THEN a ELSE asked[j]
  BY <1>3, <1>4, OneMarked
<1>5a. \/ /\ a.told = "paid" /\ panel' = [panel EXCEPT !.busy = "settle"]
         /\ pending' = pending \cup {Settling(FALSE, a.invoice)}
      \/ /\ a.told = "failed" /\ panel' = [panel EXCEPT !.busy = "no"]
         /\ pending' = pending
      \/ /\ a.told = "unknown" /\ pending' = pending
         /\ panel' = [panel EXCEPT !.unknown = TRUE, !.unknownFor = a.invoice, !.busy = "no"]
  <2>1. /\ a.told = "paid" => /\ panel' = [panel EXCEPT !.busy = "settle"]
                              /\ pending' = pending \cup {Settling(FALSE, a.invoice)}
        /\ a.told = "failed" => panel' = [panel EXCEPT !.busy = "no"] /\ pending' = pending
    BY <1>3 DEF Tells
  <2>2. a.told = "unknown" =>
          /\ panel' = [panel EXCEPT !.unknown = TRUE, !.unknownFor = a.invoice, !.busy = "no"]
          /\ pending' = pending
    BY <1>3 DEF Tells
  <2> QED BY <1>3, <2>1, <2>2
<1>6. /\ panel' \in PanelState /\ panel'.offer = panel.offer
      /\ IF a.told = "unknown" THEN panel'.unknown /\ panel'.unknownFor = a.invoice
         ELSE panel'.unknown = panel.unknown /\ panel'.unknownFor = panel.unknownFor
  <2>1. a.invoice \in Offer /\ panel \in PanelState
    BY <1>3 DEF PanelInv, PanelTypeOK, Asking
  <2> QED BY <1>5a, <2>1 DEF PanelState
<1>7. /\ pending' \subseteq PayCall
      /\ Calls("instruct")' = Calls("instruct")
  <2>1. Settling(FALSE, a.invoice) \in PayCall /\ pending \subseteq PayCall
    BY <1>3 DEF Settling, PayCall, Asking, PanelInv, PanelTypeOK
  <2>2. Settling(FALSE, a.invoice).call = "settle"
    BY DEF Settling
  <2> QED BY <1>5a, <2>1, <2>2 DEF Calls
<1>8. PanelTypeOK'
  BY <1>5, <1>6, <1>7 DEF Tells, PanelInv, PanelTypeOK
<1>9. RefusedIsUnpaid'
  BY <1>3, <1>5 DEF Tells, MayAnswer, PanelInv, RefusedIsUnpaid
<1>10. ASSUME ~strayed' PROVE OneInvoice'
  <2>1. OneInvoice
    BY <1>10 DEF Tells, PanelInv
  <2>2. \A j \in DOMAIN asked : asked'[j].invoice = asked[j].invoice /\ (Alive(j)' => Alive(j))
    BY <1>1, <1>3, <1>5 DEF Alive
  <2>3. \A j, l \in DOMAIN asked' :
          Alive(j)' /\ Alive(l)' => asked'[j].invoice = asked'[l].invoice
    BY <1>5, <2>1, <2>2 DEF OneInvoice
  <2>4. ASSUME NEW j \in DOMAIN asked', asked'[j].told = "unknown"
        PROVE  panel'.unknown /\ panel'.unknownFor = asked'[j].invoice
    <3>1. Alive(j) /\ Alive(k)
      BY <1>1, <1>5, <2>2, <2>4 DEF Alive
    <3>2. asked[j].invoice = a.invoice /\ asked'[j].invoice = a.invoice
      BY <1>3, <1>5, <2>1, <2>2, <3>1 DEF OneInvoice
    <3>3. CASE j = k
      BY <1>5, <1>6, <2>4, <3>2, <3>3
    <3>4. CASE j # k
      BY <1>5, <1>6, <2>1, <2>4, <3>2, <3>4 DEF OneInvoice
    <3> QED BY <3>3, <3>4
  <2>5. ASSUME NEW j \in DOMAIN asked'
        PROVE  /\ asked'[j].told # "lost"
               /\ asked'[j].told \in {"waiting", "paid"} =>
                    panel'.offer \in {Nothing, asked'[j].invoice} /\ Calls("instruct")' = {}
    BY <1>1, <1>3, <1>5, <1>6, <1>7, <2>1, <2>2 DEF OneInvoice
  <2> QED BY <1>6, <1>7, <2>1, <2>3, <2>4, <2>5 DEF OneInvoice
<1> QED BY <1>8, <1>9, <1>10 DEF PanelInv

\* Nothing is under way in a panel just opened, and what was has strayed.
LEMMA ReopenInv ==
    ASSUME PanelInv, Reopen
    PROVE  PanelInv'
<1>1. asked \in Seq(Asking) /\ DOMAIN asked = 1..Len(asked) /\ Len(asked) \in Nat
  BY LenProperties DEF PanelInv, PanelTypeOK
<1>2. \A k \in 1..Len(asked) : asked[k] \in Asking
  BY <1>1, ElementOfSeq
<1>3. \A k \in 1..Len(asked) : [asked[k] EXCEPT !.told = "lost"] \in Asking
  BY <1>2 DEF Asking
<1>4. asked' = [k \in 1..Len(asked) |-> IF asked[k].told = "waiting"
                                         THEN [asked[k] EXCEPT !.told = "lost"]
                                         ELSE asked[k]]
  BY <1>1 DEF Reopen
<1>5. asked' \in Seq(Asking) /\ DOMAIN asked' = DOMAIN asked
  BY <1>1, <1>2, <1>3, <1>4, SeqDef
<1>6. panel' \in PanelState /\ pending' = {}
  BY DEF Reopen, PanelInv, PanelTypeOK, PanelState, Closed
<1>7. PanelTypeOK'
  BY <1>5, <1>6 DEF Reopen, PanelInv, PanelTypeOK
<1>8. RefusedIsUnpaid'
  BY <1>1, <1>2, <1>4 DEF PanelInv, RefusedIsUnpaid, Asking
<1>9. ASSUME ~strayed' PROVE OneInvoice'
  <2>1. asked = <<>>
    BY <1>9 DEF Reopen
  <2>2. DOMAIN asked' = {}
    BY <1>1, <1>5, <2>1, EmptySeq
  <2>3. Calls("instruct")' = {}
    BY <1>6 DEF Calls
  <2> QED BY <2>2, <2>3 DEF OneInvoice
<1> QED BY <1>7, <1>8, <1>9 DEF PanelInv

\* What only records a payment, reads the ride or leaves a rail.
LEMMA RecordsInv ==
    ASSUME PanelInv,
           \/ Back \/ DoSettle \/ Refresh \/ FareRises
           \/ \E c \in pending : InstructFails(c) \/ Settled(c) \/ SettleFails(c)
    PROVE  PanelInv'
<1> USE DEF PanelInv, PanelTypeOK, PanelState
<1>1. CASE Back
  BY <1>1, NothingAsked DEF Back, Calls
<1>2. CASE DoSettle
  <2>1. PICK i \in {Nothing} \cup {asked[k].invoice : k \in {j \in DOMAIN asked : asked[j].paid}} :
          pending' = pending \cup {Settling(panel.rail \in Direct, i)}
    BY <1>2 DEF DoSettle
  <2>2. i \in Offer \cup {Nothing}
    <3>1. \A k \in DOMAIN asked : asked[k] \in Asking
      BY ElementOfSeq, LenProperties
    <3>2. \A k \in DOMAIN asked : asked[k].invoice \in Offer
      BY <3>1 DEF Asking
    <3> QED BY <2>1, <3>2
  <2>3. Settling(panel.rail \in Direct, i) \in PayCall
    BY <2>2 DEF Settling, PayCall
  <2>4. Calls("instruct")' = Calls("instruct")
    BY <2>1 DEF Settling, Calls
  <2> QED BY <1>2, <2>1, <2>3, <2>4, NothingAsked DEF DoSettle
<1>3. CASE Refresh
  BY <1>3, NothingAsked DEF Refresh, Calls
<1>4. CASE FareRises
  BY <1>4, NothingAsked DEF FareRises, Calls
<1>5. ASSUME NEW c \in pending, InstructFails(c) \/ Settled(c) \/ SettleFails(c)
      PROVE  PanelInv'
  <2>1. /\ owed' \in Nat /\ settlement' \in {"open", "recorded"} /\ pending' \subseteq PayCall
        /\ UNCHANGED <<asked, strayed>>
    BY <1>5 DEF InstructFails, Settled, SettleFails, Recording
  <2>2. /\ panel' \in PanelState /\ panel'.offer = panel.offer
        /\ panel'.unknown = panel.unknown /\ panel'.unknownFor = panel.unknownFor
    BY <1>5 DEF InstructFails, Settled, SettleFails
  <2>3. Calls("instruct")' \subseteq Calls("instruct")
    BY <1>5 DEF InstructFails, Settled, SettleFails, Calls
  <2> QED BY <2>1, <2>2, <2>3, NothingAsked
<1> QED BY <1>1, <1>2, <1>3, <1>4, <1>5

LEMMA PanelNextInv == PanelInv /\ [PayNext]_payVars => PanelInv'
<1> SUFFICES ASSUME PanelInv, [PayNext]_payVars PROVE PanelInv'
  OBVIOUS
<1>1. CASE PayNext
  BY <1>1, SelectRailInv, InstructedInv, PayWithNwcInv, WalletPaysInv, TellsInv, ReopenInv,
     RecordsInv DEF PayNext
<1>2. CASE UNCHANGED payVars
  BY <1>2, NothingAsked DEF payVars, PanelInv, PanelTypeOK, Calls
<1> QED BY <1>1, <1>2

LEMMA PanelInitInv == PayInit => PanelInv
<1> SUFFICES ASSUME PayInit PROVE PanelInv
  OBVIOUS
<1>1. asked \in Seq(Asking) /\ DOMAIN asked = {}
  BY EmptySeq, LenProperties DEF PayInit
<1>2. Calls("instruct") = {}
  BY DEF PayInit, Calls
<1>3. PanelTypeOK
  BY <1>1 DEF PayInit, PanelTypeOK, PanelState, Closed
<1> QED BY <1>1, <1>2, <1>3 DEF PanelInv, RefusedIsUnpaid, OneInvoice

LEMMA PanelIsSound == PaySpec => []PanelInv
BY PanelInitInv, PanelNextInv, PTL DEF PaySpec

\* For any number of payments asked of the wallet and any answers of it, one the panel
\* calls failed was not made and never will be (payInvoiceViaNwc).
THEOREM FailedIsUnpaid == PaySpec => []FailedMeansUnpaid
<1>1. PanelInv => FailedMeansUnpaid
  BY DEF PanelInv, RefusedIsUnpaid, FailedMeansUnpaid
<1> QED BY <1>1, PanelIsSound, PTL

\* For any rails, any number of taps and any rise of the fare, a payer who does not
\* stray pays one invoice at most (handlePayWithNwc).
THEOREM PaidOnce == PaySpec => []PaysOnce
<1>1. PanelInv => PaysOnce
  <2> SUFFICES ASSUME PanelInv, ~strayed PROVE PaysOnce
    BY DEF PaysOnce
  <2> DEFINE paid == {j \in DOMAIN asked : asked[j].paid}
             Paying == {asked[k].invoice : k \in paid}
  <2>1. \A k \in paid : Alive(k)
    BY DEF PanelInv, RefusedIsUnpaid, Alive
  <2>2. \A i, j \in Paying : i = j
    BY <2>1 DEF PanelInv, OneInvoice
  <2>3. CASE Paying = {}
    BY <2>3, FS_EmptySet DEF PaysOnce
  <2>4. CASE Paying # {}
    <3>1. PICK i : Paying = {i}
      BY <2>2, <2>4
    <3>2. Cardinality(Paying) = 1
      BY <3>1, FS_Singleton
    <3> QED BY <3>2 DEF PaysOnce
  <2> QED BY <2>3, <2>4
<1> QED BY <1>1, PanelIsSound, PTL

-----------------------------------------------------------------------------
(* The stakes of a session.                                                *)

SessFunds == {"none", "open", "held", "settled", "cancelled"}

\* All rails in use are of one trust model, hence all instant or none.
Instant == InstantLock(current)

Alike == \A n \in DOMAIN rails : InstantLock(rails[n]) <=> Instant

RecordOwned ==
    \A p \in Rail, role \in StakeRole :
        record[p][role] # None => RoleOf(Owner[record[p][role]]) = role

\* What the locals r of a handler in flight are good for, on any rail.
InFlight(r) ==
    /\ r.op \in {"stake", "confirm"} =>
         /\ r.at \in Invoice
         /\ RoleOf(r.by) = "driver" => "rider" \in session.locked
    /\ r.op = "stake" =>
         /\ Owner[r.at] = r.by
         /\ r.try # <<>>
         /\ \A n \in DOMAIN r.try : InstantLock(r.try[n]) <=> Instant
    /\ r.op \in {"complete", "cancel"} =>
         /\ Len(r.calls) \in 1..2
         /\ r.at # None => RoleOf(Owner[r.at]) = Head(r.calls).role
    /\ r.op = "cancel" =>
         \A n \in DOMAIN r.calls :
             r.calls[n].do = "forfeit" => \E party \in quit : RoleOf(party) = r.calls[n].role

\* No two requests ask for one stake, and none for one that was asked for.
FreshStakes ==
    \A q \in Req : Doing(q, "stake") =>
        /\ invoice[req[q].at] = "none"
        /\ \A p \in Req : p # q /\ Doing(p, "stake") => req[p].at # req[q].at

\* A session gets a driver, and on to the next status, only on the stakes before.
LockedSoFar ==
    /\ session.driver # None => "rider" \in session.locked
    /\ session.status = "waiting_driver" => "rider" \in session.locked
    /\ session.status = "active" => session.locked = StakeRole

\* The role's stake is on record with the rail it is routed to, and still there.
Held(role) == routing[role] # None /\ Found(role) # None /\ invoice[Found(role)] = "held"

Ending(q) == Doing(q, "complete") \/ Doing(q, "cancel")

\* The calls a handler has yet to make of an instant rail are of stakes it has.
CallsAreHeld(r) ==
    /\ r.ok
    /\ r.at = Found(Head(r.calls).role)
    /\ \A n \in DOMAIN r.calls : Held(r.calls[n].role)
    /\ \A m, n \in DOMAIN r.calls : m # n => r.calls[m].role # r.calls[n].role

\* A record-only rail writes down whatever it is told, so there the order holds
\* because nothing overlaps: until a handler ends the session, all stakes are there.
OneAtATime ==
    Instant =>
        /\ \A p, q \in Req : ~Idle(p) /\ ~Idle(q) => p = q
        /\ \A role \in StakeRole : session.invoice[role] = None
        /\ \A q \in Req : ~Doing(q, "confirm")
        /\ \A q \in Req : Doing(q, "stake") => RoleOf(req[q].by) \notin session.locked
        /\ \A q \in Req : Ending(q) => CallsAreHeld(req[q])
        /\ live /\ (\A q \in Req : ~Ending(q)) => \A role \in session.locked : Held(role)

SessInv ==
    /\ SessionTypeOK
    /\ Alike
    /\ RecordOwned
    /\ RoutedToIssuer
    /\ \A q \in Req : ~Idle(q) => InFlight(req[q])
    /\ FreshStakes
    /\ LockedSoFar
    /\ OneAtATime

Allowed == E!Next \/ UNCHANGED <<invoice, quit>>

\* What a step leaves alone of what handlers depend on.
Keeps ==
    /\ rails' = rails
    /\ Instant' <=> Instant
    /\ session.locked \subseteq session'.locked
    /\ quit \subseteq quit'

\* No stake becomes one that was asked for.
IssuesNone == \A i \in Invoice : invoice[i] = "none" => invoice'[i] = "none"

LEMMA StillUnissued ==
    ASSUME SessInv, IssuesNone
    PROVE  \A p \in Req : Doing(p, "stake") => invoice'[req[p].at] = "none"
BY DEF SessInv, FreshStakes, IssuesNone, Doing, InFlight

\* A handler's answer, call or return leaves the others' locals good.
LEMMA OneRequest ==
    ASSUME SessInv, Keeps, NEW q \in Req, NEW r, req' = [req EXCEPT ![q] = r],
           \A p \in Req : p # q /\ Doing(p, "stake") => invoice'[req[p].at] = "none",
           \/ r = None
           \/ /\ r \in Request /\ InFlight(r)'
              /\ r.op = "stake" =>
                   /\ invoice'[r.at] = "none"
                   /\ \A p \in Req : p # q /\ Doing(p, "stake") => req[p].at # r.at
    PROVE  /\ req' \in [Req -> Request \cup {None}]
           /\ \A p \in Req : req'[p] = IF p = q THEN r ELSE req[p]
           /\ (\A p \in Req : ~Idle(p) => InFlight(req[p]))'
           /\ FreshStakes'
<1>1. /\ req' \in [Req -> Request \cup {None}]
      /\ \A p \in Req : req'[p] = IF p = q THEN r ELSE req[p]
  BY DEF SessInv, SessionTypeOK
<1>2. ASSUME NEW p \in Req, ~Idle(p)' PROVE InFlight(req[p])'
  <2>1. CASE p = q
    BY <1>1, <1>2, <2>1 DEF Idle, InFlight
  <2>2. CASE p # q
    <3>1. InFlight(req[p]) /\ req'[p] = req[p]
      BY <1>1, <1>2, <2>2 DEF SessInv, Idle
    <3> QED BY <3>1 DEF InFlight, Keeps
  <2> QED BY <2>1, <2>2
<1>3. FreshStakes'
  <2>1. ASSUME NEW p \in Req, Doing(p, "stake")'
        PROVE  /\ invoice'[req'[p].at] = "none"
               /\ \A o \in Req : o # p /\ Doing(o, "stake")' => req'[o].at # req'[p].at
    BY <1>1, <2>1 DEF Doing, Idle, SessInv, FreshStakes
  <2> QED BY <2>1 DEF FreshStakes
<1> QED BY <1>1, <1>2, <1>3

\* A step of no handler, likewise.
LEMMA NoRequest ==
    ASSUME SessInv, Keeps, IssuesNone, UNCHANGED req
    PROVE  /\ (\A p \in Req : ~Idle(p) => InFlight(req[p]))'
           /\ FreshStakes'
<1>1. ASSUME NEW p \in Req, ~Idle(p)' PROVE InFlight(req[p])'
  <2>1. InFlight(req[p])
    BY <1>1 DEF SessInv, Idle
  <2> QED BY <2>1 DEF InFlight, Keeps
<1>2. FreshStakes'
  BY StillUnissued DEF SessInv, FreshStakes, Doing, Idle
<1> QED BY <1>1, <1>2

\* A handler starts with nothing but who asked.
LEMMA LocalIsRequest ==
    ASSUME NEW op \in {"stake", "confirm", "complete", "cancel"}, NEW party \in StakeParty
    PROVE  /\ Local(op, party) \in Request
           /\ Local(op, party).op = op /\ Local(op, party).by = party
           /\ Local(op, party).ok = TRUE
BY EmptySeq DEF Local, Request

\* A stake that is there stays while its rail and its money do.
LEMMA HeldStays ==
    ASSUME NEW role \in StakeRole, Held(role), UNCHANGED <<routing, record>>,
           invoice'[Found(role)] = invoice[Found(role)]
    PROVE  Held(role)' /\ Found(role)' = Found(role)
<1>1. Found(role)' = Found(role)
  BY DEF Held, Found, StakeRail
<1> QED BY <1>1 DEF Held

\* While no held stake moves, an instant rail's stakes stay, and the calls to it.
LEMMA CallsStay ==
    ASSUME SessInv, UNCHANGED <<routing, record>>,
           \A i \in Invoice : invoice[i] = "held" => invoice'[i] = "held"
    PROVE  /\ \A role \in StakeRole : Held(role) => Held(role)'
           /\ \A q \in Req : Ending(q) /\ CallsAreHeld(req[q]) =>
                \A r : r = req[q] => CallsAreHeld(r)'
<1>1. ASSUME NEW role \in StakeRole, Held(role) PROVE Held(role)' /\ Found(role)' = Found(role)
  <2>1. Found(role) \in Invoice
    BY <1>1 DEF Held, Found, StakeRail, SessInv, SessionTypeOK
  <2> QED BY <1>1, <2>1, HeldStays DEF Held
<1>2. ASSUME NEW q \in Req, Ending(q), CallsAreHeld(req[q]), NEW r, r = req[q]
      PROVE  CallsAreHeld(r)'
  <2>1. r.calls \in Seq(Call) /\ Len(r.calls) \in 1..2
    BY <1>2 DEF Ending, Doing, Idle, SessInv, SessionTypeOK, InFlight, Request
  <2>2. \A n \in DOMAIN r.calls : r.calls[n].role \in StakeRole
    <3>1. \A n \in DOMAIN r.calls : r.calls[n] \in Call
      BY <2>1, ElementOfSeq, LenProperties
    <3> QED BY <3>1 DEF Call
  <2>3. Head(r.calls) = r.calls[1] /\ 1 \in DOMAIN r.calls
    BY <2>1, LenProperties
  <2> QED BY <1>1, <1>2, <2>2, <2>3 DEF CallsAreHeld
<1> QED BY <1>1, <1>2

\* The same for all handlers, in a step of none of them.
LEMMA NothingCalled ==
    ASSUME SessInv, UNCHANGED <<routing, record, live, req>>, Instant' <=> Instant,
           session'.locked = session.locked, session'.invoice = session.invoice,
           \A i \in Invoice : invoice[i] = "held" => invoice'[i] = "held"
    PROVE  OneAtATime'
<1> SUFFICES ASSUME Instant PROVE OneAtATime'
  BY DEF OneAtATime
<1>1. OneAtATime /\ session.locked \subseteq StakeRole
  BY DEF SessInv, SessionTypeOK, Session
<1>2. \A q \in Req : Ending(q)' => CallsAreHeld(req[q])'
  BY <1>1, CallsStay DEF OneAtATime, Ending, Doing, Idle
<1>3. live' /\ (\A q \in Req : ~Ending(q)') => \A role \in session'.locked : Held(role)'
  BY <1>1, CallsStay DEF OneAtATime, Ending, Doing, Idle
<1> QED BY <1>1, <1>2, <1>3 DEF OneAtATime, Doing, Idle

LEMMA StakeInv ==
    ASSUME SessInv, NEW q \in Req, NEW party \in StakeParty, NEW i \in Invoice,
           Stake(q, party, i)
    PROVE  SessInv' /\ Allowed
<1> USE DEF SessInv
<1>1. PICK r : r = [Local("stake", party) EXCEPT !.try = rails, !.at = i]
  OBVIOUS
<1>2. /\ r \in Request /\ r.op = "stake" /\ r.by = party /\ r.try = rails /\ r.at = i
  <2>1. PICK start : start = Local("stake", party)
    OBVIOUS
  <2>2. start \in Request /\ start.op = "stake" /\ start.by = party
    BY <2>1, LocalIsRequest
  <2>3. r = [start EXCEPT !.try = rails, !.at = i]
    BY <1>1, <2>1
  <2> QED BY <2>2, <2>3 DEF Request, SessionTypeOK
<1>3. /\ req' = [req EXCEPT ![q] = r]
      /\ UNCHANGED <<rails, current, routing, record, invoice, session, live, quit>>
  BY <1>1 DEF Stake, manager
<1>4. Keeps /\ IssuesNone
  BY <1>3 DEF Keeps, IssuesNone, Instant
<1>5. InFlight(r)'
  <2>1. RoleOf(party) = "driver" => "rider" \in session.locked
    <3>1. RoleOf(party) = "driver" => party = session.driver /\ party # None
      BY SessionAssumption DEF Stake, KnownParty, RoleOf
    <3> QED BY <3>1 DEF LockedSoFar
  <2> QED BY <1>2, <1>3, <2>1 DEF InFlight, Stake, SessionTypeOK, Alike, Instant
<1>6. /\ req' \in [Req -> Request \cup {None}]
      /\ \A p \in Req : req'[p] = IF p = q THEN r ELSE req[p]
      /\ (\A p \in Req : ~Idle(p) => InFlight(req[p]))'
      /\ FreshStakes'
  <2>1. /\ invoice'[r.at] = "none"
        /\ \A p \in Req : p # q /\ Doing(p, "stake") => req[p].at # r.at
    BY <1>2, <1>3 DEF Stake
  <2> QED BY <1>2, <1>3, <1>4, <1>5, <2>1, StillUnissued, OneRequest
<1>7. /\ SessionTypeOK' /\ Alike' /\ RecordOwned' /\ RoutedToIssuer' /\ LockedSoFar'
  BY <1>3, <1>6 DEF SessionTypeOK, Alike, Instant, RecordOwned, RoutedToIssuer, LockedSoFar
<1>8. OneAtATime'
  <2> SUFFICES ASSUME Instant PROVE OneAtATime'
    BY <1>3 DEF OneAtATime, Instant
  <2>1. \A p \in Req : Idle(p)
    BY DEF Stake, Arrives, Instant
  <2>2. \A p \in Req : ~Idle(p)' => p = q
    BY <1>6, <2>1 DEF Idle
  <2>3. \A p \in Req : ~Doing(p, "confirm")' /\ ~Ending(p)'
    BY <1>2, <1>6, <2>2 DEF Doing, Ending
  <2>4. RoleOf(r.by) \notin session.locked
    BY <1>2 DEF Stake
  <2>5. live /\ \A p \in Req : ~Ending(p)
    BY <2>1 DEF Stake, Arrives, Ending, Doing
  <2>6. \A role \in session'.locked : Held(role)'
    BY <1>3, <2>5 DEF OneAtATime, Held, Found, StakeRail
  <2> QED BY <1>3, <1>6, <2>2, <2>3, <2>4, <2>6 DEF OneAtATime, Doing
<1> QED BY <1>3, <1>6, <1>7, <1>8 DEF Allowed

\* The rail being tried has the stake.
LEMMA StakedInv ==
    ASSUME SessInv, NEW q \in Req, StakeAnswered(q, TRUE)
    PROVE  SessInv' /\ Allowed
<1> USE DEF SessInv
<1>1. PICK r : r = req[q]
  OBVIOUS
<1>2. PICK p : p = Head(r.try)
  OBVIOUS
<1>3. PICK role : role = RoleOf(r.by)
  OBVIOUS
<1>4. /\ r \in Request /\ r.op = "stake" /\ r.at \in Invoice /\ Owner[r.at] = r.by
      /\ invoice[r.at] = "none" /\ role \in StakeRole /\ r.at # None
      /\ role = "driver" => "rider" \in session.locked
      /\ Doing(q, "stake")
  BY <1>1, <1>3, SessionAssumption
     DEF StakeAnswered, Doing, Idle, SessionTypeOK, InFlight, FreshStakes, RoleOf, StakeRole
<1>5. p \in Rail /\ (InstantLock(p) <=> Instant) /\ p # None
  <2>1. r.try \in Seq(Rail) /\ r.try # <<>>
    BY <1>1, <1>4 DEF Request, InFlight, Doing
  <2>2. p = r.try[1] /\ 1 \in DOMAIN r.try /\ p \in Rail
    BY <1>2, <2>1, HeadTailProperties, EmptySeq, LenProperties
  <2>3. InstantLock(p) <=> Instant
    BY <1>1, <1>4, <2>2 DEF InFlight, Doing
  <2>4. p # None
    BY <2>2, SessionAssumption
  <2> QED BY <2>2, <2>3, <2>4
<1>6. PICK to : to = IF Instant THEN "held" ELSE "open"
  OBVIOUS
<1>7. /\ current' = p
      /\ routing' = [routing EXCEPT ![role] = p]
      /\ record' = [record EXCEPT ![p][role] = r.at]
      /\ invoice' = [invoice EXCEPT ![r.at] = to]
      /\ session' = LockedAt(role, r.at, p)
      /\ req' = [req EXCEPT ![q] = None]
      /\ UNCHANGED <<rails, live, quit>>
  BY <1>1, <1>2, <1>3, <1>5, <1>6 DEF StakeAnswered, Routed, Returns
<1>8. /\ invoice' \in [Invoice -> SessFunds] /\ invoice'[r.at] = to
      /\ \A i \in Invoice : i # r.at => invoice'[i] = invoice[i]
  BY <1>4, <1>6, <1>7 DEF SessionTypeOK, SessFunds
<1>9. /\ record' \in [Rail -> [StakeRole -> Invoice \cup {None}]]
      /\ \A o \in Rail, each \in StakeRole :
           record'[o][each] = IF o = p /\ each = role THEN r.at ELSE record[o][each]
  BY <1>4, <1>5, <1>7 DEF SessionTypeOK
<1>10. /\ routing' \in [StakeRole -> Rail \cup {None}]
       /\ \A each \in StakeRole : routing'[each] = IF each = role THEN p ELSE routing[each]
  BY <1>4, <1>5, <1>7 DEF SessionTypeOK
<1>11. /\ session' \in Session /\ session'.driver = session.driver
       /\ Instant =>
            /\ session'.locked = session.locked \cup {role}
            /\ session'.invoice = session.invoice
            /\ session'.status = IF role = "rider" THEN "waiting_driver" ELSE "active"
       /\ ~Instant =>
            /\ session'.locked = session.locked
            /\ \A each \in StakeRole :
                 session'.invoice[each] = IF each = role THEN r.at ELSE session.invoice[each]
            /\ session'.status \notin {"waiting_driver", "active"}
  <2>1. CASE Instant
    <3>1. session' = [session EXCEPT
                         !.status = IF role = "rider" THEN "waiting_driver" ELSE "active",
                         !.locked = session.locked \cup {role}]
      BY <1>5, <1>7, <2>1 DEF LockedAt
    <3> QED BY <1>4, <2>1, <3>1 DEF SessionTypeOK, Session, Status
  <2>2. CASE ~Instant
    <3>1. PICK shown : shown = [session.invoice EXCEPT ![role] = r.at]
      OBVIOUS
    <3>2. /\ shown \in [StakeRole -> Invoice \cup {None}]
          /\ \A each \in StakeRole :
               shown[each] = IF each = role THEN r.at ELSE session.invoice[each]
      BY <1>4, <3>1 DEF SessionTypeOK, Session
    <3>3. session' = [session EXCEPT
                         !.status = IF role = "rider" THEN "waiting_rider_stake_payment"
                                                      ELSE "waiting_driver_stake_payment",
                         !.invoice = shown]
      BY <1>5, <1>7, <2>2, <3>1 DEF LockedAt
    <3> QED BY <2>2, <3>2, <3>3 DEF SessionTypeOK, Session, Status
  <2> QED BY <2>1, <2>2
<1>12. Keeps
  BY <1>5, <1>7, <1>11 DEF Keeps, Instant, InstantLock
<1>13. /\ req' \in [Req -> Request \cup {None}]
       /\ \A o \in Req : req'[o] = IF o = q THEN None ELSE req[o]
       /\ (\A o \in Req : ~Idle(o) => InFlight(req[o]))'
       /\ FreshStakes'
  <2>1. \A o \in Req : o # q /\ Doing(o, "stake") => invoice'[req[o].at] = "none"
    BY <1>1, <1>4, <1>8 DEF FreshStakes, Doing, InFlight
  <2> QED BY <1>7, <1>12, <2>1, OneRequest
<1>14. SessionTypeOK' /\ Alike'
  BY <1>5, <1>7, <1>8, <1>9, <1>10, <1>11, <1>12, <1>13
     DEF SessionTypeOK, SessFunds, Alike, Keeps
<1>15. RecordOwned'
  BY <1>3, <1>4, <1>9 DEF RecordOwned
<1>16. RoutedToIssuer'
  <2> SUFFICES ASSUME NEW each \in StakeRole, session'.invoice[each] # None
               PROVE  /\ routing'[each] # None
                      /\ record'[routing'[each]][each] = session'.invoice[each]
    BY DEF RoutedToIssuer
  <2>1. ~Instant
    BY <1>11 DEF OneAtATime
  <2>2. CASE each = role
    BY <1>4, <1>5, <1>9, <1>10, <1>11, <2>1, <2>2
  <2>3. CASE each # role
    <3>1. session.invoice[each] # None /\ session'.invoice[each] = session.invoice[each]
      BY <1>11, <2>1, <2>3
    <3>2. routing[each] \in Rail /\ record[routing[each]][each] = session.invoice[each]
      BY <3>1 DEF RoutedToIssuer, SessionTypeOK
    <3> QED BY <1>9, <1>10, <2>3, <3>1, <3>2, SessionAssumption
  <2> QED BY <2>2, <2>3
<1>17. LockedSoFar'
  BY <1>4, <1>11 DEF LockedSoFar, StakeRole, SessionTypeOK, Session
<1>18. OneAtATime'
  <2> SUFFICES ASSUME Instant PROVE OneAtATime'
    BY <1>12 DEF OneAtATime, Keeps
  <2>1. \A o \in Req : Idle(o)'
    BY <1>4, <1>13 DEF OneAtATime, Idle, Doing
  <2>2. role \notin session.locked /\ \A o \in Req : ~Ending(o)
    BY <1>1, <1>3, <1>4 DEF OneAtATime, Ending, Doing, Idle
  <2>3. ASSUME live', NEW each \in session'.locked PROVE Held(each)'
    <3>1. CASE each = role
      BY <1>4, <1>5, <1>6, <1>8, <1>9, <1>10, <3>1 DEF Held, Found, StakeRail, InstantLock
    <3>2. CASE each # role
      <4>1. Held(each) /\ each \in StakeRole
        BY <1>7, <1>11, <2>2, <2>3, <3>2 DEF OneAtATime, SessionTypeOK, Session
      <4>2. routing[each] \in Rail /\ routing'[each] = routing[each]
        BY <1>10, <3>2, <4>1 DEF Held, SessionTypeOK
      <4>3. Found(each)' = Found(each) /\ Found(each) \in Invoice
        BY <1>9, <3>2, <4>1, <4>2 DEF Held, Found, StakeRail, SessionTypeOK
      <4> QED BY <1>4, <1>8, <4>1, <4>2, <4>3 DEF Held
    <3> QED BY <3>1, <3>2
  <2> QED BY <1>11, <2>1, <2>3 DEF OneAtATime, Doing, Ending
<1>19. E!Offer(r.at) \/ E!Record(r.at)
  BY <1>4, <1>6, <1>7 DEF E!Offer, E!Record, E!Becomes
<1> QED
  BY <1>4, <1>13, <1>14, <1>15, <1>16, <1>17, <1>18, <1>19 DEF Allowed, E!Next

\* It has not: the next one is tried, if there is one, which never happens to an
\* instant rail.
LEMMA NextRailInv ==
    ASSUME SessInv, NEW q \in Req, StakeAnswered(q, FALSE), ~Instant
    PROVE  SessInv' /\ Allowed
<1> USE DEF SessInv
<1>1. PICK r : r = req[q]
  OBVIOUS
<1>2. PICK next : next = IF Tail(r.try) = <<>> THEN None ELSE [r EXCEPT !.try = Tail(r.try)]
  OBVIOUS
<1>3. /\ req' = [req EXCEPT ![q] = next]
      /\ UNCHANGED <<rails, current, routing, record, invoice, session, live, quit>>
  BY <1>1, <1>2 DEF StakeAnswered
<1>4. /\ r \in Request /\ r.op = "stake" /\ InFlight(r) /\ invoice[r.at] = "none"
      /\ \A p \in Req : p # q /\ Doing(p, "stake") => req[p].at # r.at
  BY <1>1 DEF StakeAnswered, Doing, Idle, SessionTypeOK, FreshStakes
<1>5. Keeps /\ IssuesNone
  BY <1>3 DEF Keeps, IssuesNone, Instant
<1>6. ASSUME next # None
      PROVE  /\ next \in Request /\ next.op = "stake" /\ next.at = r.at /\ InFlight(next)'
  <2>1. r.try \in Seq(Rail) /\ r.try # <<>>
    BY <1>4 DEF Request, InFlight
  <2>2. /\ Tail(r.try) \in Seq(Rail) /\ Tail(r.try) # <<>>
        /\ \A n \in DOMAIN Tail(r.try) : n + 1 \in DOMAIN r.try /\ Tail(r.try)[n] = r.try[n + 1]
    BY <1>2, <1>6, <2>1, HeadTailProperties, LenProperties
  <2>3. next = [r EXCEPT !.try = Tail(r.try)]
    BY <1>2, <1>6
  <2>4. /\ next \in Request /\ next.op = "stake" /\ next.at = r.at /\ next.by = r.by
        /\ next.try = Tail(r.try)
    BY <1>4, <2>2, <2>3 DEF Request
  <2>5. \A n \in DOMAIN next.try : InstantLock(next.try[n]) <=> Instant
    BY <1>4, <2>2, <2>4 DEF InFlight
  <2> QED BY <1>3, <1>4, <2>2, <2>4, <2>5 DEF InFlight, Instant
<1>7. /\ req' \in [Req -> Request \cup {None}]
      /\ (\A p \in Req : ~Idle(p) => InFlight(req[p]))'
      /\ FreshStakes'
  <2>1. \A p \in Req : p # q /\ Doing(p, "stake") => invoice'[req[p].at] = "none"
    BY <1>5, StillUnissued
  <2> QED BY <1>3, <1>4, <1>5, <1>6, <2>1, OneRequest
<1>8. /\ SessionTypeOK' /\ Alike' /\ RecordOwned' /\ RoutedToIssuer' /\ LockedSoFar'
  BY <1>3, <1>7 DEF SessionTypeOK, Alike, Instant, RecordOwned, RoutedToIssuer, LockedSoFar
<1>9. OneAtATime'
  BY <1>3 DEF OneAtATime, Instant
<1> QED BY <1>3, <1>7, <1>8, <1>9 DEF Allowed

\* A driver comes only when no handler of an instant rail is under way.
LEMMA DriverAcceptInv ==
    ASSUME SessInv, NEW party \in Driver, DriverAccept(party)
    PROVE  SessInv' /\ Allowed
<1> USE DEF SessInv
<1>1. /\ session' \in Session
      /\ session'.driver = party /\ session'.locked = session.locked
      /\ session'.invoice = session.invoice /\ session'.status = "waiting_driver_stake"
      /\ "rider" \in session.locked
      /\ UNCHANGED <<rails, current, routing, record, invoice, live, req, quit>>
  BY DEF DriverAccept, manager, SessionTypeOK, Session, Status, LockedSoFar
<1>2. Keeps /\ IssuesNone
  BY <1>1 DEF Keeps, IssuesNone, Instant
<1>3. /\ (\A p \in Req : ~Idle(p) => InFlight(req[p]))' /\ FreshStakes'
  BY <1>1, <1>2, NoRequest
<1>4. /\ SessionTypeOK' /\ Alike' /\ RecordOwned' /\ RoutedToIssuer' /\ LockedSoFar'
  BY <1>1 DEF SessionTypeOK, Alike, Instant, RecordOwned, RoutedToIssuer, LockedSoFar
<1>5. OneAtATime'
  BY <1>1, NothingCalled DEF Instant
<1> QED BY <1>1, <1>3, <1>4, <1>5 DEF Allowed

LEMMA ConfirmInv ==
    ASSUME SessInv, NEW q \in Req, NEW party \in StakeParty, Confirm(q, party)
    PROVE  SessInv' /\ Allowed
<1> USE DEF SessInv
<1>1. PICK at : at = record[current][RoleOf(party)]
  OBVIOUS
<1>2. PICK r : r = [Local("confirm", party) EXCEPT !.at = at]
  OBVIOUS
<1>3. at \in Invoice
  BY <1>1 DEF Confirm, SessionTypeOK, RoleOf, StakeRole
<1>4. /\ r \in Request /\ r.op = "confirm" /\ r.by = party /\ r.at = at
  <2>1. PICK start : start = Local("confirm", party)
    OBVIOUS
  <2>2. start \in Request /\ start.op = "confirm" /\ start.by = party
    BY <2>1, LocalIsRequest
  <2>3. r = [start EXCEPT !.at = at]
    BY <1>2, <2>1
  <2> QED BY <1>3, <2>2, <2>3 DEF Request
<1>5. /\ req' = [req EXCEPT ![q] = r]
      /\ UNCHANGED <<rails, current, routing, record, invoice, session, live, quit>>
  BY <1>1, <1>2 DEF Confirm, manager
<1>6. Keeps /\ IssuesNone
  BY <1>5 DEF Keeps, IssuesNone, Instant
<1>7. InFlight(r)'
  <2>1. RoleOf(party) = "driver" => party = session.driver /\ party # None
    BY SessionAssumption DEF Confirm, KnownParty, RoleOf
  <2> QED BY <1>3, <1>4, <1>5, <2>1 DEF InFlight, LockedSoFar
<1>8. /\ req' \in [Req -> Request \cup {None}]
      /\ (\A p \in Req : ~Idle(p) => InFlight(req[p]))'
      /\ FreshStakes'
  BY <1>4, <1>5, <1>6, <1>7, StillUnissued, OneRequest
<1>9. /\ SessionTypeOK' /\ Alike' /\ RecordOwned' /\ RoutedToIssuer' /\ LockedSoFar'
  BY <1>5, <1>8 DEF SessionTypeOK, Alike, Instant, RecordOwned, RoutedToIssuer, LockedSoFar
<1>10. ~Instant
  BY DEF Confirm, Confirms, Instant, InstantLock
<1> QED BY <1>5, <1>8, <1>9, <1>10 DEF Allowed, OneAtATime, Instant

LEMMA ConfirmAnsweredInv ==
    ASSUME SessInv, NEW q \in Req, NEW works \in BOOLEAN, ConfirmAnswered(q, works)
    PROVE  SessInv' /\ Allowed
<1> USE DEF SessInv
<1>1. PICK role : role = RoleOf(req[q].by)
  OBVIOUS
<1>2. role \in StakeRole /\ (role = "driver" => "rider" \in session.locked)
  BY <1>1 DEF ConfirmAnswered, Doing, InFlight, RoleOf, StakeRole
<1>3. /\ req' = [req EXCEPT ![q] = None]
      /\ UNCHANGED <<rails, current, routing, record, invoice, live, quit>>
  BY DEF ConfirmAnswered, Returns, manager
<1>4. \/ session' = session
      \/ session' = [session EXCEPT
                       !.status = IF role = "rider" THEN "waiting_driver" ELSE "active",
                       !.locked = session.locked \cup {role}]
  <2>1. session' = session
          \/ session' = [session EXCEPT
                           !.status = IF role = "rider" THEN "waiting_driver" ELSE "active",
                           !.locked = @ \cup {role}]
    BY <1>1 DEF ConfirmAnswered
  <2> QED BY <2>1 DEF SessionTypeOK, Session
<1>5. /\ session' \in Session /\ session.locked \subseteq session'.locked
      /\ session'.invoice = session.invoice /\ session'.driver = session.driver
      /\ session' # session =>
           /\ session'.status = IF role = "rider" THEN "waiting_driver" ELSE "active"
           /\ session'.locked = session.locked \cup {role}
  <2>1. CASE session' = session
    BY <2>1 DEF SessionTypeOK
  <2>2. CASE session' = [session EXCEPT
                           !.status = IF role = "rider" THEN "waiting_driver" ELSE "active",
                           !.locked = session.locked \cup {role}]
    BY <1>2, <2>2 DEF SessionTypeOK, Session, Status
  <2> QED BY <1>4, <2>1, <2>2
<1>6. LockedSoFar'
  <2>1. CASE session' = session
    BY <2>1 DEF LockedSoFar
  <2>2. CASE session' # session
    <3>1. session'.status = "active" => session'.locked = StakeRole
      BY <1>2, <1>5, <2>2 DEF SessionTypeOK, Session, StakeRole
    <3> QED BY <1>2, <1>5, <2>2, <3>1 DEF LockedSoFar, StakeRole
  <2> QED BY <2>1, <2>2
<1>7. Keeps /\ IssuesNone
  BY <1>3, <1>5 DEF Keeps, IssuesNone, Instant
<1>8. /\ req' \in [Req -> Request \cup {None}]
      /\ (\A p \in Req : ~Idle(p) => InFlight(req[p]))'
      /\ FreshStakes'
  BY <1>3, <1>7, StillUnissued, OneRequest
<1>9. /\ SessionTypeOK' /\ Alike' /\ RecordOwned' /\ RoutedToIssuer'
  BY <1>3, <1>5, <1>8 DEF SessionTypeOK, Alike, Instant, RecordOwned, RoutedToIssuer
<1>10. ~Instant
  BY DEF OneAtATime, ConfirmAnswered
<1> QED BY <1>3, <1>6, <1>8, <1>9, <1>10 DEF Allowed, OneAtATime, Instant

\* What a rail finds for a role is that role's.
LEMMA FoundIsTheRoles ==
    ASSUME SessInv, NEW role \in StakeRole
    PROVE  /\ Found(role) \in Invoice \cup {None}
           /\ Found(role) # None => RoleOf(Owner[Found(role)]) = role
<1>1. StakeRail(role) \in Rail
  BY DEF StakeRail, SessInv, SessionTypeOK
<1> QED BY <1>1 DEF Found, SessInv, SessionTypeOK, RecordOwned

\* The handler asks for the first of its calls, or the next.
LEMMA AsksFor ==
    ASSUME SessInv, NEW r \in Request, r.op \in {"complete", "cancel"}, Len(r.calls) \in 1..2,
           r.op = "cancel" =>
             \A n \in DOMAIN r.calls :
               r.calls[n].do = "forfeit" => \E party \in quit' : RoleOf(party) = r.calls[n].role,
           NEW next, next = [r EXCEPT !.at = Found(Head(r.calls).role)]
    PROVE  /\ next \in Request /\ InFlight(next)'
           /\ next.op = r.op /\ next.calls = r.calls /\ next.ok = r.ok
           /\ next.at = Found(Head(r.calls).role)
<1>1. PICK role : role = Head(r.calls).role
  OBVIOUS
<1>2. role \in StakeRole
  <2>1. r.calls \in Seq(Call) /\ r.calls # <<>>
    BY EmptySeq DEF Request
  <2>2. Head(r.calls) \in Call
    BY <2>1, HeadTailProperties
  <2> QED BY <1>1, <2>2 DEF Call
<1>3. /\ next \in Request /\ next.op = r.op /\ next.calls = r.calls /\ next.ok = r.ok
      /\ next.at = Found(role)
  BY <1>1, <1>2, FoundIsTheRoles DEF Request
<1>4. next.at # None => RoleOf(Owner[next.at]) = Head(next.calls).role
  BY <1>1, <1>2, <1>3, FoundIsTheRoles
<1>5. InFlight(next)'
  BY <1>3, <1>4 DEF InFlight
<1> QED BY <1>1, <1>3, <1>5

\* A handler of an instant rail sets out to end the session: all it will ask for is
\* there.
LEMMA SetsOut ==
    ASSUME SessInv, Instant, NEW q \in Req, Arrives(q),
           UNCHANGED <<rails, current, routing, record, invoice, session, live>>,
           NEW next \in Request, req' = [req EXCEPT ![q] = next],
           next.op \in {"complete", "cancel"}, next.ok, Len(next.calls) \in 1..2,
           next.at = Found(Head(next.calls).role),
           \A n \in DOMAIN next.calls : next.calls[n].role \in session.locked,
           \A m, n \in DOMAIN next.calls : m # n => next.calls[m].role # next.calls[n].role
    PROVE  OneAtATime'
<1>1. live /\ \A p \in Req : Idle(p)
  BY DEF Arrives, Instant
<1>2. \A p \in Req : req'[p] = IF p = q THEN next ELSE None
  BY <1>1 DEF SessInv, SessionTypeOK, Idle
<1>3. \A role \in session.locked : Held(role)'
  BY <1>1 DEF SessInv, OneAtATime, Ending, Doing, Held, Found, StakeRail
<1>4. CallsAreHeld(next)'
  BY <1>3 DEF CallsAreHeld, Found, StakeRail
<1>5. next # None
  BY SessionAssumption
<1>6. Ending(q)' /\ \A p \in Req : Ending(p)' => req'[p] = next
  BY <1>2, <1>5 DEF Ending, Doing, Idle
<1>7. \A p \in Req : (Ending(p) => CallsAreHeld(req[p]))'
  BY <1>4, <1>6 DEF CallsAreHeld
<1>8. \A p \in Req : ~Doing(p, "stake")' /\ ~Doing(p, "confirm")'
  BY <1>2 DEF Doing, Idle
<1>9. \A o, p \in Req : ~Idle(o)' /\ ~Idle(p)' => o = p
  BY <1>2 DEF Idle
<1>10. Instant' /\ \A role \in StakeRole : session'.invoice[role] = None
  BY DEF Instant, SessInv, OneAtATime
<1> QED BY <1>6, <1>7, <1>8, <1>9, <1>10 DEF OneAtATime

LEMMA CompleteInv ==
    ASSUME SessInv, NEW q \in Req, NEW party \in StakeParty, Complete(q, party)
    PROVE  SessInv' /\ Allowed
<1> USE DEF SessInv
<1>1. PICK asks : asks = <<Release("rider"), Release("driver")>>
  OBVIOUS
<1>2. /\ asks \in Seq(Call) /\ Len(asks) = 2 /\ DOMAIN asks = 1..2
      /\ asks[1].role = "rider" /\ asks[2].role = "driver"
  BY <1>1 DEF Release, Call, StakeRole
<1>3. PICK start : start = Local("complete", party)
  OBVIOUS
<1>4. start \in Request /\ start.op = "complete" /\ start.ok = TRUE
  BY <1>3, LocalIsRequest
<1>5. PICK r : r = [start EXCEPT !.calls = asks]
  OBVIOUS
<1>6. r \in Request /\ r.op = "complete" /\ r.ok = TRUE /\ r.calls = asks
  BY <1>2, <1>4, <1>5 DEF Request
<1>7. PICK next : next = [r EXCEPT !.at = Found(Head(r.calls).role)]
  OBVIOUS
<1>8. /\ req' = [req EXCEPT ![q] = next]
      /\ UNCHANGED <<rails, current, routing, record, invoice, session, live, quit>>
  BY <1>1, <1>3, <1>5, <1>7 DEF Complete, Asks, manager
<1>9. /\ next \in Request /\ InFlight(next)'
      /\ next.op = r.op /\ next.calls = r.calls /\ next.ok = r.ok
      /\ next.at = Found(Head(r.calls).role)
  BY <1>2, <1>6, <1>7, AsksFor
<1>10. Keeps /\ IssuesNone
  BY <1>8 DEF Keeps, IssuesNone, Instant
<1>11. /\ req' \in [Req -> Request \cup {None}]
       /\ (\A p \in Req : ~Idle(p) => InFlight(req[p]))'
       /\ FreshStakes'
  BY <1>6, <1>8, <1>9, <1>10, StillUnissued, OneRequest
<1>12. /\ SessionTypeOK' /\ Alike' /\ RecordOwned' /\ RoutedToIssuer' /\ LockedSoFar'
  BY <1>8, <1>11 DEF SessionTypeOK, Alike, Instant, RecordOwned, RoutedToIssuer, LockedSoFar
<1>13. OneAtATime'
  <2> SUFFICES ASSUME Instant PROVE OneAtATime'
    BY <1>8 DEF OneAtATime, Instant
  <2>1. session.locked = StakeRole /\ Arrives(q)
    BY DEF Complete, LockedSoFar
  <2>2. /\ \A n \in DOMAIN next.calls : next.calls[n].role \in session.locked
        /\ \A m, n \in DOMAIN next.calls :
             m # n => next.calls[m].role # next.calls[n].role
        /\ next.ok /\ next.op = "complete" /\ Len(next.calls) \in 1..2
    BY <1>2, <1>6, <1>9, <2>1 DEF StakeRole
  <2>3. next.at = Found(Head(next.calls).role)
    BY <1>9
  <2> QED BY <1>8, <1>9, <2>1, <2>2, <2>3, SetsOut
<1> QED BY <1>8, <1>11, <1>12, <1>13 DEF Allowed

\* The calls /cancel makes: of sides whose stakes are locked, each once, and a
\* forfeit only of the caller's.
LEMMA PenaltyIsTheCallers ==
    ASSUME SessInv, NEW party \in StakeParty, KnownParty(party), Penalty(party) # <<>>
    PROVE  /\ Penalty(party) \in Seq(Call)
           /\ Len(Penalty(party)) \in 1..2
           /\ \A n \in DOMAIN Penalty(party) :
                /\ Penalty(party)[n].role \in session.locked
                /\ Penalty(party)[n].do = "forfeit" => RoleOf(party) = Penalty(party)[n].role
           /\ \A m, n \in DOMAIN Penalty(party) :
                m # n => Penalty(party)[m].role # Penalty(party)[n].role
<1>1. session.status = "active" => session.locked = StakeRole
  BY DEF SessInv, LockedSoFar
<1>2. CASE session.status = "active" /\ party = session.driver
  <2>1. Penalty(party) = <<Forfeit("driver"), Release("rider")>>
    BY <1>2 DEF Penalty
  <2>2. RoleOf(party) = "driver"
    BY <1>2, SessionAssumption DEF RoleOf, SessInv, SessionTypeOK, Session, StakeParty
  <2> QED BY <1>1, <1>2, <2>1, <2>2 DEF Forfeit, Release, Call, StakeRole
<1>3. CASE session.status = "active" /\ party # session.driver
  <2>1. Penalty(party) = <<Forfeit("rider"), Release("driver")>>
    BY <1>3 DEF Penalty
  <2>2. RoleOf(party) = "rider"
    BY <1>3 DEF RoleOf, KnownParty
  <2> QED BY <1>1, <1>3, <2>1, <2>2 DEF Forfeit, Release, Call, StakeRole
<1>4. CASE session.status # "active"
  <2>1. Penalty(party) = <<Release("rider")>> /\ "rider" \in session.locked
    <3>1. CASE /\ session.status \in {"waiting_driver", "waiting_rider_stake"}
               /\ "rider" \in session.locked
      BY <1>4, <3>1 DEF Penalty
    <3>2. CASE ~ (/\ session.status \in {"waiting_driver", "waiting_rider_stake"}
                  /\ "rider" \in session.locked)
      BY <1>4, <3>2 DEF Penalty
    <3> QED BY <3>1, <3>2
  <2> QED BY <2>1 DEF Release, Call, StakeRole
<1> QED BY <1>2, <1>3, <1>4

LEMMA CancelInv ==
    ASSUME SessInv, NEW q \in Req, NEW party \in StakeParty, Cancel(q, party)
    PROVE  SessInv' /\ Allowed
<1> USE DEF SessInv
<1>1. /\ quit' = quit \cup {party}
      /\ UNCHANGED <<rails, current, routing, record, invoice>>
      /\ Arrives(q) /\ KnownParty(party)
  BY DEF Cancel, manager
<1>2. E!Quit(RoleOf(party))
  BY <1>1 DEF E!Quit
<1>3. RoleOf(party) \in StakeRole
  BY DEF RoleOf, StakeRole
<1>4. CASE Penalty(party) = <<>>
  <2>1. /\ session' = [session EXCEPT !.status = "cancelled"] /\ live' = FALSE
        /\ UNCHANGED req
    BY <1>4 DEF Cancel, Finalizes
  <2>2. /\ session' \in Session /\ session'.status = "cancelled"
        /\ session'.locked = session.locked /\ session'.driver = session.driver
        /\ session'.invoice = session.invoice
    BY <2>1 DEF SessionTypeOK, Session, Status
  <2>3. Keeps /\ IssuesNone
    BY <1>1, <2>2 DEF Keeps, IssuesNone, Instant
  <2>4. (\A p \in Req : ~Idle(p) => InFlight(req[p]))' /\ FreshStakes'
    BY <2>1, <2>3, NoRequest
  <2>5. /\ SessionTypeOK' /\ Alike' /\ RecordOwned' /\ RoutedToIssuer' /\ LockedSoFar'
    BY <1>1, <2>1, <2>2
       DEF SessionTypeOK, Alike, Instant, RecordOwned, RoutedToIssuer, LockedSoFar
  <2>6. OneAtATime'
    <3> SUFFICES ASSUME Instant PROVE OneAtATime'
      BY <1>1 DEF OneAtATime, Instant
    <3>1. \A p \in Req : Idle(p)'
      BY <1>1, <2>1 DEF Arrives, Instant, Idle
    <3> QED BY <2>1, <2>2, <3>1 DEF OneAtATime, Doing, Ending
  <2> QED BY <1>2, <1>3, <2>4, <2>5, <2>6 DEF Allowed, E!Next
<1>5. CASE Penalty(party) # <<>>
  <2>1. PICK asks : asks = Penalty(party)
    OBVIOUS
  <2>2. /\ asks \in Seq(Call) /\ Len(asks) \in 1..2
        /\ \A n \in DOMAIN asks :
             /\ asks[n].role \in session.locked
             /\ asks[n].do = "forfeit" => RoleOf(party) = asks[n].role
        /\ \A m, n \in DOMAIN asks : m # n => asks[m].role # asks[n].role
    BY <1>1, <1>5, <2>1, PenaltyIsTheCallers
  <2>3. PICK start : start = Local("cancel", party)
    OBVIOUS
  <2>4. start \in Request /\ start.op = "cancel" /\ start.ok = TRUE
    BY <2>3, LocalIsRequest
  <2>5. PICK r : r = [start EXCEPT !.calls = asks]
    OBVIOUS
  <2>6. r \in Request /\ r.op = "cancel" /\ r.ok = TRUE /\ r.calls = asks
    BY <2>2, <2>4, <2>5 DEF Request
  <2>7. PICK next : next = [r EXCEPT !.at = Found(Head(r.calls).role)]
    OBVIOUS
  <2>8. req' = [req EXCEPT ![q] = next] /\ UNCHANGED <<session, live>>
    BY <1>5, <2>1, <2>3, <2>5, <2>7 DEF Cancel, Asks
  <2>9. \A n \in DOMAIN r.calls :
          r.calls[n].do = "forfeit" => \E each \in quit' : RoleOf(each) = r.calls[n].role
    BY <1>1, <2>2, <2>6
  <2>10. /\ next \in Request /\ InFlight(next)'
         /\ next.op = r.op /\ next.calls = r.calls /\ next.ok = r.ok
         /\ next.at = Found(Head(r.calls).role)
    BY <2>2, <2>6, <2>7, <2>9, AsksFor
  <2>11. Keeps /\ IssuesNone
    BY <1>1, <2>8 DEF Keeps, IssuesNone, Instant
  <2>12. /\ req' \in [Req -> Request \cup {None}]
         /\ (\A p \in Req : ~Idle(p) => InFlight(req[p]))'
         /\ FreshStakes'
    BY <2>6, <2>8, <2>10, <2>11, StillUnissued, OneRequest
  <2>13. /\ SessionTypeOK' /\ Alike' /\ RecordOwned' /\ RoutedToIssuer' /\ LockedSoFar'
    BY <1>1, <2>8, <2>12
       DEF SessionTypeOK, Alike, Instant, RecordOwned, RoutedToIssuer, LockedSoFar
  <2>14. OneAtATime'
    <3> SUFFICES ASSUME Instant PROVE OneAtATime'
      BY <1>1 DEF OneAtATime, Instant
    <3>1. /\ next.ok /\ next.op = "cancel" /\ Len(next.calls) \in 1..2
          /\ next.at = Found(Head(next.calls).role)
          /\ \A n \in DOMAIN next.calls : next.calls[n].role \in session.locked
          /\ \A m, n \in DOMAIN next.calls : m # n => next.calls[m].role # next.calls[n].role
      BY <2>2, <2>6, <2>10
    <3> QED BY <1>1, <2>8, <2>10, <3>1, SetsOut
  <2> QED BY <1>2, <1>3, <2>12, <2>13, <2>14 DEF Allowed, E!Next
<1> QED BY <1>4, <1>5

\* What a call does to the money of the stake it is of.
LEMMA CallMoves ==
    ASSUME SessInv, NEW do \in {"release", "forfeit"}, NEW at \in Invoice \cup {None},
           invoice' = AfterCall(do, at, Instant), UNCHANGED quit,
           Instant => at # None /\ invoice[at] = "held",
           at # None /\ do = "forfeit" => \E party \in quit : RoleOf(party) = RoleOf(Owner[at])
    PROVE  /\ invoice' \in [Invoice -> SessFunds]
           /\ \A i \in Invoice : i # at => invoice'[i] = invoice[i]
           /\ IssuesNone
           /\ Allowed
<1> USE DEF SessInv, SessionTypeOK, SessFunds
<1>1. CASE invoice' = invoice
  BY <1>1 DEF IssuesNone, Allowed
<1>2. CASE at # None /\ invoice[at] \in {"open", "held"} /\ invoice' = [invoice EXCEPT ![at] = "cancelled"]
  <2>1. E!Return(at)
    BY <1>2 DEF E!Return, E!Becomes
  <2> QED BY <1>2, <2>1 DEF IssuesNone, Allowed, E!Next
<1>3. CASE at # None /\ do = "forfeit" /\ invoice[at] = "held" /\ invoice' = [invoice EXCEPT ![at] = "settled"]
  <2>1. E!Claim(at)
    BY <1>3 DEF E!Claim, E!Becomes
  <2> QED BY <1>3, <2>1 DEF IssuesNone, Allowed, E!Next
<1>4. CASE at = None
  BY <1>1, <1>4 DEF AfterCall
<1>5. CASE at # None /\ do = "release"
  <2>1. CASE invoice[at] \in {"open", "held"}
    BY <1>2, <1>5, <2>1 DEF AfterCall
  <2>2. CASE invoice[at] \notin {"open", "held"}
    BY <1>1, <1>5, <2>2 DEF AfterCall
  <2> QED BY <2>1, <2>2
<1>6. CASE at # None /\ do = "forfeit"
  <2>1. CASE invoice[at] = "held"
    BY <1>3, <1>6, <2>1 DEF AfterCall
  <2>2. CASE invoice[at] = "open" /\ ~Instant
    BY <1>2, <1>6, <2>2 DEF AfterCall
  <2>3. CASE invoice[at] \notin {"open", "held"} /\ ~Instant
    BY <1>1, <1>6, <2>3 DEF AfterCall
  <2> QED BY <2>1, <2>2, <2>3
<1> QED BY <1>4, <1>5, <1>6

\* An answer to the call of /complete or /cancel under way, and the money it moves.
LEMMA CallIsAnswered ==
    ASSUME SessInv, NEW q \in Req, Ending(q), NEW r, r = req[q],
           NEW do \in {"release", "forfeit"},
           do = "forfeit" => \E party \in quit : RoleOf(party) = Head(r.calls).role,
           NEW works \in BOOLEAN, Instant => works, UNCHANGED quit,
           invoice' = IF works THEN AfterCall(do, r.at, Instant) ELSE invoice
    PROVE  /\ invoice' \in [Invoice -> SessFunds]
           /\ \A i \in Invoice : i # r.at => invoice'[i] = invoice[i]
           /\ IssuesNone
           /\ Allowed
<1>1. /\ r \in Request /\ InFlight(r) /\ r.at \in Invoice \cup {None}
      /\ r.op \in {"complete", "cancel"}
  BY DEF Ending, Doing, Idle, SessInv, SessionTypeOK, Request
<1>2. Instant => r.at # None /\ invoice[r.at] = "held"
  <2>1. Instant => CallsAreHeld(r)
    BY DEF SessInv, OneAtATime
  <2>2. Head(r.calls) = r.calls[1] /\ 1 \in DOMAIN r.calls
    BY <1>1, LenProperties DEF InFlight, Request
  <2> QED BY <2>1, <2>2 DEF CallsAreHeld, Held
<1>3. CASE works
  <2>1. r.at # None /\ do = "forfeit" => \E party \in quit : RoleOf(party) = RoleOf(Owner[r.at])
    BY <1>1 DEF InFlight
  <2> QED BY <1>1, <1>2, <1>3, <2>1, CallMoves
<1>4. CASE ~works
  BY <1>4 DEF SessInv, SessionTypeOK, SessFunds, IssuesNone, Allowed
<1> QED BY <1>3, <1>4

\* The first of two calls is answered, and the second is made.
LEMMA GoesOn ==
    ASSUME SessInv, NEW q \in Req, Ending(q), NEW r, r = req[q], Len(r.calls) = 2,
           NEW do \in {"release", "forfeit"},
           do = "forfeit" => \E party \in quit : RoleOf(party) = Head(r.calls).role,
           NEW works \in BOOLEAN, NEW ok \in BOOLEAN, Instant => works /\ ok,
           invoice' = IF works THEN AfterCall(do, r.at, Instant) ELSE invoice,
           Asks(q, [r EXCEPT !.calls = Tail(r.calls), !.ok = ok]),
           UNCHANGED <<rails, current, routing, record, session, live, quit>>
    PROVE  SessInv' /\ Allowed
<1> USE DEF SessInv
<1>1. /\ invoice' \in [Invoice -> SessFunds]
      /\ \A i \in Invoice : i # r.at => invoice'[i] = invoice[i]
      /\ IssuesNone
      /\ Allowed
  BY CallIsAnswered
<1>2. r \in Request /\ InFlight(r) /\ r.op \in {"complete", "cancel"} /\ r.calls \in Seq(Call)
  BY DEF Ending, Doing, Idle, SessionTypeOK, Request
<1>3. PICK rest : rest = Tail(r.calls)
  OBVIOUS
<1>4. /\ rest \in Seq(Call) /\ Len(rest) = 1 /\ DOMAIN rest = {1} /\ rest[1] = r.calls[2]
      /\ Head(rest) = r.calls[2] /\ Head(r.calls) = r.calls[1] /\ DOMAIN r.calls = 1..2
  BY <1>2, <1>3, HeadTailProperties, LenProperties, EmptySeq
<1>5. r.calls[1] \in Call /\ r.calls[2] \in Call
  BY <1>2, <1>4, ElementOfSeq
<1>6. PICK mid : mid = [r EXCEPT !.calls = rest, !.ok = ok]
  OBVIOUS
<1>7. mid \in Request /\ mid.op = r.op /\ mid.calls = rest /\ mid.ok = ok
  BY <1>2, <1>4, <1>6 DEF Request
<1>8. PICK next : next = [mid EXCEPT !.at = Found(Head(mid.calls).role)]
  OBVIOUS
<1>9. req' = [req EXCEPT ![q] = next]
  BY <1>3, <1>6, <1>8 DEF Asks
<1>10. mid.op = "cancel" =>
         \A n \in DOMAIN mid.calls :
           mid.calls[n].do = "forfeit" => \E party \in quit' : RoleOf(party) = mid.calls[n].role
  <2>1. r.op = "cancel" /\ r.calls[2].do = "forfeit" =>
          \E party \in quit : RoleOf(party) = r.calls[2].role
    BY <1>2, <1>4 DEF InFlight
  <2> QED BY <1>4, <1>7, <2>1
<1>11. /\ next \in Request /\ InFlight(next)'
       /\ next.op = r.op /\ next.calls = rest /\ next.ok = ok
       /\ next.at = Found(r.calls[2].role)
  BY <1>2, <1>4, <1>7, <1>8, <1>10, AsksFor
<1>12. Keeps
  BY DEF Keeps, Instant
<1>13. /\ req' \in [Req -> Request \cup {None}]
       /\ \A p \in Req : req'[p] = IF p = q THEN next ELSE req[p]
       /\ (\A p \in Req : ~Idle(p) => InFlight(req[p]))'
       /\ FreshStakes'
  BY <1>1, <1>2, <1>9, <1>11, <1>12, StillUnissued, OneRequest
<1>14. /\ SessionTypeOK' /\ Alike' /\ RecordOwned' /\ RoutedToIssuer' /\ LockedSoFar'
  BY <1>1, <1>13 DEF SessionTypeOK, SessFunds, Alike, Instant, RecordOwned, RoutedToIssuer,
                     LockedSoFar
<1>15. OneAtATime'
  <2> SUFFICES ASSUME Instant PROVE OneAtATime'
    BY DEF OneAtATime, Instant
  <2>1. CallsAreHeld(r) /\ \A p \in Req : p # q => Idle(p)
    BY DEF OneAtATime, Ending, Doing
  <2>2. PICK role : role = r.calls[2].role
    OBVIOUS
  <2>3. role \in StakeRole /\ Held(role) /\ role # r.calls[1].role
    BY <1>4, <1>5, <2>1, <2>2 DEF CallsAreHeld, Call
  <2>4. Found(role) \in Invoice /\ Found(role) # r.at
    <3>1. Found(role) \in Invoice \cup {None} /\ Found(role) # None
          /\ RoleOf(Owner[Found(role)]) = role
      BY <2>3, FoundIsTheRoles DEF Held
    <3>2. r.at # None => RoleOf(Owner[r.at]) = r.calls[1].role
      BY <1>2, <1>4 DEF InFlight
    <3> QED BY <2>3, <3>1, <3>2
  <2>5. Held(role)' /\ Found(role)' = Found(role)
    BY <1>1, <2>3, <2>4, HeldStays
  <2>6. CallsAreHeld(next)'
    <3>1. next.ok /\ next.at = Found(role)' /\ Head(next.calls).role = role
      BY <1>4, <1>11, <2>2, <2>5
    <3>2. DOMAIN next.calls = {1} /\ next.calls[1].role = role
      BY <1>4, <1>11, <2>2
    <3> QED BY <2>5, <3>1, <3>2 DEF CallsAreHeld
  <2>7. next # None
    BY <1>11, SessionAssumption
  <2>8. \A p \in Req : Ending(p)' => req'[p] = next /\ p = q
    BY <1>13, <2>1 DEF Ending, Doing, Idle
  <2>9. Ending(q)'
    BY <1>2, <1>11, <1>13, <2>7 DEF Ending, Doing, Idle
  <2>10. \A p \in Req : (Ending(p) => CallsAreHeld(req[p]))'
    BY <2>6, <2>8 DEF CallsAreHeld
  <2>11. \A p \in Req : ~Doing(p, "stake")' /\ ~Doing(p, "confirm")'
    BY <1>2, <1>11, <1>13, <2>1 DEF Doing, Idle
  <2>12. \A o, p \in Req : ~Idle(o)' /\ ~Idle(p)' => o = p
    BY <1>13, <2>1 DEF Idle
  <2> QED BY <2>9, <2>10, <2>11, <2>12 DEF OneAtATime, Instant
<1> QED BY <1>1, <1>13, <1>14, <1>15

\* The last call is answered: the session ends, or a rail that is not instant has
\* failed it and the session goes on.
LEMMA GoesBack ==
    ASSUME SessInv, NEW q \in Req, Ending(q), NEW r, r = req[q],
           NEW do \in {"release", "forfeit"},
           do = "forfeit" => \E party \in quit : RoleOf(party) = Head(r.calls).role,
           NEW works \in BOOLEAN, Instant => works,
           invoice' = IF works THEN AfterCall(do, r.at, Instant) ELSE invoice,
           Returns(q), NEW status \in {"completed", "cancelled"},
           Finalizes(status) \/ (~Instant /\ UNCHANGED <<session, live>>),
           UNCHANGED <<rails, current, routing, record, quit>>
    PROVE  SessInv' /\ Allowed
<1> USE DEF SessInv
<1>1. /\ invoice' \in [Invoice -> SessFunds]
      /\ \A i \in Invoice : i # r.at => invoice'[i] = invoice[i]
      /\ IssuesNone
      /\ Allowed
  BY CallIsAnswered
<1>2. /\ session' \in Session /\ live' \in BOOLEAN
      /\ session'.locked = session.locked /\ session'.driver = session.driver
      /\ session'.invoice = session.invoice
      /\ session'.status \in {session.status, status}
      /\ Instant => ~live'
  BY DEF Finalizes, SessionTypeOK, Session, Status
<1>3. Keeps
  BY <1>2 DEF Keeps, Instant
<1>4. req' = [req EXCEPT ![q] = None]
  BY DEF Returns
<1>5. /\ req' \in [Req -> Request \cup {None}]
      /\ \A p \in Req : req'[p] = IF p = q THEN None ELSE req[p]
      /\ (\A p \in Req : ~Idle(p) => InFlight(req[p]))'
      /\ FreshStakes'
  BY <1>1, <1>3, <1>4, StillUnissued, OneRequest
<1>6. /\ SessionTypeOK' /\ Alike' /\ RecordOwned' /\ RoutedToIssuer' /\ LockedSoFar'
  BY <1>1, <1>2, <1>5 DEF SessionTypeOK, SessFunds, Alike, Instant, RecordOwned,
                          RoutedToIssuer, LockedSoFar
<1>7. OneAtATime'
  <2> SUFFICES ASSUME Instant PROVE OneAtATime'
    BY DEF OneAtATime, Instant
  <2>1. \A p \in Req : Idle(p)'
    BY <1>5 DEF OneAtATime, Ending, Doing, Idle
  <2> QED BY <1>2, <2>1 DEF OneAtATime, Doing, Ending
<1> QED BY <1>1, <1>5, <1>6, <1>7

LEMMA CompleteAnsweredInv ==
    ASSUME SessInv, NEW q \in Req, NEW works \in BOOLEAN, Instant => works,
           CompleteAnswered(q, works)
    PROVE  SessInv' /\ Allowed
<1>1. PICK r : r = req[q]
  OBVIOUS
<1>2. PICK ok \in BOOLEAN : ok = (works /\ CallSucceeds("release", r.at, Instant))
  OBVIOUS
<1>3. /\ Ending(q) /\ Len(r.calls) \in 1..2
      /\ UNCHANGED <<rails, current, routing, record, quit>>
      /\ invoice' = IF works THEN AfterCall("release", r.at, Instant) ELSE invoice
  BY <1>1 DEF CompleteAnswered, Ending, Doing, Idle, manager, SessInv, InFlight, Instant
<1>4. Instant => ok /\ r.ok
  <2>1. Instant => CallsAreHeld(r) /\ Head(r.calls) = r.calls[1] /\ 1 \in DOMAIN r.calls
    BY <1>1, <1>3, LenProperties
       DEF SessInv, OneAtATime, SessionTypeOK, Request, Ending, Doing, Idle
  <2> QED BY <1>2, <2>1 DEF CallsAreHeld, Held, CallSucceeds
<1>5. CASE Len(r.calls) = 2
  <2>1. /\ Asks(q, [r EXCEPT !.calls = Tail(@), !.ok = ok])
        /\ UNCHANGED <<session, live>>
    BY <1>1, <1>2, <1>5 DEF CompleteAnswered, Instant
  <2>2. [r EXCEPT !.calls = Tail(@), !.ok = ok] = [r EXCEPT !.calls = Tail(r.calls), !.ok = ok]
    BY <1>1, <1>3 DEF SessInv, SessionTypeOK, Request, Ending, Doing, Idle
  <2> QED BY <1>1, <1>3, <1>4, <1>5, <2>1, <2>2, GoesOn
<1>6. CASE Len(r.calls) # 2
  <2>1. /\ Returns(q)
        /\ IF r.ok /\ ok THEN Finalizes("completed") ELSE UNCHANGED <<session, live>>
    BY <1>1, <1>2, <1>6 DEF CompleteAnswered, CompletedWhen, Instant
  <2> QED BY <1>1, <1>3, <1>4, <2>1, GoesBack
<1> QED BY <1>5, <1>6

LEMMA CancelAnsweredInv ==
    ASSUME SessInv, NEW q \in Req, NEW works \in BOOLEAN, Instant => works,
           CancelAnswered(q, works)
    PROVE  SessInv' /\ Allowed
<1>1. PICK r : r = req[q]
  OBVIOUS
<1>2. PICK do : do = Head(r.calls).do
  OBVIOUS
<1>3. /\ Ending(q) /\ InFlight(r) /\ r \in Request /\ r.op = "cancel"
      /\ UNCHANGED <<rails, current, routing, record, quit>>
      /\ invoice' = IF works THEN AfterCall(do, r.at, Instant) ELSE invoice
  BY <1>1, <1>2
     DEF CancelAnswered, Ending, Doing, Idle, manager, SessInv, SessionTypeOK, Instant
<1>4. /\ r.calls \in Seq(Call) /\ Len(r.calls) \in 1..2
      /\ Head(r.calls) = r.calls[1] /\ 1 \in DOMAIN r.calls
  BY <1>3, LenProperties DEF InFlight, Request
<1>5. /\ do \in {"release", "forfeit"}
      /\ do = "forfeit" => \E party \in quit : RoleOf(party) = Head(r.calls).role
  <2>1. r.calls[1] \in Call
    BY <1>4, ElementOfSeq
  <2> QED BY <1>2, <1>3, <1>4, <2>1 DEF Call, InFlight
<1>6. CASE Len(r.calls) = 2
  <2>1. Asks(q, [r EXCEPT !.calls = Tail(@)]) /\ UNCHANGED <<session, live>>
    BY <1>1, <1>6 DEF CancelAnswered
  <2>2. [r EXCEPT !.calls = Tail(@)] = [r EXCEPT !.calls = Tail(r.calls), !.ok = r.ok]
        /\ r.ok \in BOOLEAN
    BY <1>3 DEF Request
  <2>3. Instant => r.ok
    BY <1>1, <1>3 DEF SessInv, OneAtATime, CallsAreHeld
  <2> QED BY <1>1, <1>3, <1>5, <1>6, <2>1, <2>2, <2>3, GoesOn
<1>7. CASE Len(r.calls) # 2
  <2>1. Returns(q) /\ Finalizes("cancelled")
    BY <1>1, <1>7 DEF CancelAnswered
  <2> QED BY <1>1, <1>3, <1>5, <2>1, GoesBack
<1> QED BY <1>6, <1>7

\* Another ride's stake moves the current rail, to one of the same kind.
LEMMA OtherRideInv ==
    ASSUME SessInv, NEW p \in Rail, OtherRideStakes(p)
    PROVE  SessInv' /\ Allowed
<1> USE DEF SessInv
<1>1. /\ current' = p
      /\ UNCHANGED <<rails, routing, record, invoice, session, live, req, quit>>
  BY DEF OtherRideStakes
<1>2. Instant' <=> Instant
  <2>1. PICK n \in DOMAIN rails : p = rails[n]
    BY DEF OtherRideStakes, Range
  <2> QED BY <1>1, <2>1 DEF Alike, Instant
<1>3. Keeps /\ IssuesNone
  BY <1>1, <1>2 DEF Keeps, IssuesNone
<1>4. (\A o \in Req : ~Idle(o) => InFlight(req[o]))' /\ FreshStakes'
  BY <1>1, <1>3, NoRequest
<1>5. /\ SessionTypeOK' /\ Alike' /\ RecordOwned' /\ RoutedToIssuer' /\ LockedSoFar'
  BY <1>1, <1>2 DEF SessionTypeOK, Alike, RecordOwned, RoutedToIssuer, LockedSoFar
<1>6. OneAtATime'
  BY <1>1, <1>2, NothingCalled
<1> QED BY <1>1, <1>4, <1>5, <1>6 DEF Allowed

\* An invoice is paid, or runs out.
LEMMA PaymentInv ==
    ASSUME SessInv, NEW i \in Invoice, Pay(i) \/ InvoiceExpires(i)
    PROVE  SessInv' /\ Allowed
<1> USE DEF SessInv
<1>1. PICK to \in {"held", "cancelled"} : invoice' = [invoice EXCEPT ![i] = to]
  BY DEF Pay, InvoiceExpires
<1>2. /\ invoice[i] = "open"
      /\ UNCHANGED <<rails, current, routing, record, session, live, req, quit>>
  BY DEF Pay, InvoiceExpires, manager
<1>3. /\ invoice' \in [Invoice -> SessFunds]
      /\ \A j \in Invoice : invoice'[j] = IF j = i THEN to ELSE invoice[j]
  BY <1>1 DEF SessionTypeOK, SessFunds
<1>4. Keeps /\ IssuesNone
  BY <1>2, <1>3 DEF Keeps, IssuesNone, Instant
<1>5. (\A o \in Req : ~Idle(o) => InFlight(req[o]))' /\ FreshStakes'
  BY <1>2, <1>4, NoRequest
<1>6. /\ SessionTypeOK' /\ Alike' /\ RecordOwned' /\ RoutedToIssuer' /\ LockedSoFar'
  BY <1>2, <1>3 DEF SessionTypeOK, SessFunds, Alike, Instant, RecordOwned, RoutedToIssuer,
                    LockedSoFar
<1>7. OneAtATime'
  BY <1>2, <1>3, NothingCalled DEF Instant
<1>8. E!Fund(i) \/ E!Return(i)
  BY <1>2 DEF Pay, InvoiceExpires, E!Fund, E!Return, E!Becomes
<1> QED BY <1>5, <1>6, <1>7, <1>8 DEF Allowed, E!Next

LEMMA SessNextInv == SessInv /\ [SessionNext]_sessionVars => SessInv' /\ Allowed
<1> SUFFICES ASSUME SessInv, [SessionNext]_sessionVars PROVE SessInv' /\ Allowed
  OBVIOUS
<1>1. Outcome \subseteq BOOLEAN /\ (Instant => Outcome = {TRUE})
  BY DEF Outcome, Instant
<1>2. ASSUME NEW q \in Req, NEW works \in Outcome, StakeAnswered(q, works)
      PROVE  SessInv' /\ Allowed
  <2>1. CASE works = TRUE
    BY <1>2, <2>1, StakedInv
  <2>2. CASE works = FALSE
    BY <1>1, <1>2, <2>2, NextRailInv
  <2> QED BY <1>1, <1>2, <2>1, <2>2
<1>3. ASSUME NEW q \in Req, NEW works \in Outcome,
             CompleteAnswered(q, works) \/ CancelAnswered(q, works)
      PROVE  SessInv' /\ Allowed
  <2>1. works \in BOOLEAN /\ (Instant => works)
    BY <1>1, <1>3
  <2> QED BY <1>3, <2>1, CompleteAnsweredInv, CancelAnsweredInv
<1>4. ASSUME NEW q \in Req, NEW works \in Outcome, ConfirmAnswered(q, works)
      PROVE  SessInv' /\ Allowed
  BY <1>1, <1>4, ConfirmAnsweredInv
<1>5. CASE SessionNext
  BY <1>2, <1>3, <1>4, <1>5, StakeInv, DriverAcceptInv, ConfirmInv, CompleteInv, CancelInv,
     OtherRideInv, PaymentInv DEF SessionNext
<1>6. CASE UNCHANGED sessionVars
  <2>1. UNCHANGED <<rails, current, routing, record, invoice, session, live, req, quit>>
    BY <1>6 DEF sessionVars, manager
  <2>2. Keeps /\ IssuesNone
    BY <2>1 DEF Keeps, IssuesNone, Instant
  <2>3. (\A o \in Req : ~Idle(o) => InFlight(req[o]))' /\ FreshStakes'
    BY <2>1, <2>2, NoRequest
  <2>4. /\ SessionTypeOK' /\ Alike' /\ RecordOwned' /\ RoutedToIssuer' /\ LockedSoFar'
    BY <2>1 DEF SessInv, SessionTypeOK, Alike, Instant, RecordOwned, RoutedToIssuer,
                LockedSoFar
  <2>5. OneAtATime'
    BY <2>1, NothingCalled DEF Instant
  <2> QED BY <2>1, <2>3, <2>4, <2>5 DEF SessInv, Allowed
<1> QED BY <1>5, <1>6

\* The rails in use are listed rails of one trust model.
LEMMA UsableAlike ==
    ASSUME NEW list \in Seq(Rail), NEW healthy \in SUBSET Rail,
           NEW kept \in Usable(list, healthy)
    PROVE  /\ kept \in Seq(Rail)
           /\ \A m, n \in DOMAIN kept : TrustModel(kept[m]) = TrustModel(kept[n])
<1> DEFINE good == {n \in DOMAIN list :
                      list[n] \in healthy /\ TrustModel(list[n]) = TrustModel(list[1])}
           size == Cardinality(good)
<1>1. size \in Nat
  <2>1. DOMAIN list = 1..Len(list) /\ Len(list) \in Nat
    BY LenProperties
  <2>2. IsFiniteSet(1..Len(list))
    BY <2>1, FS_Interval
  <2>3. IsFiniteSet(good)
    BY <2>1, <2>2, FS_Subset
  <2> QED BY <2>3, FS_CardinalityType
<1>2. PICK at \in [1..size -> good] : kept = [n \in 1..size |-> list[at[n]]]
  BY DEF Usable
<1>3. \A n \in 1..size :
        kept[n] \in Rail /\ TrustModel(kept[n]) = TrustModel(list[1])
  <2>1. \A n \in DOMAIN list : list[n] \in Rail
    BY ElementOfSeq, LenProperties
  <2> QED BY <1>2, <2>1
<1> HIDE DEF good, size
<1>4. kept \in Seq(Rail) /\ DOMAIN kept = 1..size
  BY <1>1, <1>2, <1>3, SeqDef
<1> QED BY <1>3, <1>4

LEMMA SessInitInv == SessionInit => SessInv
<1> SUFFICES ASSUME SessionInit PROVE SessInv
  OBVIOUS
<1>1. PICK list \in Configured, healthy \in SUBSET Rail :
        rails \in Usable(list, healthy) /\ rails # <<>>
  BY DEF SessionInit
<1>2. /\ rails \in Seq(Rail)
      /\ \A m, n \in DOMAIN rails : TrustModel(rails[m]) = TrustModel(rails[n])
  BY <1>1, UsableAlike, SessionAssumption
<1>3. current = rails[1] /\ 1 \in DOMAIN rails /\ current \in Rail
      /\ \A n \in DOMAIN rails : rails[n] \in Rail
  BY <1>1, <1>2, EmptySeq, LenProperties, ElementOfSeq DEF SessionInit
<1>4. \A p, o \in Rail : TrustModel(p) = TrustModel(o) => (InstantLock(p) <=> InstantLock(o))
  BY DEF Rail, TrustModel, InstantLock
<1>5. Alike
  BY <1>2, <1>3, <1>4 DEF Alike, Instant
<1>6. SessionTypeOK
  BY <1>1, <1>2, <1>3 DEF SessionInit, SessionTypeOK, Session, Status
<1>7. /\ RecordOwned /\ RoutedToIssuer /\ FreshStakes /\ LockedSoFar
      /\ \A q \in Req : Idle(q)
  BY DEF SessionInit, RecordOwned, RoutedToIssuer, FreshStakes, LockedSoFar, Doing, Idle
<1>8. OneAtATime
  BY <1>7 DEF SessionInit, OneAtATime, Doing, Ending
<1> QED BY <1>5, <1>6, <1>7, <1>8 DEF SessInv

LEMMA SessIsSound == SessionSpec => [](SessInv)
BY SessInitInv, SessNextInv, PTL DEF SessionSpec

\* For any lists of rails, any number of requests and any failures of the nodes, the
\* rail asked about a stake is the one that issued it (ResilientStakeManager.lockStake).
THEOREM RoutesAreKept == SessionSpec => []RoutedToIssuer
<1>1. SessInv => RoutedToIssuer
  BY DEF SessInv
<1> QED BY <1>1, SessIsSound, PTL

\* For all of these, a session of the older flow keeps the promise of Escrow: what a
\* side put up is claimed only if that side called the session off, and is claimed or
\* returned once (/complete and /cancel, factory.js).
THEOREM SessionKeepsEscrow == SessionSpec => KeepsEscrow
<1>1. SessionInit => E!Init
  BY DEF SessionInit, E!Init
<1>2. SessInv /\ [SessionNext]_sessionVars
        => [E!Next]_<<invoice, {RoleOf(party) : party \in quit}>>
  BY SessNextInv DEF Allowed
<1> QED BY <1>1, <1>2, SessIsSound, PTL DEF SessionSpec, KeepsEscrow, E!Spec

\* A stake of the side's has come back.
PaidBack(role) == \E i \in Invoice : RoleOf(Owner[i]) = role /\ invoice[i] = "cancelled"

\* A completed session has given each side a stake back, of however many a side may
\* have been asked for.
CompletedReturns ==
    session.status = "completed" => \A role \in StakeRole : PaidBack(role)

\* No rail has a stake on record that nobody was asked for.
AskedFor ==
    \A p \in Rail, role \in StakeRole :
        record[p][role] # None => invoice[record[p][role]] # "none"

\* The rider's stake is the first /complete asks back, and is back by the time it
\* asks for the driver's, unless it knows better.
HalfDone(r) ==
    r.op = "complete" =>
        /\ r.at # None => invoice[r.at] # "none"
        /\ Len(r.calls) = 2 => r.calls[1].role = "rider" /\ r.calls[2].role = "driver"
        /\ Len(r.calls) = 1 => r.calls[1].role = "driver" /\ (r.ok => PaidBack("rider"))

PaysBackInv ==
    /\ SessInv
    /\ AskedFor
    /\ \A q \in Req : ~Idle(q) => HalfDone(req[q])
    /\ CompletedReturns

\* Money that came back stays back, and a stake asked for stays asked for.
LEMMA MoneyStays ==
    ASSUME SessInv, Allowed, NEW i \in Invoice
    PROVE  /\ invoice[i] = "cancelled" => invoice'[i] = "cancelled"
           /\ invoice[i] # "none" => invoice'[i] # "none"
<1>1. CASE UNCHANGED <<invoice, quit>>
  BY <1>1
<1>2. CASE \E j \in Invoice : E!Offer(j) \/ E!Record(j) \/ E!Fund(j) \/ E!Return(j) \/ E!Claim(j)
  <2>1. PICK j \in Invoice, from \in SUBSET {"none", "open", "held"},
             to \in {"open", "held", "cancelled", "settled"} : E!Becomes(j, from, to)
    <3>1. PICK j \in Invoice :
            E!Offer(j) \/ E!Record(j) \/ E!Fund(j) \/ E!Return(j) \/ E!Claim(j)
      BY <1>2
    <3>2. \/ E!Becomes(j, {"none"}, "open") \/ E!Becomes(j, {"none"}, "held")
          \/ E!Becomes(j, {"open"}, "held") \/ E!Becomes(j, {"open", "held"}, "cancelled")
          \/ E!Becomes(j, {"held"}, "settled")
      BY <3>1 DEF E!Offer, E!Record, E!Fund, E!Return, E!Claim
    <3> QED BY <3>2
  <2>2. invoice[j] \in from /\ invoice' = [invoice EXCEPT ![j] = to]
    BY <2>1 DEF E!Becomes
  <2>3. invoice'[i] = IF i = j THEN to ELSE invoice[i]
    BY <2>2 DEF SessInv, SessionTypeOK
  <2> QED BY <2>2, <2>3
<1>3. CASE \E s \in StakeRole : E!Quit(s)
  BY <1>3 DEF E!Quit
<1> QED BY <1>1, <1>2, <1>3 DEF Allowed, E!Next

\* Hence what a handler in flight knows stays true,
LEMMA HalfDoneStays ==
    ASSUME PaysBackInv, Allowed, NEW r \in Request, HalfDone(r)
    PROVE  HalfDone(r)'
<1>1. r.at \in Invoice \cup {None}
  BY DEF Request
<1>2. r.at # None /\ invoice[r.at] # "none" => invoice'[r.at] # "none"
  BY <1>1, MoneyStays DEF PaysBackInv
<1>3. PaidBack("rider") => PaidBack("rider")'
  BY MoneyStays DEF PaysBackInv, PaidBack
<1> QED BY <1>2, <1>3 DEF HalfDone

\* what is on record was asked for, and a session that was paid back stays so.
LEMMA RestStays ==
    ASSUME PaysBackInv, Allowed
    PROVE  /\ UNCHANGED record => AskedFor'
           /\ session'.status # "completed" \/ session'.status = session.status
                => CompletedReturns'
<1>1. ASSUME UNCHANGED record PROVE AskedFor'
  <2> SUFFICES ASSUME NEW p \in Rail, NEW role \in StakeRole, record[p][role] # None
               PROVE  invoice'[record[p][role]] # "none"
    BY <1>1 DEF AskedFor
  <2>1. record[p][role] \in Invoice /\ invoice[record[p][role]] # "none"
    BY DEF PaysBackInv, SessInv, SessionTypeOK, AskedFor
  <2> QED BY <2>1, MoneyStays DEF PaysBackInv
<1>2. ASSUME session'.status # "completed" \/ session'.status = session.status
      PROVE  CompletedReturns'
  BY <1>2, MoneyStays DEF PaysBackInv, CompletedReturns, PaidBack
<1> QED BY <1>1, <1>2

\* A step that completes nothing and starts no /complete keeps all of it.
LEMMA OthersPayBack ==
    ASSUME PaysBackInv, SessInv', Allowed, AskedFor',
           session'.status # "completed" \/ session'.status = session.status,
           \A q \in Req : \/ req'[q] \in {req[q], None}
                          \/ req'[q] \in Request /\ req'[q].op # "complete"
    PROVE  PaysBackInv'
<1>1. ASSUME NEW q \in Req, ~Idle(q)' PROVE HalfDone(req[q])'
  <2>1. CASE req'[q] = req[q]
    <3>1. req[q] \in Request /\ HalfDone(req[q])
      BY <1>1, <2>1 DEF Idle, PaysBackInv, SessInv, SessionTypeOK
    <3>2. PICK r : r = req[q]
      OBVIOUS
    <3>3. HalfDone(r)'
      BY <3>1, <3>2, HalfDoneStays
    <3> QED BY <2>1, <3>2, <3>3 DEF HalfDone
  <2>2. CASE req'[q] \in Request /\ req'[q].op # "complete"
    BY <2>2 DEF HalfDone
  <2> QED BY <1>1, <2>1, <2>2 DEF Idle
<1> QED BY <1>1, RestStays DEF PaysBackInv

\* A stake that is issued is one asked for.
LEMMA StakedPaysBack ==
    ASSUME PaysBackInv, SessInv', Allowed, NEW q \in Req, NEW works \in BOOLEAN,
           StakeAnswered(q, works)
    PROVE  PaysBackInv'
<1>1. PICK r : r = req[q]
  OBVIOUS
<1>2. r \in Request /\ r.op = "stake" /\ r.at \in Invoice /\ r.try \in Seq(Rail) /\ r.try # <<>>
  BY <1>1 DEF StakeAnswered, Doing, Idle, PaysBackInv, SessInv, SessionTypeOK, InFlight, Request
<1>3. session'.status # "completed" \/ session'.status = session.status
  BY DEF StakeAnswered, LockedAt, PaysBackInv, SessInv, SessionTypeOK, Session
<1>4. AskedFor'
  <2>1. CASE works
    <3>1. PICK p, role : p = Head(r.try) /\ role = RoleOf(r.by)
      OBVIOUS
    <3>2. /\ record' = [record EXCEPT ![p][role] = r.at]
          /\ invoice' = [invoice EXCEPT ![r.at] = IF InstantLock(p) THEN "held" ELSE "open"]
      BY <1>1, <2>1, <3>1 DEF StakeAnswered
    <3>3. invoice'[r.at] # "none"
      BY <1>2, <3>2 DEF PaysBackInv, SessInv, SessionTypeOK
    <3> SUFFICES ASSUME NEW o \in Rail, NEW side \in StakeRole, record'[o][side] # None
                 PROVE  invoice'[record'[o][side]] # "none"
      BY DEF AskedFor
    <3>4. CASE record'[o][side] = r.at
      BY <3>3, <3>4
    <3>5. CASE record'[o][side] = record[o][side]
      <4>1. record[o][side] \in Invoice /\ invoice[record[o][side]] # "none"
        BY <3>5 DEF PaysBackInv, SessInv, SessionTypeOK, AskedFor
      <4> QED BY <3>5, <4>1, MoneyStays DEF PaysBackInv
    <3>6. record'[o][side] \in {record[o][side], r.at}
      BY <3>2 DEF PaysBackInv, SessInv, SessionTypeOK
    <3> QED BY <3>4, <3>5, <3>6
  <2>2. CASE ~works
    BY <2>2, RestStays DEF StakeAnswered
  <2> QED BY <2>1, <2>2
<1>5. \A p \in Req : \/ req'[p] \in {req[p], None}
                     \/ req'[p] \in Request /\ req'[p].op # "complete"
  <2>1. PICK next : next = [r EXCEPT !.try = Tail(r.try)]
    OBVIOUS
  <2>2. next \in Request /\ next.op = "stake"
    <3>1. Tail(r.try) \in Seq(Rail)
      BY <1>2, HeadTailProperties
    <3> QED BY <1>2, <2>1, <3>1 DEF Request
  <2>3. req' = [req EXCEPT ![q] = None] \/ req' = [req EXCEPT ![q] = next]
    BY <1>1, <2>1 DEF StakeAnswered, Returns
  <2> QED BY <2>2, <2>3 DEF PaysBackInv, SessInv, SessionTypeOK
<1> QED BY <1>3, <1>4, <1>5, OthersPayBack

\* /complete sets out with the rider's stake.
LEMMA CompletePaysBack ==
    ASSUME PaysBackInv, SessInv', Allowed, NEW q \in Req, NEW party \in StakeParty,
           Complete(q, party)
    PROVE  PaysBackInv'
<1> USE DEF PaysBackInv
<1>1. PICK asks : asks = <<Release("rider"), Release("driver")>>
  OBVIOUS
<1>2. asks \in Seq(Call) /\ Len(asks) = 2
      /\ Head(asks) = asks[1] /\ asks[1].role = "rider" /\ asks[2].role = "driver"
  BY <1>1 DEF Release, Call, StakeRole
<1>3. PICK start : start = Local("complete", party)
  OBVIOUS
<1>4. start \in Request /\ start.op = "complete"
  BY <1>3, LocalIsRequest
<1>5. PICK r : r = [start EXCEPT !.calls = asks]
  OBVIOUS
<1>6. r \in Request /\ r.op = "complete" /\ r.calls = asks
  BY <1>2, <1>4, <1>5 DEF Request
<1>7. PICK next : next = [r EXCEPT !.at = Found("rider")]
  OBVIOUS
<1>8. /\ req' = [req EXCEPT ![q] = next]
      /\ UNCHANGED <<routing, record, current, invoice, session>>
  BY <1>1, <1>2, <1>3, <1>5, <1>6, <1>7 DEF Complete, Asks, manager
<1>9. /\ next \in Request /\ next.calls = asks /\ next.at = Found("rider")
      /\ Found("rider") \in Invoice \cup {None}
  BY <1>6, <1>7, FoundIsTheRoles DEF Request, StakeRole
<1>10. next.at # None => invoice[next.at] # "none"
  <2>1. StakeRail("rider") \in Rail
    BY DEF StakeRail, SessInv, SessionTypeOK, StakeRole
  <2> QED BY <1>9, <2>1 DEF Found, AskedFor, StakeRole
<1>11. HalfDone(next)'
  BY <1>2, <1>8, <1>9, <1>10 DEF HalfDone
<1>12. ASSUME NEW p \in Req, ~Idle(p)' PROVE HalfDone(req[p])'
  <2>1. CASE p = q
    <3>1. req'[p] = next
      BY <1>8, <2>1 DEF SessInv, SessionTypeOK
    <3> QED BY <1>11, <3>1 DEF HalfDone
  <2>2. CASE p # q
    <3>1. req'[p] = req[p]
      BY <1>8, <2>2 DEF SessInv, SessionTypeOK
    <3>2. HalfDone(req[p])
      BY <1>12, <3>1 DEF Idle
    <3> QED BY <1>8, <3>1, <3>2 DEF HalfDone, PaidBack
  <2> QED BY <2>1, <2>2
<1> QED BY <1>8, <1>12, RestStays

\* A release that reports success has the money back.
LEMMA ReleasedIsBack ==
    ASSUME SessInv, NEW at \in Invoice \cup {None}, at # None => invoice[at] # "none",
           CallSucceeds("release", at, Instant), invoice' = AfterCall("release", at, Instant)
    PROVE  at \in Invoice /\ invoice'[at] = "cancelled"
<1>1. at \in Invoice /\ at # None /\ (Instant \/ invoice[at] # "settled")
  BY DEF CallSucceeds
<1>2. invoice[at] \in {"open", "held", "settled", "cancelled"}
  BY <1>1 DEF SessInv, SessionTypeOK
<1>3. CASE Instant \/ invoice[at] \in {"open", "held"}
  <2>1. invoice' = [invoice EXCEPT ![at] = "cancelled"]
    BY <1>1, <1>3 DEF AfterCall
  <2> QED BY <1>1, <2>1 DEF SessInv, SessionTypeOK
<1>4. CASE ~Instant /\ invoice[at] = "cancelled"
  <2>1. invoice' = invoice
    BY <1>1, <1>4 DEF AfterCall
  <2> QED BY <1>1, <1>4, <2>1
<1> QED BY <1>1, <1>2, <1>3, <1>4

\* The first answer of /complete says whether the rider's stake is back; the second
\* completes the session only if it said so.
LEMMA CompleteAnsweredPaysBack ==
    ASSUME PaysBackInv, SessInv', Allowed, NEW q \in Req, NEW works \in BOOLEAN,
           CompleteAnswered(q, works)
    PROVE  PaysBackInv'
<1> USE DEF PaysBackInv
<1>1. PICK r : r = req[q]
  OBVIOUS
<1>2. /\ r \in Request /\ r.op = "complete" /\ InFlight(r) /\ HalfDone(r)
      /\ r.at \in Invoice \cup {None} /\ r.calls \in Seq(Call) /\ Len(r.calls) \in 1..2
  BY <1>1 DEF CompleteAnswered, Doing, Idle, SessInv, SessionTypeOK, InFlight, Request
<1>3. PICK ok \in BOOLEAN : ok = (works /\ CallSucceeds("release", r.at, Instant))
  OBVIOUS
<1>4. /\ UNCHANGED <<routing, record, current>>
      /\ invoice' = IF works THEN AfterCall("release", r.at, Instant) ELSE invoice
  BY <1>1 DEF CompleteAnswered, Instant, manager
<1>5. AskedFor'
  BY <1>4, RestStays
<1>6. Head(r.calls) = r.calls[1]
  BY <1>2, LenProperties
<1>7. ok => PaidBack(r.calls[1].role)'
  <2> SUFFICES ASSUME ok PROVE PaidBack(r.calls[1].role)'
    OBVIOUS
  <2>1. r.at \in Invoice /\ invoice'[r.at] = "cancelled"
    BY <1>2, <1>3, <1>4, ReleasedIsBack DEF HalfDone
  <2>2. RoleOf(Owner[r.at]) = r.calls[1].role
    BY <1>2, <1>6, <2>1, SessionAssumption DEF InFlight
  <2> QED BY <2>1, <2>2 DEF PaidBack
<1>8. CASE Len(r.calls) = 2
  <2>1. r.calls[1].role = "rider" /\ r.calls[2].role = "driver"
    BY <1>2, <1>8 DEF HalfDone
  <2>2. PICK rest : rest = Tail(r.calls)
    OBVIOUS
  <2>3. rest \in Seq(Call) /\ Len(rest) = 1 /\ Head(rest) \in Call
        /\ Head(rest) = rest[1] /\ rest[1] = r.calls[2]
    <3>1. r.calls # <<>>
      BY <1>8, EmptySeq
    <3>2. rest \in Seq(Call) /\ Len(rest) = 1
      BY <1>2, <1>8, <2>2, <3>1, HeadTailProperties
    <3>3. Head(rest) = rest[1]
      BY <3>2, LenProperties
    <3>4. rest[1] = r.calls[2]
      BY <1>2, <1>8, <2>2, <3>1
    <3>5. rest[1] \in Call
      BY <3>2, ElementOfSeq, LenProperties
    <3> QED BY <3>2, <3>3, <3>4, <3>5
  <2>4. PICK role : role = Head(rest).role
    OBVIOUS
  <2>5. role \in StakeRole
    BY <2>3, <2>4 DEF Call
  <2>6. PICK then : then = [r EXCEPT !.calls = rest, !.ok = ok]
    OBVIOUS
  <2>7. then \in Request /\ then.op = "complete" /\ then.calls = rest /\ then.ok = ok
    BY <1>2, <1>3, <2>3, <2>6 DEF Request
  <2>8. PICK next : next = [then EXCEPT !.at = Found(role)]
    OBVIOUS
  <2>9. /\ next \in Request /\ next.calls = rest /\ next.ok = ok /\ next.at = Found(role)
        /\ Found(role) \in Invoice \cup {None}
    BY <2>5, <2>7, <2>8, FoundIsTheRoles DEF Request
  <2>10. req' = [req EXCEPT ![q] = next] /\ UNCHANGED session
    <3>1. /\ Asks(q, [r EXCEPT !.calls = Tail(@), !.ok = ok])
          /\ UNCHANGED session
      BY <1>1, <1>3, <1>8 DEF CompleteAnswered, Instant
    <3>2. [r EXCEPT !.calls = Tail(@), !.ok = ok] = then
      BY <1>2, <2>2, <2>6 DEF Request
    <3>3. Asks(q, then)
      BY <3>1, <3>2
    <3> QED BY <2>4, <2>7, <2>8, <3>1, <3>3 DEF Asks
  <2>11. next.at # None => invoice'[next.at] # "none"
    <3>1. StakeRail(role) \in Rail
      BY <2>5 DEF StakeRail, SessInv, SessionTypeOK
    <3>2. next.at # None => invoice[next.at] # "none"
      BY <2>5, <2>9, <3>1 DEF Found, AskedFor
    <3> QED BY <2>9, <3>2, MoneyStays
  <2>12. HalfDone(next)'
    <3>1. /\ Len(next.calls) = 1 /\ next.calls[1].role = "driver"
          /\ next.ok => PaidBack("rider")'
      BY <1>7, <2>1, <2>3, <2>9
    <3> QED BY <2>11, <3>1 DEF HalfDone
  <2>13. ASSUME NEW p \in Req, ~Idle(p)' PROVE HalfDone(req[p])'
    <3>1. CASE p = q
      <4>1. req'[p] = next
        BY <2>10, <3>1 DEF SessInv, SessionTypeOK
      <4> QED BY <2>12, <4>1 DEF HalfDone
    <3>2. CASE p # q
      <4>1. req'[p] = req[p]
        BY <2>10, <3>2 DEF SessInv, SessionTypeOK
      <4>2. PICK other : other = req[p]
        OBVIOUS
      <4>3. other \in Request /\ HalfDone(other)
        BY <2>13, <4>1, <4>2 DEF Idle, SessInv, SessionTypeOK
      <4>4. HalfDone(other)'
        BY <4>3, HalfDoneStays
      <4> QED BY <4>1, <4>2, <4>4 DEF HalfDone
    <3> QED BY <3>1, <3>2
  <2> QED BY <1>5, <2>10, <2>13, RestStays
<1>9. CASE Len(r.calls) = 1
  <2>1. /\ req' = [req EXCEPT ![q] = None]
        /\ IF r.ok /\ ok THEN Finalizes("completed") ELSE UNCHANGED <<session, live>>
    <3>1. /\ Returns(q)
          /\ IF CompletedWhen(r, works /\ CallSucceeds("release", r.at, Instant))
               THEN Finalizes("completed") ELSE UNCHANGED <<session, live>>
      BY <1>1, <1>9 DEF CompleteAnswered, Instant
    <3> QED BY <1>3, <3>1 DEF CompletedWhen, Returns
  <2>2. CASE r.ok /\ ok
    <3>1. PaidBack("rider") /\ r.calls[1].role = "driver"
      BY <1>2, <1>9, <2>2 DEF HalfDone
    <3>2. PaidBack("rider")' /\ PaidBack("driver")'
      BY <1>7, <2>2, <3>1, MoneyStays DEF PaidBack
    <3>3. CompletedReturns'
      BY <3>2 DEF CompletedReturns, StakeRole
    <3>4. ASSUME NEW p \in Req, ~Idle(p)' PROVE HalfDone(req[p])'
      <4>1. req'[p] = req[p] /\ ~Idle(p)
        BY <2>1, <3>4 DEF Idle, SessInv, SessionTypeOK
      <4>2. PICK other : other = req[p]
        OBVIOUS
      <4>3. other \in Request /\ HalfDone(other)
        BY <4>1, <4>2 DEF Idle, SessInv, SessionTypeOK
      <4>4. HalfDone(other)'
        BY <4>3, HalfDoneStays
      <4> QED BY <4>1, <4>2, <4>4 DEF HalfDone
    <3> QED BY <1>5, <3>3, <3>4
  <2>3. CASE ~(r.ok /\ ok)
    <3>1. \A p \in Req : req'[p] \in {req[p], None}
      BY <2>1 DEF SessInv, SessionTypeOK
    <3> QED BY <1>5, <2>1, <2>3, <3>1, OthersPayBack
  <2> QED BY <2>2, <2>3
<1> QED BY <1>2, <1>8, <1>9

\* /cancel has no hand in it.
LEMMA CancelPaysBack ==
    ASSUME PaysBackInv, SessInv', Allowed, NEW q \in Req,
           \/ \E party \in StakeParty : Cancel(q, party)
           \/ \E works \in BOOLEAN : CancelAnswered(q, works)
    PROVE  PaysBackInv'
<1> USE DEF PaysBackInv
<1>1. UNCHANGED record
  BY DEF Cancel, CancelAnswered, manager
<1>2. session'.status # "completed" \/ session'.status = session.status
  BY DEF Cancel, CancelAnswered, Finalizes, SessInv, SessionTypeOK, Session
<1>3. \/ UNCHANGED req
      \/ req'[q] = None /\ \A p \in Req : p # q => req'[p] = req[p]
      \/ /\ req'[q] # None /\ req'[q].op = "cancel"
         /\ \A p \in Req : p # q => req'[p] = req[p]
  <2>1. CASE \E party \in StakeParty : Cancel(q, party)
    <3>1. PICK party \in StakeParty : Cancel(q, party)
      BY <2>1
    <3>2. PICK start : start = Local("cancel", party)
      OBVIOUS
    <3>3. start \in Request /\ start.op = "cancel"
      BY <3>2, LocalIsRequest
    <3>4. \/ UNCHANGED req
          \/ Asks(q, [start EXCEPT !.calls = Penalty(party)])
      BY <3>1, <3>2 DEF Cancel
    <3>5. ASSUME Asks(q, [start EXCEPT !.calls = Penalty(party)])
          PROVE  /\ req'[q].op = "cancel"
                 /\ \A p \in Req : p # q => req'[p] = req[p]
      BY <3>3, <3>5 DEF Asks, SessInv, SessionTypeOK, Request
    <3>6. req'[q] \in Request \cup {None}
      BY DEF SessInv, SessionTypeOK
    <3> QED BY <3>4, <3>5, <3>6
  <2>2. CASE \E works \in BOOLEAN : CancelAnswered(q, works)
    BY <2>2 DEF CancelAnswered, Asks, Returns, Doing, Idle, SessInv, SessionTypeOK, Request
  <2> QED BY <2>1, <2>2
<1>4. \A p \in Req : \/ req'[p] \in {req[p], None}
                     \/ req'[p] \in Request /\ req'[p].op # "complete"
  BY <1>3 DEF SessInv, SessionTypeOK
<1> QED BY <1>1, <1>2, <1>4, RestStays, OthersPayBack

\* Nor have confirmations, drivers, payments and other rides.
LEMMA TheRestPaysBack ==
    ASSUME PaysBackInv, SessInv', Allowed,
           \/ \E q \in Req, party \in StakeParty, i \in Invoice : Stake(q, party, i)
           \/ \E party \in Driver : DriverAccept(party)
           \/ \E q \in Req, party \in StakeParty : Confirm(q, party)
           \/ \E q \in Req, works \in BOOLEAN : ConfirmAnswered(q, works)
           \/ \E p \in Rail : OtherRideStakes(p)
           \/ \E i \in Invoice : Pay(i) \/ InvoiceExpires(i)
           \/ UNCHANGED sessionVars
    PROVE  PaysBackInv'
<1> USE DEF PaysBackInv
<1>1. UNCHANGED record
  BY DEF Stake, DriverAccept, Confirm, ConfirmAnswered, OtherRideStakes, Pay, InvoiceExpires,
         sessionVars, manager
<1>2. session'.status # "completed" \/ session'.status = session.status
  BY DEF Stake, DriverAccept, Confirm, ConfirmAnswered, OtherRideStakes, Pay, InvoiceExpires,
         sessionVars, SessInv, SessionTypeOK, Session
<1>3. \A p \in Req : \/ req'[p] \in {req[p], None}
                     \/ req'[p] \in Request /\ req'[p].op # "complete"
  <2>1. ASSUME NEW q \in Req, NEW party \in StakeParty, NEW i \in Invoice, Stake(q, party, i)
        PROVE  \E r : r.op = "stake" /\ req' = [req EXCEPT ![q] = r]
    <3>1. PICK start : start = Local("stake", party)
      OBVIOUS
    <3>2. start \in Request /\ start.op = "stake"
      BY <3>1, LocalIsRequest
    <3>3. req' = [req EXCEPT ![q] = [start EXCEPT !.try = rails, !.at = i]]
      BY <2>1, <3>1 DEF Stake
    <3> QED BY <3>2, <3>3 DEF Request
  <2>2. ASSUME NEW q \in Req, NEW party \in StakeParty, Confirm(q, party)
        PROVE  \E r : r.op = "confirm" /\ req' = [req EXCEPT ![q] = r]
    <3>1. PICK start : start = Local("confirm", party)
      OBVIOUS
    <3>2. start \in Request /\ start.op = "confirm"
      BY <3>1, LocalIsRequest
    <3>3. req' = [req EXCEPT ![q] = [start EXCEPT !.at = record[current][RoleOf(party)]]]
      BY <2>2, <3>1 DEF Confirm
    <3> QED BY <3>2, <3>3 DEF Request
  <2>3. ASSUME NEW q \in Req, NEW works \in BOOLEAN, ConfirmAnswered(q, works)
        PROVE  req' = [req EXCEPT ![q] = None]
    BY <2>3 DEF ConfirmAnswered, Returns
  <2>4. \/ UNCHANGED req
        \/ \E q \in Req : \E r :
             (r = None \/ r.op \in {"stake", "confirm"}) /\ req' = [req EXCEPT ![q] = r]
    BY <2>1, <2>2, <2>3
       DEF DriverAccept, OtherRideStakes, Pay, InvoiceExpires, sessionVars
  <2>5. \A p \in Req : \/ req'[p] \in {req[p], None}
                       \/ req'[p].op \in {"stake", "confirm"}
    BY <2>4 DEF SessInv, SessionTypeOK
  <2>6. \A p \in Req : req'[p] \in Request \cup {None}
    BY DEF SessInv, SessionTypeOK
  <2> QED BY <2>5, <2>6
<1> QED BY <1>1, <1>2, <1>3, RestStays, OthersPayBack

LEMMA PaysBackNextInv ==
    ASSUME PaysBackInv, [SessionNext]_sessionVars
    PROVE  PaysBackInv'
<1>1. SessInv' /\ Allowed
  BY SessNextInv DEF PaysBackInv
<1>2. Outcome \subseteq BOOLEAN
  BY DEF Outcome
<1>3. ASSUME NEW q \in Req, NEW works \in Outcome,
             \/ StakeAnswered(q, works) \/ CompleteAnswered(q, works)
             \/ CancelAnswered(q, works)
      PROVE  PaysBackInv'
  <2>1. works \in BOOLEAN
    BY <1>2
  <2> QED BY <1>1, <1>3, <2>1, StakedPaysBack, CompleteAnsweredPaysBack, CancelPaysBack
<1>4. ASSUME NEW q \in Req, NEW party \in StakeParty, Complete(q, party) \/ Cancel(q, party)
      PROVE  PaysBackInv'
  BY <1>1, <1>4, CompletePaysBack, CancelPaysBack
<1>5. CASE \/ \E q \in Req, party \in StakeParty, i \in Invoice : Stake(q, party, i)
           \/ \E party \in Driver : DriverAccept(party)
           \/ \E q \in Req, party \in StakeParty : Confirm(q, party)
           \/ \E q \in Req, works \in Outcome : ConfirmAnswered(q, works)
           \/ \E p \in Rail : OtherRideStakes(p)
           \/ \E i \in Invoice : Pay(i) \/ InvoiceExpires(i)
           \/ UNCHANGED sessionVars
  BY <1>1, <1>2, <1>5, TheRestPaysBack
<1> QED BY <1>3, <1>4, <1>5 DEF SessionNext

LEMMA PaysBackInit == SessionInit => PaysBackInv
<1> SUFFICES ASSUME SessionInit PROVE PaysBackInv
  OBVIOUS
<1>1. SessInv
  BY SessInitInv
<1>2. AskedFor /\ CompletedReturns /\ \A q \in Req : Idle(q)
  BY DEF SessionInit, AskedFor, CompletedReturns, Idle
<1> QED BY <1>1, <1>2 DEF PaysBackInv

LEMMA PaysBackIsSound == SessionSpec => []PaysBackInv
<1>1. PaysBackInv /\ [SessionNext]_sessionVars => PaysBackInv'
  BY PaysBackNextInv
<1> QED BY <1>1, PaysBackInit, PTL DEF SessionSpec

\* For any lists of rails, any number of stakes, drivers and requests in flight, whatever
\* the nodes fail, and with cancellations and late answers in between: a session that
\* is over and "completed" has given both sides a stake back (/complete's two releases
\* and its 502, server.js).
THEOREM CompletedGivesBoth == SessionSpec => []CompletedReturns
<1>1. PaysBackInv => CompletedReturns
  BY DEF PaysBackInv
<1> QED BY <1>1, PaysBackIsSound, PTL

\* Hence, where the rider was asked for one stake only, that one.  (A rider whose two
\* stake requests overlap may be asked for two, and the first is then on no record.)
THEOREM CompletedIsPaidBack ==
    ASSUME \A i, j \in Invoice : Owner[i] = Rider /\ Owner[j] = Rider => i = j
    PROVE  SessionSpec => []CompletedPaysBack
<1>1. CompletedReturns => CompletedPaysBack
  <2> SUFFICES ASSUME CompletedReturns, session.status = "completed",
                      NEW i \in Invoice, Owner[i] = Rider
               PROVE  invoice[i] = "cancelled"
    BY DEF CompletedPaysBack
  <2>1. PICK j \in Invoice : RoleOf(Owner[j]) = "rider" /\ invoice[j] = "cancelled"
    BY DEF CompletedReturns, PaidBack, StakeRole
  <2>2. Owner[j] = Rider
    BY <2>1 DEF RoleOf
  <2> QED BY <2>1, <2>2
<1> QED BY <1>1, CompletedGivesBoth, PTL

-----------------------------------------------------------------------------
(* The rails themselves.                                                   *)

NodeStates == {"none", "unpaid", "held", "paid", "recorded", "cancelled", "settled", "refunded"}

StakeMark ==
    [ status : {"none", "pending", "locked", "released", "forfeited", "cancelled"},
      claimed : BOOLEAN ]

RailStep ==
    [ do : {"create", "confirm", "weigh", "cancel", "settle", "refund"},
      at : Deposit, mark : StakeMark ]

RailCall == [todo : Seq(RailStep), answer : NodeStates \cup {"error"}]

Steps(todo) == {todo[k] : k \in DOMAIN todo}

\* What a mark says of an invoice; a locked stake was paid, so it exists too.
Says(b, state, m) ==
    /\ b = "lnd" /\ m.status = "released" => state = "cancelled"
    /\ b = "lnd" /\ m.status = "locked" => state \notin {"none", "unpaid"}
    /\ b = "lnd" /\ m.status = "forfeited" /\ m.claimed => state = "settled"
    /\ b = "core-lightning" /\ m.status = "forfeited" => state = "cancelled"
    /\ b = "btcpay" /\ m.status = "released" => state = "refunded"

\* The mark a step will leave, of which rail.
Fits(b, st) ==
    /\ b # "demo"
    /\ st.do = "create" => st.mark.status = "pending"
    /\ st.do = "confirm" => b = "lnd" /\ st.mark.status = "locked"
    /\ st.do = "weigh" => b = "lnd" /\ st.mark.status = "forfeited" /\ ~st.mark.claimed
    /\ st.do = "cancel" => /\ b \in {"lnd", "core-lightning"}
                           /\ st.mark.status \in {"released", "forfeited"}
                           /\ ~st.mark.claimed
    /\ st.do = "settle" => b = "lnd" /\ st.mark.status = "forfeited"
    /\ st.do = "refund" => b = "btcpay" /\ st.mark.status = "released"

\* What the node is known to have done by an answer that arrived.
AnsweredBy(do, answer, state) ==
    /\ do = "create" => answer = "unpaid" /\ state # "none"
    /\ do \in {"confirm", "weigh"} => answer = "unpaid" \/ state \notin {"none", "unpaid"}
    /\ do = "cancel" => state = "cancelled"
    /\ do = "settle" => state = "settled"
    /\ do = "refund" => state = "refunded"

\* An invoice being made out is not at the node yet; of every other that is asked
\* about, the node has heard.
CallIsRight(b, n, c) ==
    /\ c \in RailCall
    /\ \A st \in Steps(c.todo) :
         /\ Fits(b, st)
         /\ st.do # "create" => n[st.at] # "none"
         /\ st.do = "create" => c.todo = <<st>> /\ (c.answer = "none" => n[st.at] = "none")
    /\ c.answer # "none" => c.todo # <<>>
    /\ c.answer \notin {"none", "error"} =>
         AnsweredBy(Head(c.todo).do, c.answer, n[Head(c.todo).at])

RowIsTrue(b, n, row) ==
    /\ row.at \in Deposit \cup {NoDeposit}
    /\ row.at # NoDeposit =>
         n[row.at] # "none" /\ row.mark \in StakeMark /\ Says(b, n[row.at], row.mark)

\* An invoice is made out by one call.
MadeOutOnce ==
    \A p, q \in Slot : \A st \in Steps(calls[p].todo), to \in Steps(calls[q].todo) :
        st.do = "create" /\ to.do = "create" /\ st.at = to.at => p = q

RailTypeOK ==
    /\ node \in [Deposit -> NodeStates]
    /\ book \in [Sides -> Deposit \cup {NoDeposit}]
    /\ mark \in [Deposit -> StakeMark]
    /\ calls \in [Slot -> RailCall]
    /\ dbRows = [s \in Sides |-> dbRows[s]]

MarksAreTrue == \A i \in Deposit : Says(backend, node[i], mark[i])

RailInv ==
    /\ RailTypeOK
    /\ \A s \in Sides : book[s] # NoDeposit => node[book[s]] # "none"
    /\ MarksAreTrue
    /\ \A q \in Slot : CallIsRight(backend, node, calls[q])
    /\ MadeOutOnce
    /\ \A s \in Sides : RowIsTrue(backend, node, dbRows[s])
    /\ \A row \in dbSaves : row.side \in Sides /\ RowIsTrue(backend, node, row)

\* What an invoice has become at the node and never stops being.
NodeLasts(n, to) ==
    \A i \in Deposit :
        /\ n[i] \in {"cancelled", "settled", "refunded"} => to[i] = n[i]
        /\ n[i] \notin {"none", "unpaid"} => to[i] \notin {"none", "unpaid"}
        /\ n[i] # "none" => to[i] # "none"

LEMMA MarkTypes ==
    ASSUME NEW status \in {"none", "pending", "locked", "released", "forfeited", "cancelled"},
           NEW claimed \in BOOLEAN
    PROVE  /\ Marked(status, claimed) \in StakeMark
           /\ Marked(status, claimed).status = status
           /\ (Marked(status, claimed).claimed <=> claimed)
BY DEF Marked, StakeMark

\* One step, and two in a row.
LEMMA OneStep ==
    ASSUME NEW st \in RailStep
    PROVE  <<st>> \in Seq(RailStep) /\ Steps(<<st>>) = {st} /\ <<st>> # <<>>
BY DEF Steps

LEMMA TodoParts ==
    ASSUME NEW todo \in Seq(RailStep), todo # <<>>
    PROVE  /\ Head(todo) \in Steps(todo) /\ Head(todo) \in RailStep
           /\ Tail(todo) \in Seq(RailStep)
           /\ Steps(Tail(todo)) \subseteq Steps(todo)
<1>1. /\ Head(todo) = todo[1] /\ 1 \in DOMAIN todo
      /\ Tail(todo) \in Seq(RailStep)
      /\ \A k \in DOMAIN Tail(todo) : k + 1 \in DOMAIN todo /\ Tail(todo)[k] = todo[k + 1]
  <2>1. Len(todo) \in Nat /\ Len(todo) # 0 /\ DOMAIN todo = 1..Len(todo)
    BY EmptySeq, LenProperties
  <2>2. /\ Tail(todo) \in Seq(RailStep) /\ Len(Tail(todo)) = Len(todo) - 1
        /\ \A k \in 1..Len(Tail(todo)) : Tail(todo)[k] = todo[k + 1]
        /\ Head(todo) = todo[1]
    BY HeadTailProperties
  <2>3. DOMAIN Tail(todo) = 1..Len(Tail(todo))
    BY <2>2, LenProperties
  <2> QED BY <2>1, <2>2, <2>3
<1>2. todo[1] \in RailStep
  BY <1>1, ElementOfSeq, LenProperties
<1> QED BY <1>1, <1>2 DEF Steps

LEMMA BothParts ==
    ASSUME NEW a \in Seq(RailStep), NEW z \in Seq(RailStep)
    PROVE  /\ a \o z \in Seq(RailStep)
           /\ \A st \in Steps(a \o z) : st \in Steps(a) \/ st \in Steps(z)
<1>1. /\ a \o z \in Seq(RailStep) /\ Len(a \o z) = Len(a) + Len(z)
      /\ \A k \in 1..Len(a) + Len(z) :
           (a \o z)[k] = IF k <= Len(a) THEN a[k] ELSE z[k - Len(a)]
  BY ConcatProperties
<1>2. /\ Len(a) \in Nat /\ Len(z) \in Nat /\ DOMAIN a = 1..Len(a) /\ DOMAIN z = 1..Len(z)
      /\ DOMAIN (a \o z) = 1..Len(a \o z)
  BY <1>1, LenProperties
<1> QED BY <1>1, <1>2 DEF Steps

LEMMA SaysLasts ==
    ASSUME NEW b, NEW n, NEW to, NodeLasts(n, to), NEW i \in Deposit, NEW m, Says(b, n[i], m)
    PROVE  Says(b, to[i], m)
BY DEF NodeLasts, Says

LEMMA RowLasts ==
    ASSUME NEW b, NEW n, NEW to, NodeLasts(n, to), NEW row, RowIsTrue(b, n, row)
    PROVE  RowIsTrue(b, to, row)
BY SaysLasts DEF RowIsTrue, NodeLasts

LEMMA CallLasts ==
    ASSUME NEW b, NEW n, NEW to, NodeLasts(n, to), NEW c, CallIsRight(b, n, c),
           \A st \in Steps(c.todo) :
              st.do = "create" /\ c.answer = "none" => to[st.at] = n[st.at]
    PROVE  CallIsRight(b, to, c)
<1>1. c \in RailCall /\ \A st \in Steps(c.todo) : st.at \in Deposit
  <2>1. c \in RailCall /\ c.todo \in Seq(RailStep)
    BY DEF CallIsRight, RailCall
  <2>2. \A k \in DOMAIN c.todo : c.todo[k] \in RailStep
    BY <2>1, ElementOfSeq, LenProperties
  <2> QED BY <2>1, <2>2 DEF Steps, RailStep
<1>2. \A st \in Steps(c.todo) :
         /\ Fits(b, st)
         /\ st.do # "create" => to[st.at] # "none"
         /\ st.do = "create" => c.todo = <<st>> /\ (c.answer = "none" => to[st.at] = "none")
  BY <1>1 DEF CallIsRight, NodeLasts
<1>3. ASSUME c.answer \notin {"none", "error"}
      PROVE  AnsweredBy(Head(c.todo).do, c.answer, to[Head(c.todo).at])
  <2>1. c.todo # <<>> /\ c.todo \in Seq(RailStep)
    BY <1>1, <1>3 DEF CallIsRight, RailCall
  <2>2. Head(c.todo).at \in Deposit
    BY <1>1, <2>1, TodoParts
  <2>3. AnsweredBy(Head(c.todo).do, c.answer, n[Head(c.todo).at])
    BY <1>3 DEF CallIsRight
  <2> QED BY <2>2, <2>3 DEF AnsweredBy, NodeLasts
<1> QED BY <1>1, <1>2, <1>3 DEF CallIsRight

-----------------------------------------------------------------------------
(* The steps of the rails.                                                 *)

LEMMA NothingAsks ==
    /\ Free \in RailCall /\ Free.todo = <<>> /\ Free.answer = "none"
    /\ Steps(Free.todo) = {}
    /\ \A b, n : CallIsRight(b, n, Free)
<1>1. /\ Free \in RailCall /\ Free.todo = <<>> /\ Free.answer = "none"
      /\ Steps(Free.todo) = {}
  BY EmptySeq, LenProperties DEF Free, RailCall, NodeStates, Steps
<1> QED BY <1>1 DEF CallIsRight

LEMMA RailsInitInv == RailsInit => RailInv
<1> SUFFICES ASSUME RailsInit PROVE RailInv
  OBVIOUS
<1>1. PICK m : m = Marked("none", FALSE)
  OBVIOUS
<1>2. m \in StakeMark /\ m.status = "none"
  BY <1>1, MarkTypes
<1>3. \A b, state : Says(b, state, m)
  BY <1>2 DEF Says
<1>4. /\ node = [i \in Deposit |-> "none"] /\ book = [s \in Sides |-> NoDeposit]
      /\ mark = [i \in Deposit |-> m] /\ calls = [q \in Slot |-> Free]
      /\ dbRows = [s \in Sides |-> NoRow] /\ dbSaves = {}
  BY <1>1 DEF RailsInit
<1>5. RailTypeOK
  BY <1>2, <1>4, NothingAsks DEF RailTypeOK, NodeStates
<1>6. MarksAreTrue
  BY <1>3, <1>4 DEF MarksAreTrue
<1>7. \A q \in Slot : CallIsRight(backend, node, calls[q])
  BY <1>4, NothingAsks
<1>8. MadeOutOnce
  BY <1>4, NothingAsks DEF MadeOutOnce
<1>9. \A s \in Sides : RowIsTrue(backend, node, dbRows[s])
  BY <1>4 DEF RowIsTrue, NoRow
<1> QED BY <1>4, <1>5, <1>6, <1>7, <1>8, <1>9 DEF RailInv

\* A call that begins, of steps that fit; it may leave marks of its own at once.
LEMMA BeginsInv ==
    ASSUME RailInv, NEW q \in Slot, NEW todo \in Seq(RailStep), Begins(q, todo),
           \A st \in Steps(todo) :
              /\ Fits(backend, st)
              /\ st.do # "create" => node[st.at] # "none"
              /\ st.do = "create" => todo = <<st>> /\ Unissued(st.at),
           mark' \in [Deposit -> StakeMark],
           \A i \in Deposit : Says(backend, node[i], mark'[i])
    PROVE  RailInv'
<1> USE DEF RailInv
<1>1. /\ calls[q] = Free /\ UNCHANGED <<backend, node, book, dbRows, dbSaves>>
      /\ calls' = [calls EXCEPT ![q].todo = todo]
  BY DEF Begins
<1>2. PICK c : c = [todo |-> todo, answer |-> "none"]
  OBVIOUS
<1>3. c \in RailCall /\ c.todo = todo /\ c.answer = "none"
  BY <1>2 DEF RailCall, NodeStates
<1>4. /\ calls' \in [Slot -> RailCall]
      /\ \A p \in Slot : calls'[p] = IF p = q THEN c ELSE calls[p]
  BY <1>1, <1>2, <1>3 DEF RailTypeOK, Free
<1>5. CallIsRight(backend, node, c)
  BY <1>3 DEF CallIsRight, Unissued
<1>6. RailTypeOK'
  BY <1>1, <1>4 DEF RailTypeOK
<1>7. ASSUME NEW p \in Slot PROVE CallIsRight(backend, node, calls[p])'
  BY <1>1, <1>4, <1>5
<1>8. MadeOutOnce'
  <2>1. SUFFICES ASSUME NEW p \in Slot, NEW o \in Slot, NEW st \in Steps(calls'[p].todo),
                        NEW to \in Steps(calls'[o].todo), st.do = "create", to.do = "create",
                        st.at = to.at, p # o
                 PROVE  FALSE
    BY DEF MadeOutOnce
  <2>2. CASE p # q /\ o # q
    BY <1>4, <2>1, <2>2 DEF MadeOutOnce
  <2>3. CASE p = q
    <3>1. st \in Steps(todo) /\ to \in Steps(calls[o].todo)
      BY <1>3, <1>4, <2>1, <2>3
    <3> QED BY <2>1, <3>1 DEF Unissued, Steps
  <2>4. CASE o = q
    <3>1. to \in Steps(todo) /\ st \in Steps(calls[p].todo)
      BY <1>3, <1>4, <2>1, <2>4
    <3> QED BY <2>1, <3>1 DEF Unissued, Steps
  <2> QED BY <2>2, <2>3, <2>4
<1>9. MarksAreTrue'
  BY <1>1 DEF MarksAreTrue
<1> QED BY <1>1, <1>6, <1>7, <1>8, <1>9

\* A call of one step.
LEMMA BeginsOne ==
    ASSUME RailInv, NEW q \in Slot, NEW st \in RailStep, Begins(q, <<st>>), Fits(backend, st),
           st.do # "create" => node[st.at] # "none",
           st.do = "create" => Unissued(st.at), UNCHANGED mark
    PROVE  RailInv'
<1>1. <<st>> \in Seq(RailStep) /\ Steps(<<st>>) = {st}
  BY OneStep
<1>2. mark' \in [Deposit -> StakeMark] /\ \A i \in Deposit : Says(backend, node[i], mark'[i])
  BY DEF RailInv, RailTypeOK, MarksAreTrue
<1> QED BY <1>1, <1>2, BeginsInv

\* A call that asks the node to make an invoice out.
LEMMA InvoicesInv ==
    ASSUME RailInv, NEW q \in Slot, NEW i \in Deposit,
           lndLock(q, i) \/ clnLock(q, i) \/ btcpayLock(q, i) \/ albyLock(q, i)
    PROVE  RailInv'
<1>1. backend # "demo" /\ Invoices(q, i)
  BY DEF lndLock, clnLock, btcpayLock, albyLock
<1>2. PICK st : st = Step("create", i, "pending", FALSE)
  OBVIOUS
<1>3. st \in RailStep /\ st.do = "create" /\ st.at = i /\ st.mark.status = "pending"
  BY <1>2 DEF Step, Marked, RailStep, StakeMark
<1>4. Begins(q, <<st>>) /\ Unissued(i) /\ UNCHANGED mark
  BY <1>1, <1>2 DEF Invoices
<1> QED BY <1>1, <1>3, <1>4, BeginsOne DEF Fits

\* lnd asked about a stake it has.
LEMMA lndAsksInv ==
    ASSUME RailInv, NEW q \in Slot, NEW s \in Sides,
           lndConfirm(q, s) \/ lndRelease(q, s) \/ lndForfeit(q, s)
    PROVE  RailInv'
<1>1. PICK i : i = book[s]
  OBVIOUS
<1>2. i \in Deposit /\ node[i] # "none" /\ backend = "lnd" /\ UNCHANGED mark
  BY <1>1 DEF RailInv, RailTypeOK, lndConfirm, lndRelease, lndForfeit
<1>3. CASE lndConfirm(q, s)
  <2>1. PICK st : st = Step("confirm", i, "locked", FALSE)
    OBVIOUS
  <2>2. st \in RailStep /\ st.do = "confirm" /\ st.at = i /\ st.mark.status = "locked"
    BY <1>2, <2>1 DEF Step, Marked, RailStep, StakeMark
  <2>3. Begins(q, <<st>>)
    BY <1>1, <1>3, <2>1 DEF lndConfirm
  <2> QED BY <1>2, <2>2, <2>3, BeginsOne DEF Fits
<1>4. CASE lndRelease(q, s)
  <2>1. PICK st : st = Step("cancel", i, "released", FALSE)
    OBVIOUS
  <2>2. /\ st \in RailStep /\ st.do = "cancel" /\ st.at = i /\ st.mark.status = "released"
        /\ ~st.mark.claimed
    BY <1>2, <2>1 DEF Step, Marked, RailStep, StakeMark
  <2>3. Begins(q, <<st>>)
    BY <1>1, <1>4, <2>1 DEF lndRelease, Undo
  <2> QED BY <1>2, <2>2, <2>3, BeginsOne DEF Fits
<1>5. CASE lndForfeit(q, s)
  <2>1. PICK st : st = Step("weigh", i, "forfeited", FALSE)
    OBVIOUS
  <2>2. /\ st \in RailStep /\ st.do = "weigh" /\ st.at = i /\ st.mark.status = "forfeited"
        /\ ~st.mark.claimed
    BY <1>2, <2>1 DEF Step, Marked, RailStep, StakeMark
  <2>3. Begins(q, <<st>>)
    BY <1>1, <1>5, <2>1 DEF lndForfeit
  <2> QED BY <1>2, <2>2, <2>3, BeginsOne DEF Fits
<1> QED BY <1>3, <1>4, <1>5

\* core-lightning gives the penalised stake back.
LEMMA clnForfeitInv ==
    ASSUME RailInv, NEW q \in Slot, NEW s \in Sides, clnForfeit(q, s)
    PROVE  RailInv'
<1>1. PICK i : i = ForfeitingOf(s)
  OBVIOUS
<1>2. /\ i \in Deposit /\ node[i] # "none" /\ backend = "core-lightning" /\ UNCHANGED mark
  BY <1>1 DEF RailInv, RailTypeOK, clnForfeit, ForfeitingOf, Sides
<1>3. PICK st : st = Step("cancel", i, "forfeited", FALSE)
  OBVIOUS
<1>4. /\ st \in RailStep /\ st.do = "cancel" /\ st.at = i /\ st.mark.status = "forfeited"
      /\ ~st.mark.claimed
  BY <1>2, <1>3 DEF Step, Marked, RailStep, StakeMark
<1>5. Begins(q, <<st>>)
  BY <1>1, <1>3 DEF clnForfeit
<1> QED BY <1>2, <1>4, <1>5, BeginsOne DEF Fits

\* What btcpay sends back: stakes it has.
LEMMA RefundSteps ==
    ASSUME RailInv, NEW ids, NoDeposit \notin ids
    PROVE  /\ Refunds(ids) \in Seq(RailStep)
           /\ \A st \in Steps(Refunds(ids)) :
                 st.do = "refund" /\ st.mark.status = "released" /\ node[st.at] # "none"
<1> DEFINE Good(st) == st.do = "refund" /\ st.mark.status = "released" /\ node[st.at] # "none"
<1>1. ASSUME NEW s \in Sides
      PROVE  RefundOf(s, ids) \in Seq(RailStep) /\ \A st \in Steps(RefundOf(s, ids)) : Good(st)
  <2>1. CASE book[s] \notin ids
    BY <2>1, EmptySeq, LenProperties DEF RefundOf, Steps
  <2>2. CASE book[s] \in ids
    <3>1. PICK i : i = book[s]
      OBVIOUS
    <3>2. i \in Deposit /\ node[i] # "none"
      BY <2>2, <3>1 DEF RailInv, RailTypeOK
    <3>3. PICK st : st = Refund(i)
      OBVIOUS
    <3>4. st \in RailStep /\ st.at = i /\ st.do = "refund" /\ st.mark.status = "released"
      BY <3>2, <3>3 DEF Refund, Step, Marked, RailStep, StakeMark
    <3> QED BY <2>2, <3>1, <3>2, <3>3, <3>4, OneStep DEF RefundOf
  <2> QED BY <2>1, <2>2
<1>2. PICK a, z : a = RefundOf("rider", ids) /\ z = RefundOf("driver", ids)
  OBVIOUS
<1>3. /\ a \in Seq(RailStep) /\ \A st \in Steps(a) : Good(st)
      /\ z \in Seq(RailStep) /\ \A st \in Steps(z) : Good(st)
  <2>1. "rider" \in Sides /\ "driver" \in Sides
    BY DEF Sides
  <2> QED BY <1>1, <1>2, <2>1
<1> HIDE DEF Good
<1>4. a \o z \in Seq(RailStep) /\ \A st \in Steps(a \o z) : Good(st)
  BY <1>3, BothParts
<1> QED BY <1>2, <1>4 DEF Refunds, Good

LEMMA btcpayAsksInv ==
    ASSUME RailInv, NEW q \in Slot,
           btcpayRelease(q) \/ \E s \in Sides : btcpayForfeit(q, s)
    PROVE  RailInv'
<1>1. backend = "btcpay"
  BY DEF btcpayRelease, btcpayForfeit
<1>2. CASE btcpayRelease(q)
  <2>1. NoDeposit \notin Booked /\ Begins(q, Refunds(Booked)) /\ UNCHANGED mark
    BY <1>2 DEF btcpayRelease, Booked
  <2>2. mark' \in [Deposit -> StakeMark] /\ \A i \in Deposit : Says(backend, node[i], mark'[i])
    BY <2>1 DEF RailInv, RailTypeOK, MarksAreTrue
  <2> QED BY <1>1, <2>1, <2>2, RefundSteps, BeginsInv DEF Fits
<1>3. ASSUME NEW s \in Sides, btcpayForfeit(q, s) PROVE RailInv'
  <2>1. PICK i : i = ForfeitingOf(s)
    OBVIOUS
  <2>2. i \in Deposit
    BY <1>3, <2>1 DEF RailInv, RailTypeOK, btcpayForfeit, ForfeitingOf, Sides
  <2>3. PICK m : m = Marked("forfeited", TRUE)
    OBVIOUS
  <2>4. m \in StakeMark /\ m.status = "forfeited"
    BY <2>3, MarkTypes
  <2>5. mark' = [mark EXCEPT ![i] = m]
    BY <1>3, <2>1, <2>3 DEF btcpayForfeit
  <2>6. mark' \in [Deposit -> StakeMark] /\ \A j \in Deposit : Says(backend, node[j], mark'[j])
    BY <1>1, <2>2, <2>4, <2>5 DEF RailInv, RailTypeOK, MarksAreTrue, Says
  <2>7. PICK ids : ids = {InnocentOf(s)} \ {NoDeposit}
    OBVIOUS
  <2>8. NoDeposit \notin ids /\ Begins(q, Refunds(ids))
    BY <1>3, <2>7 DEF btcpayForfeit
  <2> QED BY <1>1, <2>6, <2>8, RefundSteps, BeginsInv DEF Fits
<1> QED BY <1>2, <1>3

\* A step between calls: of the node, or of a rail that asks nobody.
LEMMA QuietStep ==
    ASSUME RailInv, UNCHANGED <<backend, calls, dbRows, dbSaves>>,
           node' \in [Deposit -> NodeStates], NodeLasts(node, node'),
           \A q \in Slot : \A st \in Steps(calls[q].todo) :
              st.do = "create" /\ calls[q].answer = "none" => node'[st.at] = node[st.at],
           book' \in [Sides -> Deposit \cup {NoDeposit}],
           \A s \in Sides : book'[s] # NoDeposit => node'[book'[s]] # "none",
           mark' \in [Deposit -> StakeMark],
           \A i \in Deposit : Says(backend, node'[i], mark'[i])
    PROVE  RailInv'
<1>1. RailTypeOK'
  BY DEF RailInv, RailTypeOK
<1>2. MarksAreTrue'
  BY DEF MarksAreTrue
<1>3. ASSUME NEW q \in Slot PROVE CallIsRight(backend, node, calls[q])'
  <2>1. PICK c, n, to : c = calls[q] /\ n = node /\ to = node'
    OBVIOUS
  <2>2. CallIsRight(backend, n, c)
    BY <2>1 DEF RailInv
  <2>3. CallIsRight(backend, to, c)
    BY <2>1, <2>2, CallLasts
  <2> QED BY <2>1, <2>3
<1>4. MadeOutOnce'
  BY DEF RailInv, MadeOutOnce
<1>5. ASSUME NEW s \in Sides PROVE RowIsTrue(backend, node, dbRows[s])'
  <2>1. RowIsTrue(backend, node', dbRows[s])
    BY RowLasts DEF RailInv
  <2> QED BY <2>1
<1>6. ASSUME NEW row \in dbSaves PROVE row.side \in Sides /\ RowIsTrue(backend, node', row)
  BY RowLasts DEF RailInv
<1> QED BY <1>1, <1>2, <1>3, <1>4, <1>5, <1>6 DEF RailInv

LEMMA NodeSame == \A n : NodeLasts(n, n)
BY DEF NodeLasts

\* A payer pays, or an hour passes.
LEMMA PayersInv ==
    ASSUME RailInv, NEW i \in Deposit, PayerPays(i) \/ HoldExpires(i)
    PROVE  RailInv'
<1>1. PICK to \in {"held", "paid", "cancelled"} :
        /\ node[i] \in {"unpaid", "held"} /\ (to # "cancelled" => node[i] = "unpaid")
        /\ node' = [node EXCEPT ![i] = to]
  BY DEF PayerPays, HoldExpires, FundedAs
<1>2. UNCHANGED <<backend, book, mark, calls, dbRows, dbSaves>>
  BY DEF PayerPays, HoldExpires
<1>3. /\ node' \in [Deposit -> NodeStates]
      /\ \A j \in Deposit : node'[j] = IF j = i THEN to ELSE node[j]
  BY <1>1 DEF RailInv, RailTypeOK, NodeStates
<1>4. NodeLasts(node, node')
  BY <1>1, <1>3 DEF NodeLasts
<1>5. \A q \in Slot : \A st \in Steps(calls[q].todo) :
         st.do = "create" /\ calls[q].answer = "none" => node'[st.at] = node[st.at]
  BY <1>1, <1>3 DEF RailInv, CallIsRight
<1>6. \A j \in Deposit : Says(backend, node'[j], mark'[j])
  BY <1>2, <1>4, SaysLasts DEF RailInv, MarksAreTrue
<1>7. \A s \in Sides : book'[s] # NoDeposit => node'[book'[s]] # "none"
  BY <1>2, <1>4 DEF RailInv, RailTypeOK, NodeLasts
<1> QED BY <1>2, <1>3, <1>4, <1>5, <1>6, <1>7, QuietStep DEF RailInv, RailTypeOK

\* Rails whose marks claim nothing of a node.
LEMMA AtOnceInv ==
    ASSUME RailInv,
           albyRelease \/ \E i \in Deposit : demoLock(i) \/ demoRelease(i) \/ demoForfeit(i)
    PROVE  RailInv'
<1>1. backend \in {"alby", "demo"} /\ UNCHANGED <<backend, calls, dbRows, dbSaves>>
  BY DEF albyRelease, demoLock, demoRelease, demoForfeit, AtOnce
<1>2. \A state, m : Says(backend, state, m)
  BY <1>1 DEF Says
<1>3. CASE albyRelease
  <2>1. PICK marks : marks = [i \in Booked |-> Marked("released", FALSE)]
    OBVIOUS
  <2>2. mark' = [i \in Deposit |-> IF i \in DOMAIN marks THEN marks[i] ELSE mark[i]]
    BY <1>3, <2>1 DEF albyRelease, AtOnce
  <2>3. \A i \in DOMAIN marks : marks[i] \in StakeMark
    BY <2>1, MarkTypes
  <2>4. mark' \in [Deposit -> StakeMark]
    BY <2>2, <2>3 DEF RailInv, RailTypeOK
  <2>5. UNCHANGED <<node, book>>
    BY <1>3 DEF albyRelease, AtOnce
  <2> QED BY <1>1, <1>2, <2>4, <2>5, NodeSame, QuietStep DEF RailInv, RailTypeOK
<1>4. ASSUME NEW i \in Deposit, demoRelease(i) \/ demoForfeit(i) PROVE RailInv'
  <2>1. PICK m : mark' = [j \in Deposit |-> IF j \in {i} THEN m ELSE mark[j]] /\ m \in StakeMark
    <3>1. mark[i].claimed \in BOOLEAN
      BY DEF RailInv, RailTypeOK, StakeMark
    <3>2. CASE demoRelease(i)
      BY <3>1, <3>2 DEF demoRelease, AtOnce, Marked, StakeMark
    <3>3. CASE demoForfeit(i)
      <4>1. PICK m : m = Marked("forfeited", TRUE)
        OBVIOUS
      <4>2. m \in StakeMark
        BY <4>1, MarkTypes
      <4>3. mark' = [j \in Deposit |-> IF j \in {i} THEN m ELSE mark[j]]
        BY <3>3, <4>1 DEF demoForfeit, AtOnce
      <4> QED BY <4>2, <4>3
    <3> QED BY <1>4, <3>2, <3>3
  <2>2. mark' \in [Deposit -> StakeMark]
    BY <2>1 DEF RailInv, RailTypeOK
  <2>3. UNCHANGED <<node, book>>
    BY <1>4 DEF demoRelease, demoForfeit, AtOnce
  <2> QED BY <1>1, <1>2, <2>2, <2>3, NodeSame, QuietStep DEF RailInv, RailTypeOK
<1>5. ASSUME NEW i \in Deposit, demoLock(i) PROVE RailInv'
  <2>1. PICK m : m = Marked("locked", FALSE)
    OBVIOUS
  <2>2. m \in StakeMark
    BY <2>1, MarkTypes
  <2>3. /\ node[i] = "none" /\ backend = "demo" /\ node' = [node EXCEPT ![i] = "recorded"]
        /\ book' = [book EXCEPT ![SideOf[i]] = i] /\ mark' = [mark EXCEPT ![i] = m]
    BY <1>5, <2>1 DEF demoLock
  <2>4. /\ node' \in [Deposit -> NodeStates]
        /\ \A j \in Deposit : node'[j] = IF j = i THEN "recorded" ELSE node[j]
    BY <2>3 DEF RailInv, RailTypeOK, NodeStates
  <2>5. NodeLasts(node, node')
    BY <2>3, <2>4 DEF NodeLasts
  <2>6. \A q \in Slot : \A st \in Steps(calls[q].todo) : FALSE
    BY <2>3 DEF RailInv, CallIsRight, Fits
  <2>7. /\ book' \in [Sides -> Deposit \cup {NoDeposit}]
        /\ \A s \in Sides : book'[s] # NoDeposit => node'[book'[s]] # "none"
    BY <2>3, <2>4, RailsAssumption DEF RailInv, RailTypeOK
  <2>8. mark' \in [Deposit -> StakeMark]
    BY <2>2, <2>3 DEF RailInv, RailTypeOK
  <2> QED BY <1>1, <1>2, <2>4, <2>5, <2>6, <2>7, <2>8, QuietStep
<1> QED BY <1>3, <1>4, <1>5

\* What the node makes of a step that fits.
LEMMA NodeAnswers ==
    ASSUME NEW b, NEW st \in RailStep, Fits(b, st), NEW state \in NodeStates,
           st.do # "create" => state # "none", st.do = "create" => state = "none",
           NEW outcome, outcome = NodeMakes(st.do, state), outcome # "error"
    PROVE  /\ outcome \in NodeStates
           /\ AnsweredBy(st.do, outcome, outcome)
           /\ outcome # "none"
           /\ state \in {"cancelled", "settled", "refunded"} => outcome = state
           /\ state \notin {"none", "unpaid"} => outcome \notin {"none", "unpaid"}
<1>1. CASE st.do = "create"
  BY <1>1 DEF NodeMakes, NodeStates, AnsweredBy
<1>2. CASE st.do = "confirm" \/ st.do = "weigh"
  BY <1>2 DEF NodeMakes, NodeStates, AnsweredBy
<1>3. CASE st.do = "cancel"
  BY <1>3 DEF NodeMakes, NodeStates, AnsweredBy
<1>4. CASE st.do = "settle"
  BY <1>4 DEF NodeMakes, NodeStates, AnsweredBy
<1>5. CASE st.do = "refund"
  BY <1>5 DEF NodeMakes, NodeStates, AnsweredBy
<1> QED BY <1>1, <1>2, <1>3, <1>4, <1>5 DEF RailStep

\* The node acts on a step; the invoice being made out is no other call's.
LEMMA NodeActsInv ==
    ASSUME RailInv, NEW q \in Slot, NodeActs(q)
    PROVE  RailInv'
<1>1. PICK c, n, st : c = calls[q] /\ n = node /\ st = Head(c.todo)
  OBVIOUS
<1>2. /\ c \in RailCall /\ c.todo \in Seq(RailStep) /\ c.todo # <<>> /\ c.answer = "none"
      /\ CallIsRight(backend, n, c) /\ n \in [Deposit -> NodeStates]
  BY <1>1 DEF NodeActs, RailInv, RailTypeOK, RailCall
<1>3. st \in RailStep /\ st \in Steps(c.todo) /\ st.at \in Deposit
  BY <1>1, <1>2, TodoParts DEF RailStep
<1>4. /\ Fits(backend, st) /\ (st.do # "create" => n[st.at] # "none")
      /\ (st.do = "create" => c.todo = <<st>> /\ n[st.at] = "none")
  BY <1>2, <1>3 DEF CallIsRight
<1>5. PICK outcome : outcome = NodeMakes(st.do, n[st.at])
  OBVIOUS
<1>6. PICK answer \in {outcome, "error"} :
        /\ calls' = [calls EXCEPT ![q].answer = answer]
        /\ node' = IF outcome = "error" \/ (st.do = "create" /\ answer = "error")
                     THEN n ELSE [n EXCEPT ![st.at] = outcome]
  BY <1>1, <1>5 DEF NodeActs
<1>7. /\ UNCHANGED <<backend, book, mark, dbRows, dbSaves>>
  BY DEF NodeActs
<1>8. outcome # "error" =>
        /\ outcome \in NodeStates /\ AnsweredBy(st.do, outcome, outcome) /\ outcome # "none"
        /\ n[st.at] \in {"cancelled", "settled", "refunded"} => outcome = n[st.at]
        /\ n[st.at] \notin {"none", "unpaid"} => outcome \notin {"none", "unpaid"}
  BY <1>2, <1>3, <1>4, <1>5, NodeAnswers
<1>9. PICK to : to = node'
  OBVIOUS
<1>10. /\ to \in [Deposit -> NodeStates]
       /\ \A j \in Deposit : j # st.at => to[j] = n[j]
       /\ \/ to[st.at] = n[st.at] /\ (outcome = "error" \/ (st.do = "create" /\ answer = "error"))
          \/ to[st.at] = outcome /\ outcome # "error"
  BY <1>2, <1>3, <1>6, <1>8, <1>9
<1>11. NodeLasts(n, to)
  BY <1>8, <1>10 DEF NodeLasts
<1>12. PICK new : new = [c EXCEPT !.answer = answer]
  OBVIOUS
<1>13. new \in RailCall /\ new.todo = c.todo /\ new.answer = answer
  BY <1>2, <1>6, <1>8, <1>12 DEF RailCall
<1>14. /\ calls' \in [Slot -> RailCall]
       /\ \A p \in Slot : calls'[p] = IF p = q THEN new ELSE calls[p]
  BY <1>1, <1>6, <1>12, <1>13 DEF RailInv, RailTypeOK
<1>15. CallIsRight(backend, to, new)
  <2>1. \A o \in Steps(c.todo) :
           /\ Fits(backend, o)
           /\ o.do # "create" => n[o.at] # "none"
           /\ o.do = "create" => c.todo = <<o>> /\ n[o.at] = "none"
    BY <1>2 DEF CallIsRight
  <2>2. \A o \in Steps(c.todo) : o.at \in Deposit
    <3>1. \A k \in DOMAIN c.todo : c.todo[k] \in RailStep
      BY <1>2, ElementOfSeq, LenProperties
    <3> QED BY <3>1 DEF Steps, RailStep
  <2>3. answer = "none" => FALSE
    BY <1>6, <1>8
  <2>4. \A o \in Steps(new.todo) :
           /\ Fits(backend, o)
           /\ o.do # "create" => to[o.at] # "none"
           /\ o.do = "create" => new.todo = <<o>> /\ (new.answer = "none" => to[o.at] = "none")
    BY <1>11, <1>13, <2>1, <2>2, <2>3 DEF NodeLasts
  <2>5. new.answer \notin {"none", "error"} =>
           AnsweredBy(Head(new.todo).do, new.answer, to[Head(new.todo).at])
    <3>1. SUFFICES ASSUME answer # "error"
                   PROVE  AnsweredBy(st.do, answer, to[st.at])
      BY <1>1, <1>13
    <3>2. answer = outcome /\ outcome # "error" /\ to[st.at] = outcome
      BY <1>6, <1>10, <3>1
    <3> QED BY <1>8, <3>2
  <2> QED BY <1>2, <1>13, <2>4, <2>5 DEF CallIsRight
<1>16. ASSUME NEW p \in Slot PROVE CallIsRight(backend, node, calls[p])'
  <2>1. CASE p = q
    BY <1>7, <1>9, <1>14, <1>15, <2>1
  <2>2. CASE p # q
    <3>1. PICK other : other = calls[p]
      OBVIOUS
    <3>2. CallIsRight(backend, n, other)
      BY <1>1, <3>1 DEF RailInv
    <3>3. ASSUME NEW o \in Steps(other.todo), o.do = "create", other.answer = "none"
          PROVE  to[o.at] = n[o.at]
      <4>1. n[o.at] = "none" /\ o.at \in Deposit
        <5>1. \A k \in DOMAIN other.todo : other.todo[k] \in RailStep
          BY <3>2, ElementOfSeq, LenProperties DEF CallIsRight, RailCall
        <5> QED BY <3>2, <3>3, <5>1 DEF CallIsRight, Steps, RailStep
      <4>2. st.do = "create" => o.at # st.at
        BY <1>1, <1>3, <2>2, <3>1, <3>3 DEF RailInv, MadeOutOnce
      <4>3. o.at # st.at
        BY <1>4, <4>1, <4>2
      <4> QED BY <1>10, <4>1, <4>3
    <3>4. CallIsRight(backend, to, other)
      BY <1>11, <3>2, <3>3, CallLasts
    <3> QED BY <1>7, <1>9, <1>14, <2>2, <3>1, <3>4
  <2> QED BY <2>1, <2>2
<1>17. MadeOutOnce'
  <2>1. \A p \in Slot : calls'[p].todo = calls[p].todo
    BY <1>1, <1>13, <1>14
  <2> QED BY <2>1 DEF RailInv, MadeOutOnce
<1>18. RailTypeOK'
  BY <1>7, <1>9, <1>10, <1>14 DEF RailInv, RailTypeOK
<1>19. MarksAreTrue'
  BY <1>1, <1>7, <1>9, <1>11, SaysLasts DEF RailInv, MarksAreTrue
<1>20. \A s \in Sides : book'[s] # NoDeposit => node'[book'[s]] # "none"
  BY <1>1, <1>7, <1>9, <1>11 DEF RailInv, RailTypeOK, NodeLasts
<1>21. ASSUME NEW s \in Sides PROVE RowIsTrue(backend, node, dbRows[s])'
  <2>1. RowIsTrue(backend, to, dbRows[s])
    BY <1>1, <1>11, RowLasts DEF RailInv
  <2> QED BY <1>7, <1>9, <2>1
<1>22. ASSUME NEW row \in dbSaves' PROVE row.side \in Sides /\ RowIsTrue(backend, node, row)'
  <2>1. row.side \in Sides /\ RowIsTrue(backend, to, row)
    BY <1>1, <1>7, <1>11, RowLasts DEF RailInv
  <2> QED BY <1>7, <1>9, <2>1
<1> QED BY <1>16, <1>17, <1>18, <1>19, <1>20, <1>21, <1>22 DEF RailInv

\* A call gets its answer: what it goes on with makes no invoice out.
LEMMA AnswerRead ==
    ASSUME RailInv, NEW q \in Slot, NEW new, CallIsRight(backend, node, new),
           \A st \in Steps(new.todo) : st.do # "create",
           calls' = [calls EXCEPT ![q] = new], UNCHANGED <<backend, node, dbRows>>,
           book' \in [Sides -> Deposit \cup {NoDeposit}],
           \A s \in Sides : book'[s] # NoDeposit => node[book'[s]] # "none",
           mark' \in [Deposit -> StakeMark],
           \A i \in Deposit : Says(backend, node[i], mark'[i]),
           \A row \in dbSaves' : row.side \in Sides /\ RowIsTrue(backend, node, row)
    PROVE  RailInv'
<1>1. new \in RailCall
  BY DEF CallIsRight
<1>2. /\ calls' \in [Slot -> RailCall]
      /\ \A p \in Slot : calls'[p] = IF p = q THEN new ELSE calls[p]
  BY <1>1 DEF RailInv, RailTypeOK
<1>3. ASSUME NEW p \in Slot PROVE CallIsRight(backend, node, calls[p])'
  <2>1. CallIsRight(backend, node, calls'[p])
    BY <1>2 DEF RailInv
  <2> QED BY <2>1
<1>4. MadeOutOnce'
  BY <1>2 DEF RailInv, MadeOutOnce
<1>5. RailTypeOK' /\ MarksAreTrue'
  BY <1>2 DEF RailInv, RailTypeOK, MarksAreTrue
<1>6. ASSUME NEW s \in Sides PROVE RowIsTrue(backend, node, dbRows[s])'
  BY DEF RailInv
<1>7. ASSUME NEW row \in dbSaves' PROVE row.side \in Sides /\ RowIsTrue(backend, node, row)'
  OBVIOUS
<1> QED BY <1>3, <1>4, <1>5, <1>6, <1>7 DEF RailInv

\* What is left to do makes no invoice out.
Rest(c) == [todo |-> Tail(c.todo), answer |-> "none"]

LEMMA RestOfCall ==
    ASSUME NEW b, NEW n, NEW c, CallIsRight(b, n, c), c.todo # <<>>
    PROVE  /\ CallIsRight(b, n, Rest(c))
           /\ \A st \in Steps(Rest(c).todo) : st.do # "create"
<1> DEFINE rest == Rest(c)
<1>1. c.todo \in Seq(RailStep)
  BY DEF CallIsRight, RailCall
<1>2. rest \in RailCall /\ rest.todo = Tail(c.todo) /\ rest.answer = "none"
  BY <1>1, TodoParts DEF RailCall, NodeStates, Rest
<1> HIDE DEF rest
<1>3. Steps(rest.todo) \subseteq Steps(c.todo)
  BY <1>1, <1>2, TodoParts
<1>4. ASSUME NEW st \in Steps(rest.todo) PROVE st.do # "create"
  <2>1. SUFFICES ASSUME st.do = "create" PROVE FALSE
    OBVIOUS
  <2>2. c.todo = <<st>>
    BY <1>3, <2>1 DEF CallIsRight
  <2>3. Tail(<<st>>) = <<>>
    OBVIOUS
  <2>4. Steps(<<>>) = {}
    BY EmptySeq, LenProperties DEF Steps
  <2> QED BY <1>2, <2>2, <2>3, <2>4
<1> QED BY <1>2, <1>3, <1>4 DEF rest, CallIsRight

\* An answer leaves a mark that is true, and on lnd a row that is.
LEMMA WritesInv ==
    ASSUME RailInv, NEW q \in Slot, calls[q].todo # <<>>, NEW i \in Deposit, node[i] # "none",
           NEW theBook \in {book, [book EXCEPT ![SideOf[i]] = i]},
           NEW m \in StakeMark, Says(backend, node[i], m),
           Writes(q, i, theBook, m), UNCHANGED <<backend, node, dbRows>>
    PROVE  RailInv'
<1>1. PICK rest : rest = Rest(calls[q])
  OBVIOUS
<1>2. CallIsRight(backend, node, rest) /\ \A st \in Steps(rest.todo) : st.do # "create"
  <2>1. PICK c, b, n : c = calls[q] /\ b = backend /\ n = node
    OBVIOUS
  <2>2. CallIsRight(b, n, c) /\ c.todo # <<>>
    BY <2>1 DEF RailInv
  <2>3. CallIsRight(b, n, Rest(c)) /\ \A st \in Steps(Rest(c).todo) : st.do # "create"
    BY <2>2, RestOfCall
  <2> QED BY <1>1, <2>1, <2>3
<1>3. /\ book' = theBook /\ mark' = [mark EXCEPT ![i] = m]
      /\ Persisted(SideOf[i], theBook, mark')
  BY DEF Writes
<1>4. calls' = [calls EXCEPT ![q] = rest]
  BY <1>1 DEF Writes, Rest, RailInv, RailTypeOK
<1>5. /\ theBook \in [Sides -> Deposit \cup {NoDeposit}]
      /\ \A s \in Sides : theBook[s] # NoDeposit => node[theBook[s]] # "none"
  BY RailsAssumption DEF RailInv, RailTypeOK
<1>6. /\ mark' \in [Deposit -> StakeMark]
      /\ \A j \in Deposit : Says(backend, node[j], mark'[j])
  BY <1>3 DEF RailInv, RailTypeOK, MarksAreTrue
<1>7. ASSUME NEW row \in dbSaves' PROVE row.side \in Sides /\ RowIsTrue(backend, node, row)
  <2>1. CASE row \in dbSaves
    BY <2>1 DEF RailInv
  <2>2. CASE row \notin dbSaves
    <3>1. PICK s, at : s = SideOf[i] /\ at = theBook[s]
      OBVIOUS
    <3>2. row = [side |-> s, at |-> at, mark |-> mark'[at]]
      BY <1>3, <2>2, <3>1 DEF Persisted
    <3>3. s \in Sides /\ at \in Deposit \cup {NoDeposit} /\ (at # NoDeposit => node[at] # "none")
      BY <1>5, <3>1, RailsAssumption
    <3> QED BY <1>6, <3>2, <3>3 DEF RowIsTrue
  <2> QED BY <2>1, <2>2
<1> QED BY <1>2, <1>3, <1>4, <1>5, <1>6, <1>7, AnswerRead

\* A forfeit goes on: a hold invoice that was seen paid is settled, one that was not is
\* cancelled.
LEMMA WeighedInv ==
    ASSUME RailInv, NEW q \in Slot, NEW i \in Deposit, node[i] # "none", backend = "lnd",
           NEW seen \in {"held", "unpaid"},
           calls' = [calls EXCEPT ![q] = [todo |-> <<ForfeitStep(i, seen)>>, answer |-> "none"]],
           UNCHANGED <<backend, node, book, mark, dbRows, dbSaves>>
    PROVE  RailInv'
<1>1. PICK st : st = ForfeitStep(i, seen)
  OBVIOUS
<1>2. st \in RailStep /\ st.at = i /\ st.do # "create" /\ Fits("lnd", st)
  <2>1. CASE seen = "held"
    <3>1. PICK m : m = Marked("forfeited", TRUE)
      OBVIOUS
    <3>2. m \in StakeMark /\ m.status = "forfeited"
      BY <3>1, MarkTypes
    <3>3. st = [do |-> "settle", at |-> i, mark |-> m]
      BY <1>1, <2>1, <3>1 DEF ForfeitStep, Step
    <3> QED BY <3>2, <3>3 DEF RailStep, Fits
  <2>2. CASE seen = "unpaid"
    <3>1. PICK m : m = Marked("forfeited", FALSE)
      OBVIOUS
    <3>2. m \in StakeMark /\ m.status = "forfeited" /\ ~m.claimed
      BY <3>1, MarkTypes DEF Marked
    <3>3. st = [do |-> "cancel", at |-> i, mark |-> m]
      BY <1>1, <2>2, <3>1 DEF ForfeitStep, Step
    <3> QED BY <3>2, <3>3 DEF RailStep, Fits
  <2> QED BY <2>1, <2>2
<1>3. PICK new : new = [todo |-> <<st>>, answer |-> "none"]
  OBVIOUS
<1>4. new \in RailCall /\ new.todo = <<st>> /\ new.answer = "none" /\ Steps(new.todo) = {st}
  BY <1>2, <1>3, OneStep DEF RailCall, NodeStates
<1>5. CallIsRight(backend, node, new) /\ \A to \in Steps(new.todo) : to.do # "create"
  BY <1>2, <1>4 DEF CallIsRight
<1>6. calls' = [calls EXCEPT ![q] = new]
  BY <1>1, <1>3
<1> QED BY <1>5, <1>6, AnswerRead DEF RailInv, RailTypeOK, MarksAreTrue

LEMMA ResumesInv ==
    ASSUME RailInv, NEW q \in Slot, Resumes(q)
    PROVE  RailInv'
<1>1. PICK c, st, i, answer :
        c = calls[q] /\ st = Head(c.todo) /\ i = st.at /\ answer = c.answer
  OBVIOUS
<1>2. /\ answer # "none" /\ UNCHANGED <<backend, node, dbRows>>
      /\ IF answer = "error" THEN Stops(q) ELSE
         CASE st.do = "create" -> Writes(q, i, [book EXCEPT ![SideOf[i]] = i], st.mark)
           [] st.do = "confirm" /\ answer = "held" ->
                Writes(q, i, book, Marked("locked", mark[i].claimed))
           [] st.do = "confirm" /\ answer = "cancelled" ->
                Writes(q, i, book, Marked("cancelled", mark[i].claimed))
           [] st.do = "confirm" /\ answer \in {"unpaid", "settled"} -> Stops(q)
           [] st.do = "weigh" /\ answer \in {"held", "unpaid"} ->
                /\ calls' = [calls EXCEPT ![q] = [todo |-> <<ForfeitStep(i, answer)>>,
                                                  answer |-> "none"]]
                /\ UNCHANGED <<book, mark, dbSaves>>
           [] OTHER -> Writes(q, i, book, st.mark)
  BY <1>1 DEF Resumes
<1>3. /\ c \in RailCall /\ c.todo \in Seq(RailStep) /\ c.todo # <<>>
      /\ CallIsRight(backend, node, c)
  BY <1>1, <1>2 DEF RailInv, RailTypeOK, RailCall, CallIsRight
<1>4. st \in RailStep /\ st \in Steps(c.todo) /\ i \in Deposit /\ st.mark \in StakeMark
  BY <1>1, <1>3, TodoParts DEF RailStep
<1>5. Fits(backend, st) /\ (st.do # "create" => node[i] # "none")
  BY <1>1, <1>3, <1>4 DEF CallIsRight
<1>6. answer # "error" => AnsweredBy(st.do, answer, node[i]) /\ node[i] # "none"
  <2>1. answer # "error" => AnsweredBy(st.do, answer, node[i])
    BY <1>1, <1>2, <1>3 DEF CallIsRight
  <2> QED BY <1>5, <2>1 DEF AnsweredBy
<1>7. calls[q].todo # <<>>
  BY <1>1, <1>3
<1>8. CASE Stops(q)
  <2>1. Steps(Free.todo) = {} /\ CallIsRight(backend, node, Free)
    BY NothingAsks
  <2>2. calls' = [calls EXCEPT ![q] = Free] /\ UNCHANGED <<book, mark, dbSaves>>
    BY <1>8 DEF Stops
  <2> QED BY <1>2, <2>1, <2>2, AnswerRead DEF RailInv, RailTypeOK, MarksAreTrue
<1>9. CASE answer # "error" /\ st.do = "create"
  <2>1. Writes(q, i, [book EXCEPT ![SideOf[i]] = i], st.mark)
    BY <1>2, <1>9
  <2>2. Says(backend, node[i], st.mark)
    BY <1>5, <1>9 DEF Fits, Says
  <2> QED BY <1>2, <1>4, <1>6, <1>7, <1>9, <2>1, <2>2, WritesInv
<1>10. CASE st.do = "confirm" /\ answer \in {"held", "cancelled"}
  <2>1. PICK status \in {"locked", "cancelled"} :
          /\ Writes(q, i, book, Marked(status, mark[i].claimed))
          /\ status = "locked" => answer = "held"
    BY <1>2, <1>10
  <2>2. PICK claimed \in BOOLEAN : claimed = mark[i].claimed
    BY <1>4 DEF RailInv, RailTypeOK, StakeMark
  <2>3. PICK m : m = Marked(status, claimed)
    OBVIOUS
  <2>4. m \in StakeMark /\ m.status = status
    BY <2>3, MarkTypes
  <2>5. backend = "lnd" /\ (status = "locked" => node[i] \notin {"none", "unpaid"})
    BY <1>5, <1>6, <1>10, <2>1 DEF Fits, AnsweredBy
  <2>6. Says(backend, node[i], m)
    BY <2>4, <2>5 DEF Says
  <2>7. Writes(q, i, book, m)
    BY <2>1, <2>2, <2>3
  <2> QED BY <1>2, <1>4, <1>6, <1>7, <1>10, <2>4, <2>6, <2>7, WritesInv
<1>11. CASE st.do = "weigh" /\ answer \in {"held", "unpaid"}
  <2>1. backend = "lnd"
    BY <1>5, <1>11 DEF Fits
  <2>2. /\ calls' = [calls EXCEPT ![q] = [todo |-> <<ForfeitStep(i, answer)>>,
                                          answer |-> "none"]]
        /\ UNCHANGED <<book, mark, dbSaves>>
    BY <1>2, <1>11
  <2> QED BY <1>2, <1>4, <1>6, <1>11, <2>1, <2>2, WeighedInv
<1>12. CASE /\ answer # "error" /\ st.do # "create" /\ ~Stops(q)
            /\ ~(st.do = "confirm" /\ answer \in {"held", "cancelled"})
            /\ ~(st.do = "weigh" /\ answer \in {"held", "unpaid"})
  <2>1. Writes(q, i, book, st.mark) /\ ~(st.do = "confirm" /\ answer = "unpaid")
    BY <1>2, <1>12
  <2>2. Says(backend, node[i], st.mark)
    BY <1>4, <1>5, <1>6, <1>12, <2>1 DEF Fits, AnsweredBy, Says, RailStep
  <2> QED BY <1>2, <1>4, <1>6, <1>7, <1>12, <2>1, <2>2, WritesInv
<1>13. answer = "error" => Stops(q)
  BY <1>2
<1> QED BY <1>8, <1>9, <1>10, <1>11, <1>12, <1>13

\* A row reaches the database, or does not.
LEMMA DbSaveLandsInv ==
    ASSUME RailInv, NEW row \in dbSaves, DbSaveLands(row)
    PROVE  RailInv'
<1>1. /\ dbSaves' = dbSaves \ {row} /\ UNCHANGED <<backend, node, book, mark, calls>>
  BY DEF DbSaveLands
<1>2. PICK to : to = [at |-> row.at, mark |-> row.mark]
  OBVIOUS
<1>3. dbRows' = dbRows \/ dbRows' = [dbRows EXCEPT ![row.side] = to]
  BY <1>2 DEF DbSaveLands
<1>4. row.side \in Sides /\ RowIsTrue(backend, node, to)
  BY <1>2 DEF RailInv, RowIsTrue
<1>5. /\ dbRows' = [s \in Sides |-> dbRows'[s]]
      /\ \A s \in Sides : dbRows'[s] = dbRows[s] \/ dbRows'[s] = to
  BY <1>3, <1>4 DEF RailInv, RailTypeOK
<1>6. ASSUME NEW s \in Sides PROVE RowIsTrue(backend, node, dbRows[s])'
  <2>1. RowIsTrue(backend, node, dbRows'[s])
    BY <1>4, <1>5 DEF RailInv
  <2> QED BY <1>1, <2>1
<1>7. RailTypeOK' /\ MarksAreTrue' /\ MadeOutOnce'
  BY <1>1, <1>5 DEF RailInv, RailTypeOK, MarksAreTrue, MadeOutOnce
<1>8. ASSUME NEW q \in Slot PROVE CallIsRight(backend, node, calls[q])'
  BY <1>1 DEF RailInv
<1>9. ASSUME NEW o \in dbSaves' PROVE o.side \in Sides /\ RowIsTrue(backend, node, o)'
  BY <1>1 DEF RailInv
<1> QED BY <1>1, <1>6, <1>7, <1>8, <1>9 DEF RailInv

\* A restart: what is known of a stake is what its row says.
LEMMA RebootsInv ==
    ASSUME RailInv, Reboots
    PROVE  RailInv'
<1>1. /\ calls' = [q \in Slot |-> Free] /\ dbSaves' = {}
      /\ book' = [s \in Sides |-> dbRows[s].at] /\ UNCHANGED <<backend, node, dbRows>>
  BY DEF Reboots
<1>2. PICK blank : blank = Marked("none", FALSE)
  OBVIOUS
<1>3. blank \in StakeMark /\ \A b, state : Says(b, state, blank)
  BY <1>2, MarkTypes DEF Says
<1>4. mark' = [i \in Deposit |-> IF dbRows[SideOf[i]].at = i THEN dbRows[SideOf[i]].mark ELSE blank]
  BY <1>2 DEF Reboots
<1>5. ASSUME NEW i \in Deposit
      PROVE  mark'[i] \in StakeMark /\ Says(backend, node[i], mark'[i])
  <2>1. i # NoDeposit /\ SideOf[i] \in Sides
    BY RailsAssumption
  <2>2. RowIsTrue(backend, node, dbRows[SideOf[i]])
    BY <2>1 DEF RailInv
  <2> QED BY <1>3, <1>4, <2>1, <2>2 DEF RowIsTrue
<1>6. /\ book' \in [Sides -> Deposit \cup {NoDeposit}]
      /\ \A s \in Sides : book'[s] # NoDeposit => node[book'[s]] # "none"
  BY <1>1 DEF RailInv, RowIsTrue
<1>7. RailTypeOK'
  <2>1. mark' \in [Deposit -> StakeMark]
    BY <1>4, <1>5
  <2>2. calls' \in [Slot -> RailCall]
    BY <1>1, NothingAsks
  <2> QED BY <1>1, <1>6, <2>1, <2>2 DEF RailInv, RailTypeOK
<1>8. MarksAreTrue'
  BY <1>1, <1>5 DEF MarksAreTrue
<1>9. ASSUME NEW q \in Slot PROVE CallIsRight(backend, node, calls[q])'
  BY <1>1, NothingAsks
<1>10. MadeOutOnce'
  BY <1>1, NothingAsks DEF MadeOutOnce
<1>11. ASSUME NEW s \in Sides PROVE RowIsTrue(backend, node, dbRows[s])'
  BY <1>1 DEF RailInv
<1> QED BY <1>1, <1>6, <1>7, <1>8, <1>9, <1>10, <1>11 DEF RailInv

LEMMA RailsNextInv == RailInv /\ [RailsNext]_railVars => RailInv'
<1> SUFFICES ASSUME RailInv, [RailsNext]_railVars PROVE RailInv'
  OBVIOUS
<1>1. CASE RailsNext
  BY <1>1, InvoicesInv, lndAsksInv, clnForfeitInv, btcpayAsksInv, AtOnceInv, PayersInv,
     NodeActsInv, ResumesInv, DbSaveLandsInv, RebootsInv DEF RailsNext
<1>2. CASE UNCHANGED railVars
  <2>1. UNCHANGED <<backend, node, book, mark, calls, dbRows, dbSaves>>
    BY <1>2 DEF railVars
  <2> QED BY <2>1, NodeSame, QuietStep DEF RailInv, RailTypeOK, MarksAreTrue
<1> QED BY <1>1, <1>2

\* For any calls in any number, expiries, lost answers and restarts, what a rail keeps of
\* a stake, and what an lnd rail will know after a restart, is what the node did
\* (releaseStake and forfeitStake of lnd.js, core-lightning.js and btcpay.js).
THEOREM RailsTellTheTruth == RailsSpec => []SaysWhatWasDone
<1>1. RailsInit => RailInv
  BY RailsInitInv
<1>2. RailInv => SaysWhatWasDone
  <2>1. \A i, m : Says(backend, node[i], m) => TruthOf(i, m)
    BY DEF Says, TruthOf
  <2> QED BY <2>1 DEF RailInv, MarksAreTrue, RowIsTrue, SaysWhatWasDone
<1> QED BY <1>1, <1>2, RailsNextInv, PTL DEF RailsSpec
-----------------------------------------------------------------------------
(* Guidance: whatever order fixes and answers come in.                     *)

Place   == 0..Far
StepOf  == [at : Place \cup {Nowhere}, len : Nat]
RouteOn == [dist : Nat, time : Nat, steps : Seq(StepOf)]
Engine  == {"osrm", "ors"}
Guided  ==
    [ provider : Engine, route : RouteOn, fix : Place, index : Nat \ {0},
      announced : SUBSET Nat, active : BOOLEAN, rerouting : BOOLEAN, remaining : Int,
      time : Nat, driven : Nat, reroutes : Nat, been : SUBSET Place ]
NavCalls == [call : {"reroute", "eta"}, guide : Nat, from : Place]

NavTypeOK ==
    /\ engine \in Engine \cup {Nowhere}
    /\ guide \in Seq(Guided)
    /\ followed \in [Trips -> DOMAIN guide \cup {0}]
    /\ awaited \subseteq NavCalls
    /\ \A c \in awaited : c.guide \in DOMAIN guide

Reroutes(k) == {c \in awaited : c.call = "reroute" /\ c.guide = k}

\* Cardinalities aside: the one call a rerouting session waits for, or none.
OneOrNone(k) ==
    IF guide[k].rerouting THEN \E c \in awaited : Reroutes(k) = {c} ELSE Reroutes(k) = {}

NavInv ==
    /\ NavTypeOK
    /\ \A k \in DOMAIN guide : PassedWereReached(guide[k])
    /\ \A k \in DOMAIN guide : OneOrNone(k)

LEMMA WayIs ==
    ASSUME NEW a \in Int, NEW b \in Int
    PROVE  Way(a, b) \in Nat /\ (Way(a, b) = 0 => a = b)
BY DEF Way

\* What a route is made from is a sequence of places on the road.
LEMMA TurnsAreOn ==
    ASSUME NEW p \in Place, NEW turns \in Turns(p)
    PROVE  turns \in Seq(Place) /\ turns # <<>> /\ Head(turns) \in Place
<1>1. Between(p) \subseteq Place /\ Target \in Place /\ Far \in Nat
  BY NavAssumption DEF Between, Place
<1>2. IsFiniteSet(Place)
  BY <1>1, FS_Interval DEF Place
<1>3. Cardinality(Between(p)) \in Nat
  BY <1>1, <1>2, FS_Subset, FS_CardinalityType
<1>4. PICK at \in [1..Cardinality(Between(p)) -> Between(p)] : turns = <<p>> \o at \o <<Target>>
  BY DEF Turns
<1>5. at \in Seq(Place)
  <2>1. at \in [1..Cardinality(Between(p)) -> Place]
    BY <1>1, <1>4
  <2> QED BY <1>3, <2>1, SeqDef
<1>6. <<p>> \in Seq(Place) /\ <<Target>> \in Seq(Place)
  BY <1>1
<1>7. <<p>> \o at \in Seq(Place) /\ Len(<<p>> \o at) = 1 + Len(at)
  BY <1>5, <1>6, ConcatProperties
<1>8. turns \in Seq(Place) /\ Len(turns) = Len(<<p>> \o at) + 1 /\ Len(at) \in Nat
  BY <1>4, <1>5, <1>6, <1>7, ConcatProperties, LenProperties
<1>9. turns # <<>>
  BY <1>7, <1>8, EmptySeq
<1> QED BY <1>8, <1>9, HeadTailProperties

LEMMA RouteIs ==
    ASSUME NEW p \in Place, NEW turns \in Turns(p), NEW detour \in Nat, NEW pace \in Paces, NEW e
    PROVE  RouteOf(e, turns, detour, pace) \in RouteOn
<1>1. turns \in Seq(Place) /\ Head(turns) \in Int /\ Target \in Int /\ pace \in Nat
  BY TurnsAreOn, NavAssumption DEF Place
<1>2. Distance(turns, detour) \in Nat
  <2>1. Way(Head(turns), Target) \in Nat
    BY <1>1, WayIs
  <2> QED BY <2>1 DEF Distance
<1>3. PICK time \in Nat : time = Distance(turns, detour) * pace
  BY <1>1, <1>2
<1>5. DOMAIN turns = 1..Len(turns) /\ Len(turns) \in Nat
      /\ \A i \in DOMAIN turns : turns[i] \in Place
  BY <1>1, LenProperties, ElementOfSeq
<1>6. \A i \in DOMAIN turns : Length(turns, i) \in Nat
  <2> SUFFICES ASSUME NEW i \in DOMAIN turns PROVE Length(turns, i) \in Nat
    OBVIOUS
  <2>1. CASE i < Len(turns)
    <3>1. i + 1 \in DOMAIN turns
      BY <1>5, <2>1
    <3>2. turns[i] \in Int /\ turns[i + 1] \in Int
      BY <1>5, <3>1 DEF Place
    <3> QED BY <2>1, <3>2, WayIs DEF Length
  <2>2. CASE ~(i < Len(turns))
    BY <2>2 DEF Length
  <2> QED BY <2>1, <2>2
<1>7. OsrmSteps(turns) \in Seq(StepOf)
  BY <1>5, <1>6 DEF OsrmSteps, NavStep, StepOf
<1>8. OrsSteps(turns) \in Seq(StepOf)
  BY <1>5, <1>6 DEF OrsSteps, NavStep, StepOf
<1>9. OsrmRoute(turns, detour, pace) \in RouteOn
  BY <1>2, <1>3, <1>7 DEF OsrmRoute, Route, RouteOn
<1>10. OrsRoute(turns, detour, pace) \in RouteOn
  BY <1>2, <1>3, <1>8 DEF OrsRoute, Route, RouteOn
<1> QED BY <1>9, <1>10 DEF RouteOf

LEMMA OptimalIs ==
    ASSUME NEW p \in Place
    PROVE  OptimalRoutes(p) \subseteq RouteOn
<1> SUFFICES ASSUME NEW route \in OptimalRoutes(p) PROVE route \in RouteOn
  OBVIOUS
<1>1. PICK turns \in Turns(p), detour \in {0, 1}, pace \in Paces :
        route = RouteOf(engine, turns, detour, pace)
  BY DEF OptimalRoutes, Recommended
<1>2. detour \in Nat
  OBVIOUS
<1> QED BY <1>1, <1>2, RouteIs

\* What a session keeps true of itself whatever it is told.
LEMMA MovedKeeps ==
    ASSUME NEW s \in Guided, PassedWereReached(s), NEW p \in Place
    PROVE  /\ Moved(s, p) \in Guided
           /\ PassedWereReached(Moved(s, p))
           /\ Moved(s, p).rerouting = s.rerouting
           /\ Moved(s, p).fix \in Moved(s, p).been
<1>1. s.fix \in Int /\ p \in Int
  BY DEF Guided, Place
<1>2. PICK way \in Nat : way = Way(s.fix, p)
  BY <1>1, WayIs
<1>3. Moved(s, p) = [s EXCEPT !.fix = p, !.driven = @ + way, !.remaining = @ - way,
                              !.been = @ \cup {p}]
  BY <1>2 DEF Moved
<1>4. Moved(s, p) \in Guided
  <2>1. PICK driven \in Nat, remaining \in Int, been \in SUBSET Place :
          /\ driven = s.driven + way /\ remaining = s.remaining - way
          /\ been = s.been \cup {p}
    <3>1. s.driven \in Nat /\ s.remaining \in Int /\ s.been \in SUBSET Place
      BY DEF Guided
    <3>2. s.driven + way \in Nat /\ s.remaining - way \in Int
      BY <1>2, <3>1
    <3>3. s.been \cup {p} \in SUBSET Place
      BY <3>1
    <3> QED BY <3>2, <3>3
  <2>2. Moved(s, p) = [s EXCEPT !.fix = p, !.driven = driven, !.remaining = remaining,
                                !.been = been]
    BY <1>3, <2>1
  <2> QED BY <2>2 DEF Guided
<1>5. /\ Moved(s, p).index = s.index /\ Moved(s, p).route = s.route
      /\ Moved(s, p).been = s.been \cup {p} /\ Moved(s, p).fix = p
      /\ Moved(s, p).rerouting = s.rerouting
  BY <1>3 DEF Guided
<1> QED BY <1>4, <1>5 DEF PassedWereReached

\* An instruction is ticked off only where the driver is.
LEMMA ProgressedKeeps ==
    ASSUME NEW s \in Guided, PassedWereReached(s), s.fix \in s.been
    PROVE  /\ Progressed(s) \in Guided
           /\ PassedWereReached(Progressed(s))
           /\ Progressed(s).rerouting = s.rerouting
           /\ Progressed(s).fix = s.fix
<1>1. CASE ~Placed(s)
  BY <1>1 DEF Progressed, Guided
<1>2. CASE Placed(s)
  <2>1. s.index \in DOMAIN s.route.steps /\ s.route.steps[s.index] \in StepOf
    <3>1. s.route.steps \in Seq(StepOf)
      BY DEF Guided, RouteOn
    <3> QED BY <1>2, <3>1, ElementOfSeq, LenProperties DEF Placed, HasInstruction
  <2>2. Instruction(s).at \in Place
    BY <1>2, <2>1 DEF Placed, Instruction, StepOf
  <2>3. PICK away \in Nat : /\ away = Way(s.fix, Instruction(s).at)
                            /\ away = 0 => s.fix = Instruction(s).at
    <3>1. s.fix \in Int /\ Instruction(s).at \in Int
      BY <2>2 DEF Guided, Place
    <3> QED BY <3>1, WayIs
  <2>4. Progressed(s) =
          [s EXCEPT !.announced = IF away <= Nearby THEN @ \cup {s.index} ELSE @,
                    !.index = IF away = 0 THEN @ + 1 ELSE @]
    BY <1>2, <2>3 DEF Progressed
  <2>5. Progressed(s) \in Guided
    <3>1. PICK announced \in SUBSET Nat, index \in Nat \ {0} :
            /\ announced = IF away <= Nearby THEN s.announced \cup {s.index} ELSE s.announced
            /\ index = IF away = 0 THEN s.index + 1 ELSE s.index
      <4>1. s.announced \in SUBSET Nat /\ s.index \in Nat \ {0}
        BY DEF Guided
      <4>2. s.announced \cup {s.index} \in SUBSET Nat /\ s.index + 1 \in Nat \ {0}
        BY <4>1
      <4> QED BY <4>1, <4>2
    <3>2. Progressed(s) = [s EXCEPT !.announced = announced, !.index = index]
      BY <2>4, <3>1
    <3> QED BY <3>2 DEF Guided
  <2>6. /\ Progressed(s).route = s.route /\ Progressed(s).been = s.been
        /\ Progressed(s).fix = s.fix /\ Progressed(s).rerouting = s.rerouting
        /\ Progressed(s).index = IF away = 0 THEN s.index + 1 ELSE s.index
    BY <2>4 DEF Guided
  <2>7. away = 0 => s.route.steps[s.index].at \in s.been
    BY <2>3 DEF Instruction
  <2>8. s.index \in Nat \ {0}
    BY DEF Guided
  <2> QED BY <2>1, <2>5, <2>6, <2>7, <2>8 DEF PassedWereReached
<1> QED BY <1>1, <1>2

\* Only session k is changed.
LEMMA OneSession ==
    ASSUME NavTypeOK, NEW k \in DOMAIN guide, NEW s \in Guided, guide' = [guide EXCEPT ![k] = s]
    PROVE  /\ guide' \in Seq(Guided) /\ DOMAIN guide' = DOMAIN guide
           /\ guide[k] \in Guided
           /\ \A j \in DOMAIN guide : guide'[j] = IF j = k THEN s ELSE guide[j]
<1>1. guide \in Seq(Guided) /\ DOMAIN guide = 1..Len(guide)
  BY LenProperties DEF NavTypeOK
<1> QED BY <1>1, ExceptSeq, ElementOfSeq

LEMMA SessionsAreGuided ==
    ASSUME NavTypeOK, NEW k \in DOMAIN guide
    PROVE  guide[k] \in Guided
BY ElementOfSeq, LenProperties DEF NavTypeOK

\* Which recalculations are awaited does not change.
LEMMA SameReroutes ==
    ASSUME NavInv, DOMAIN guide' = DOMAIN guide,
           \A k \in DOMAIN guide : guide'[k].rerouting = guide[k].rerouting,
           \A c : c.call = "reroute" => (c \in awaited' <=> c \in awaited)
    PROVE  \A k \in DOMAIN guide' : OneOrNone(k)'
<1> SUFFICES ASSUME NEW k \in DOMAIN guide' PROVE OneOrNone(k)'
  OBVIOUS
<1>1. Reroutes(k)' = Reroutes(k)
  BY DEF Reroutes
<1>2. OneOrNone(k)
  BY DEF NavInv
<1>3. CASE guide[k].rerouting
  <2>1. PICK c \in awaited : Reroutes(k) = {c}
    BY <1>2, <1>3 DEF OneOrNone
  <2>2. c \in Reroutes(k)
    BY <2>1
  <2>3. c \in awaited'
    BY <1>1, <2>2 DEF Reroutes
  <2> QED BY <1>1, <1>3, <2>1, <2>3 DEF OneOrNone
<1>4. CASE ~guide[k].rerouting
  BY <1>1, <1>2, <1>4 DEF OneOrNone
<1> QED BY <1>3, <1>4

LEMMA ProviderInv ==
    ASSUME NavInv, Adopt \/ TryNext \/ LastProvider
    PROVE  NavInv'
<1>1. UNCHANGED <<guide, followed, awaited>> /\ engine' \in Engine \cup {Nowhere}
  BY DEF Adopt, TryNext, LastProvider, CanBeMade, Engine, NavInv, NavTypeOK
<1> QED BY <1>1 DEF NavInv, NavTypeOK, OneOrNone, Reroutes

LEMMA StartNavigationInv ==
    ASSUME NavInv, NEW r \in Trips, NEW from \in Starts, NEW p \in Starts,
           StartNavigation(r, from, p)
    PROVE  NavInv'
<1>1. from \in Place /\ p \in Place /\ engine \in Engine
  BY NavAssumption DEF Place, StartNavigation, NavInv, NavTypeOK
<1>2. PICK route \in OptimalRoutes(from) : guide' = Append(guide, Guidance(route, p))
  BY DEF StartNavigation
<1>3. PICK s : s = Guidance(route, p)
  OBVIOUS
<1>4. route \in RouteOn
  BY <1>1, OptimalIs
<1>5. s \in Guided /\ ~s.rerouting /\ s.index = 1
  BY <1>1, <1>3, <1>4 DEF Guidance, Guided, RouteOn
<1>6. /\ guide \in Seq(Guided) /\ guide' \in Seq(Guided) /\ Len(guide) \in Nat
      /\ DOMAIN guide = 1..Len(guide) /\ DOMAIN guide' = 1..(Len(guide) + 1)
      /\ \A k \in DOMAIN guide : guide'[k] = guide[k]
      /\ guide'[Len(guide) + 1] = s
  BY <1>2, <1>3, <1>5, AppendProperties, LenProperties DEF NavInv, NavTypeOK
<1>7. NavTypeOK'
  BY <1>6 DEF NavInv, NavTypeOK, StartNavigation
<1>8. \A k \in DOMAIN guide' : PassedWereReached(guide'[k])
  BY <1>5, <1>6 DEF NavInv, PassedWereReached
<1>9. ASSUME NEW k \in DOMAIN guide' PROVE OneOrNone(k)'
  <2>1. Reroutes(k)' = Reroutes(k) /\ awaited' = awaited
    BY DEF Reroutes, StartNavigation
  <2>2. CASE k \in DOMAIN guide
    BY <1>6, <2>1, <2>2 DEF NavInv, OneOrNone
  <2>3. CASE k \notin DOMAIN guide
    <3>1. k = Len(guide) + 1
      BY <1>6, <2>3
    <3>2. Reroutes(k) = {}
      BY <2>3 DEF Reroutes, NavInv, NavTypeOK
    <3> QED BY <1>5, <1>6, <2>1, <3>1, <3>2 DEF OneOrNone
  <2> QED BY <2>2, <2>3
<1> QED BY <1>7, <1>8, <1>9 DEF NavInv

LEMMA StopNavigationInv ==
    ASSUME NavInv, NEW r \in Trips, StopNavigation(r)
    PROVE  NavInv'
<1>1. followed[r] \in DOMAIN guide
  BY DEF StopNavigation, NavInv, NavTypeOK
<1>2. PICK k \in DOMAIN guide : k = followed[r]
  BY <1>1
<1>3. PICK s : s = Stopped(guide[k])
  OBVIOUS
<1>4. s \in Guided /\ s.rerouting = guide[k].rerouting /\ PassedWereReached(s)
  <2>1. guide[k] \in Guided /\ PassedWereReached(guide[k])
    BY SessionsAreGuided DEF NavInv
  <2> QED BY <1>3, <2>1 DEF Stopped, Guided, PassedWereReached
<1>5. /\ guide' \in Seq(Guided) /\ DOMAIN guide' = DOMAIN guide
      /\ \A j \in DOMAIN guide : guide'[j] = IF j = k THEN s ELSE guide[j]
  BY <1>2, <1>3, <1>4, OneSession DEF StopNavigation, NavInv
<1>6. NavTypeOK'
  BY <1>5 DEF NavInv, NavTypeOK, StopNavigation
<1>7. \A j \in DOMAIN guide' : PassedWereReached(guide'[j])
  BY <1>4, <1>5 DEF NavInv
<1>8. \A j \in DOMAIN guide' : OneOrNone(j)'
  BY <1>4, <1>5, SameReroutes DEF StopNavigation
<1> QED BY <1>6, <1>7, <1>8 DEF NavInv

\* A recalculation is asked for only by a session that waits for none.
LEMMA UpdatePositionInv ==
    ASSUME NavInv, NEW r \in Trips, NEW p \in Place, UpdatePosition(r, p)
    PROVE  NavInv'
<1>1. followed[r] \in DOMAIN guide
  BY DEF UpdatePosition, NavInv, NavTypeOK
<1>2. PICK k \in DOMAIN guide : k = followed[r]
  BY <1>1
<1>3. PICK s : s = Progressed(Moved(guide[k], p))
  OBVIOUS
<1>4. s \in Guided /\ s.rerouting = guide[k].rerouting /\ PassedWereReached(s)
  <2>1. guide[k] \in Guided /\ PassedWereReached(guide[k])
    BY SessionsAreGuided DEF NavInv
  <2> DEFINE m == Moved(guide[k], p)
  <2>2. m \in Guided /\ PassedWereReached(m) /\ m.rerouting = guide[k].rerouting
        /\ m.fix \in m.been
    BY <2>1, MovedKeeps
  <2> HIDE DEF m
  <2>3. Progressed(m) \in Guided /\ PassedWereReached(Progressed(m))
        /\ Progressed(m).rerouting = m.rerouting
    BY <2>2, ProgressedKeeps
  <2> QED BY <1>3, <2>2, <2>3 DEF m
<1>5. UNCHANGED <<engine, trial, followed>>
  BY DEF UpdatePosition
<1>6. CASE s.rerouting \/ ~Deviates(s)
  <2>1. guide' = [guide EXCEPT ![k] = s] /\ UNCHANGED awaited
    BY <1>2, <1>3, <1>6 DEF UpdatePosition
  <2>2. /\ guide' \in Seq(Guided) /\ DOMAIN guide' = DOMAIN guide
        /\ \A j \in DOMAIN guide : guide'[j] = IF j = k THEN s ELSE guide[j]
    BY <1>4, <2>1, OneSession DEF NavInv
  <2>3. NavTypeOK'
    BY <1>5, <2>1, <2>2 DEF NavInv, NavTypeOK
  <2>4. \A j \in DOMAIN guide' : PassedWereReached(guide'[j])
    BY <1>4, <2>2 DEF NavInv
  <2>5. \A j \in DOMAIN guide' : OneOrNone(j)'
    BY <1>4, <2>1, <2>2, SameReroutes
  <2> QED BY <2>3, <2>4, <2>5 DEF NavInv
<1>7. CASE ~s.rerouting /\ Deviates(s)
  <2>1. PICK w : w = [s EXCEPT !.rerouting = TRUE, !.reroutes = @ + 1]
    OBVIOUS
  <2>2. w \in Guided /\ w.rerouting /\ PassedWereReached(w)
    <3>1. PICK reroutes \in Nat : reroutes = s.reroutes + 1
      BY <1>4 DEF Guided
    <3>2. w = [s EXCEPT !.rerouting = TRUE, !.reroutes = reroutes]
      BY <2>1, <3>1
    <3>3. w \in Guided
      BY <1>4, <3>2 DEF Guided
    <3>4. w.rerouting /\ w.index = s.index /\ w.route = s.route /\ w.been = s.been
      BY <1>4, <3>2 DEF Guided
    <3> QED BY <1>4, <3>3, <3>4 DEF PassedWereReached
  <2>3. guide' = [guide EXCEPT ![k] = w] /\ awaited' = awaited \cup {NavCall("reroute", k)}
    BY <1>2, <1>3, <1>7, <2>1 DEF UpdatePosition
  <2>4. /\ guide' \in Seq(Guided) /\ DOMAIN guide' = DOMAIN guide
        /\ \A j \in DOMAIN guide : guide'[j] = IF j = k THEN w ELSE guide[j]
    BY <2>2, <2>3, OneSession DEF NavInv
  <2>5. PICK c : c = NavCall("reroute", k)
    OBVIOUS
  <2>6. c \in NavCalls /\ c.call = "reroute" /\ c.guide = k
    <3>1. guide'[k].fix \in Place
      BY <2>2, <2>4 DEF Guided
    <3>2. k \in Nat
      BY LenProperties DEF NavInv, NavTypeOK
    <3> QED BY <2>5, <3>1, <3>2 DEF NavCall, NavCalls
  <2>7. awaited' = awaited \cup {c}
    BY <2>3, <2>5
  <2>8. NavTypeOK'
    BY <1>5, <2>4, <2>6, <2>7 DEF NavInv, NavTypeOK
  <2>9. \A j \in DOMAIN guide' : PassedWereReached(guide'[j])
    BY <2>2, <2>4 DEF NavInv
  <2>10. ASSUME NEW j \in DOMAIN guide' PROVE OneOrNone(j)'
    <3>1. CASE j = k
      <4>1. Reroutes(k) = {}
        BY <1>4, <1>7 DEF NavInv, OneOrNone
      <4>2. Reroutes(k)' = {c}
        BY <2>6, <2>7, <4>1 DEF Reroutes
      <4> QED BY <2>2, <2>4, <2>7, <3>1, <4>2 DEF OneOrNone
    <3>2. CASE j # k
      <4>1. Reroutes(j)' = Reroutes(j)
        BY <2>6, <2>7, <3>2 DEF Reroutes
      <4>2. OneOrNone(j) /\ guide'[j].rerouting = guide[j].rerouting
        BY <2>4, <3>2 DEF NavInv
      <4> QED BY <2>7, <4>1, <4>2 DEF OneOrNone
    <3> QED BY <3>1, <3>2
  <2> QED BY <2>8, <2>9, <2>10 DEF NavInv
<1> QED BY <1>6, <1>7

\* The one answer a session waits for lets it go; the others' wait goes on.
LEMMA LetGo ==
    ASSUME NavInv, NEW c \in awaited, c.call = "reroute", awaited' = awaited \ {c},
           NEW s \in Guided, PassedWereReached(s), ~s.rerouting,
           guide' = [guide EXCEPT ![c.guide] = s], UNCHANGED <<engine, followed>>
    PROVE  NavInv'
<1>1. PICK k \in DOMAIN guide : k = c.guide
  BY DEF NavInv, NavTypeOK
<1>2. /\ guide' \in Seq(Guided) /\ DOMAIN guide' = DOMAIN guide
      /\ \A j \in DOMAIN guide : guide'[j] = IF j = k THEN s ELSE guide[j]
  BY <1>1, OneSession DEF NavInv
<1>3. NavTypeOK'
  BY <1>2 DEF NavInv, NavTypeOK
<1>4. \A j \in DOMAIN guide' : PassedWereReached(guide'[j])
  BY <1>2 DEF NavInv
<1>5. ASSUME NEW j \in DOMAIN guide' PROVE OneOrNone(j)'
  <2>1. OneOrNone(j)
    BY <1>2, <1>5 DEF NavInv
  <2>2. CASE j = k
    <3>1. c \in Reroutes(k)
      BY <1>1 DEF Reroutes
    <3>2. Reroutes(k) = {c}
      BY <2>1, <2>2, <3>1 DEF OneOrNone
    <3>3. Reroutes(k)' = {}
      BY <3>2 DEF Reroutes
    <3> QED BY <1>2, <2>2, <3>3 DEF OneOrNone
  <2>3. CASE j # k
    <3>1. Reroutes(j)' = Reroutes(j)
      BY <1>1, <2>3 DEF Reroutes
    <3>2. c \notin Reroutes(j)
      BY <1>1, <2>3 DEF Reroutes
    <3>3. guide'[j].rerouting = guide[j].rerouting
      BY <1>2, <2>3
    <3> QED BY <2>1, <3>1, <3>2, <3>3 DEF OneOrNone
  <2> QED BY <2>2, <2>3
<1> QED BY <1>3, <1>4, <1>5 DEF NavInv

LEMMA RerouteInv ==
    ASSUME NavInv, NEW c \in awaited, RerouteAnswered(c) \/ RerouteFails(c)
    PROVE  NavInv'
<1>1. c.guide \in DOMAIN guide /\ c.from \in Place
  BY DEF NavInv, NavTypeOK, NavCalls
<1>2. guide[c.guide] \in Guided /\ PassedWereReached(guide[c.guide])
  BY <1>1, SessionsAreGuided DEF NavInv
<1>3. c.call = "reroute" /\ awaited' = awaited \ {c} /\ UNCHANGED <<engine, followed>>
  BY DEF RerouteAnswered, RerouteFails, NavEnds
<1>4. CASE RerouteAnswered(c)
  <2>1. PICK pace \in Paces, turns \in Turns(c.from) :
          guide' = [guide EXCEPT ![c.guide] = Rerouted(@, Recalculated(@, turns, pace))]
    BY <1>4 DEF RerouteAnswered
  <2>2. PICK route \in RouteOn : route = Recalculated(guide[c.guide], turns, pace)
    BY <1>1, RouteIs DEF Recalculated
  <2>3. PICK s : s = Rerouted(guide[c.guide], route)
    OBVIOUS
  <2>4. s \in Guided /\ ~s.rerouting /\ s.index = 1
    <3>1. PICK dist \in Int, time \in Nat : dist = route.dist /\ time = route.time
      BY <2>2 DEF RouteOn
    <3>2. s = [guide[c.guide] EXCEPT !.route = route, !.index = 1, !.announced = {},
                 !.remaining = dist, !.time = time, !.rerouting = FALSE, !.been = {}]
      BY <2>3, <3>1 DEF Rerouted
    <3>3. PICK g : g = [guide[c.guide] EXCEPT !.route = route, !.index = 1, !.announced = {}]
      OBVIOUS
    <3>4. g \in Guided /\ g.index = 1
      <4>1. PICK old : old = guide[c.guide]
        OBVIOUS
      <4>2. PICK none \in SUBSET Nat, one \in Nat \ {0} : none = {} /\ one = 1
        <5>1. {} \in SUBSET Nat
          OBVIOUS
        <5>2. 1 \in Nat \ {0}
          OBVIOUS
        <5> QED BY <5>1, <5>2
      <4>3. g = [old EXCEPT !.route = route, !.index = one, !.announced = none]
        BY <3>3, <4>1, <4>2
      <4> QED BY <1>2, <2>2, <4>1, <4>2, <4>3 DEF Guided
    <3>5. s = [g EXCEPT !.remaining = dist, !.time = time, !.rerouting = FALSE, !.been = {}]
      BY <1>2, <3>2, <3>3 DEF Guided
    <3> QED BY <3>1, <3>4, <3>5 DEF Guided
  <2>5. PassedWereReached(s)
    BY <2>4 DEF PassedWereReached
  <2>6. guide' = [guide EXCEPT ![c.guide] = s]
    BY <2>1, <2>2, <2>3
  <2> QED BY <1>3, <2>4, <2>5, <2>6, LetGo
<1>5. CASE RerouteFails(c)
  <2>1. PICK s : s = [guide[c.guide] EXCEPT !.rerouting = FALSE]
    OBVIOUS
  <2>2. s \in Guided /\ ~s.rerouting /\ PassedWereReached(s)
    BY <1>2, <2>1 DEF Guided, PassedWereReached
  <2>3. guide' = [guide EXCEPT ![c.guide] = s]
    BY <1>5, <2>1 DEF RerouteFails
  <2> QED BY <1>3, <2>2, <2>3, LetGo
<1> QED BY <1>4, <1>5

LEMMA ETAInv ==
    ASSUME NavInv,
           \/ \E k \in DOMAIN guide : AskETA(k)
           \/ \E c \in awaited : ETAAnswered(c) \/ ETAFails(c)
    PROVE  NavInv'
<1>1. ASSUME NEW k \in DOMAIN guide, AskETA(k) PROVE NavInv'
  <2>1. PICK e : e = [call |-> "eta", guide |-> k, from |-> guide[k].fix]
    OBVIOUS
  <2>2. e \in NavCalls /\ e.call = "eta" /\ e.guide = k
    <3>1. guide[k].fix \in Place
      BY SessionsAreGuided DEF Guided, NavInv
    <3>2. k \in Nat
      BY LenProperties DEF NavInv, NavTypeOK
    <3> QED BY <2>1, <3>1, <3>2 DEF NavCalls
  <2>3. awaited' = awaited \cup {e} /\ UNCHANGED <<engine, guide, followed>>
    BY <1>1, <2>1 DEF AskETA
  <2>4. \A c : c.call = "reroute" => (c \in awaited' <=> c \in awaited)
    BY <2>2, <2>3
  <2>5. \A j \in DOMAIN guide' : OneOrNone(j)'
    BY <2>3, <2>4, SameReroutes
  <2> QED BY <2>2, <2>3, <2>5 DEF NavInv, NavTypeOK
<1>2. ASSUME NEW c \in awaited, ETAAnswered(c) PROVE NavInv'
  <2>1. c.guide \in DOMAIN guide /\ c.from \in Place
    BY DEF NavInv, NavTypeOK, NavCalls
  <2>2. PICK k \in DOMAIN guide : k = c.guide
    BY <2>1
  <2>3. guide[k] \in Guided /\ PassedWereReached(guide[k])
    BY SessionsAreGuided DEF NavInv
  <2>4. PICK pace \in Paces, turns \in Turns(c.from) :
          LET eta == ETA(guide[k], turns, pace)
          IN  guide' = [guide EXCEPT ![k].time = IF Way(eta, @) > EtaSlack THEN eta ELSE @]
    BY <1>2, <2>2 DEF ETAAnswered
  <2>5. ETA(guide[k], turns, pace) \in Nat
    <3>1. RouteOf(guide[k].provider, turns, 0, pace) \in RouteOn
      BY <2>1, RouteIs
    <3> QED BY <3>1 DEF ETA, RouteOn
  <2>6. PICK time \in Nat : guide' = [guide EXCEPT ![k].time = time]
    <3>1. guide[k].time \in Nat
      BY <2>3 DEF Guided
    <3>2. CASE Way(ETA(guide[k], turns, pace), guide[k].time) > EtaSlack
      BY <2>4, <2>5, <3>2
    <3>3. CASE ~(Way(ETA(guide[k], turns, pace), guide[k].time) > EtaSlack)
      BY <2>4, <3>1, <3>3
    <3> QED BY <3>2, <3>3
  <2>7. PICK s : s = [guide[k] EXCEPT !.time = time]
    OBVIOUS
  <2>8. s \in Guided /\ s.rerouting = guide[k].rerouting /\ PassedWereReached(s)
    BY <2>3, <2>7 DEF Guided, PassedWereReached
  <2>9. guide' = [guide EXCEPT ![k] = s]
    BY <2>6, <2>7
  <2>10. /\ guide' \in Seq(Guided) /\ DOMAIN guide' = DOMAIN guide
         /\ \A j \in DOMAIN guide : guide'[j] = IF j = k THEN s ELSE guide[j]
    BY <2>8, <2>9, OneSession DEF NavInv
  <2>11. c.call = "eta" /\ awaited' = awaited \ {c} /\ UNCHANGED <<engine, followed>>
    BY <1>2 DEF ETAAnswered, NavEnds
  <2>12. \A d : d.call = "reroute" => (d \in awaited' <=> d \in awaited)
    BY <2>11
  <2>13. \A j \in DOMAIN guide' : OneOrNone(j)'
    BY <2>8, <2>10, <2>12, SameReroutes
  <2>14. NavTypeOK'
    BY <2>10, <2>11 DEF NavInv, NavTypeOK
  <2>15. \A j \in DOMAIN guide' : PassedWereReached(guide'[j])
    BY <2>8, <2>10 DEF NavInv
  <2> QED BY <2>13, <2>14, <2>15 DEF NavInv
<1>3. ASSUME NEW c \in awaited, ETAFails(c) PROVE NavInv'
  <2>1. c.call = "eta" /\ awaited' = awaited \ {c} /\ UNCHANGED <<engine, guide, followed>>
    BY <1>3 DEF ETAFails, NavEnds
  <2>2. \A d : d.call = "reroute" => (d \in awaited' <=> d \in awaited)
    BY <2>1
  <2>3. \A j \in DOMAIN guide' : OneOrNone(j)'
    BY <2>1, <2>2, SameReroutes
  <2> QED BY <2>1, <2>3 DEF NavInv, NavTypeOK
<1> QED BY <1>1, <1>2, <1>3

LEMMA NavNextInv == NavInv /\ [NavNext]_navVars => NavInv'
<1> SUFFICES ASSUME NavInv, [NavNext]_navVars PROVE NavInv'
  OBVIOUS
<1>1. CASE NavNext
  <2>1. \A p \in 0..Far : p \in Place
    BY DEF Place
  <2> QED BY <1>1, <2>1, ProviderInv, StartNavigationInv, StopNavigationInv,
             UpdatePositionInv, RerouteInv, ETAInv DEF NavNext
<1>2. CASE UNCHANGED navVars
  BY <1>2 DEF navVars, NavInv, NavTypeOK, OneOrNone, Reroutes
<1> QED BY <1>1, <1>2

LEMMA NavInitInv == NavInit => NavInv
<1> SUFFICES ASSUME NavInit PROVE NavInv
  OBVIOUS
<1>1. guide \in Seq(Guided) /\ DOMAIN guide = {}
  BY EmptySeq, LenProperties DEF NavInit
<1> QED BY <1>1 DEF NavInit, NavInv, NavTypeOK

\* For any road, any number of rides, sessions, fixes and recalculations, and answers in
\* any order: an instruction counts as done only when the driver was there on the route
\* now followed, and a session says it is rerouting exactly while one recalculation is on
\* its way to it (NavigationService.updatePosition, reroute, updateETA).
THEOREM GuidanceStaysWhole == NavSpec => []GuidanceIsWhole
<1>1. NavInv => GuidanceIsWhole
  <2> SUFFICES ASSUME NavInv, NEW k \in DOMAIN guide
               PROVE  PassedWereReached(guide[k]) /\ OneRecalculation(k)
    BY DEF GuidanceIsWhole
  <2>1. OneOrNone(k) /\ PassedWereReached(guide[k])
    BY DEF NavInv
  <2>2. CASE guide[k].rerouting
    <3>1. PICK c \in awaited : Reroutes(k) = {c}
      BY <2>1, <2>2 DEF OneOrNone
    <3>2. Cardinality(Reroutes(k)) = 1
      BY <3>1, FS_Singleton
    <3> QED BY <2>1, <2>2, <3>2 DEF OneRecalculation, Reroutes
  <2>3. CASE ~guide[k].rerouting
    <3>1. Cardinality(Reroutes(k)) = 0
      BY <2>1, <2>3, FS_EmptySet DEF OneOrNone
    <3> QED BY <2>1, <2>3, <3>1 DEF OneRecalculation, Reroutes
  <2> QED BY <2>2, <2>3
<1> QED BY <1>1, NavInitInv, NavNextInv, PTL DEF NavSpec
=============================================================================
