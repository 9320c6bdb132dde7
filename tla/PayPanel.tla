------------------------------- MODULE PayPanel --------------------------------
(***************************************************************************)
(* The panel the payer settles a ride with (PayDriver.tsx) and the wallet  *)
(* it asks over Nostr Wallet Connect (nwc.ts).  An invoice is named by the *)
(* rail it was minted for and the fare of that moment: the operator hands  *)
(* the same one out again while neither changes (module Settlement).       *)
(*                                                                         *)
(* asked is the wallet's side: what it was asked to pay, whether it paid,  *)
(* and what the panel made of it.  A request stays with the relay when the *)
(* panel gives up, so it may be paid later.                                *)
(***************************************************************************)
EXTENDS Naturals, Sequences, FiniteSets

CONSTANTS
    Lightning, \* rails paid by an invoice
    Direct,    \* rails paid outside the panel: M-Pesa, cash
    MaxFare,   \* bound: how often the fare rises
    MaxAsked,  \* bound: payments asked of the wallet
    MaxPending,\* bound: instructions under way
    Nothing    \* no rail, no invoice

ASSUME PayAssumption ==
    /\ Lightning \cap Direct = {} /\ MaxFare \in Nat /\ MaxAsked \in Nat /\ MaxPending \in Nat
    /\ Nothing \notin Lightning \cup Direct

VARIABLES
    owed,       \* the fare at the operator
    settlement, \* the operator's settlement of the ride
    panel,      \* what the panel holds
    pending,    \* its calls to the operator, the answer on its way
    asked,      \* payments asked of the wallet
    strayed     \* history: the payer chose again over a payment under way or made

payVars == <<owed, settlement, panel, pending, asked, strayed>>

Rails == Lightning \cup Direct
OfferOf(r) == [rail |-> r, fare |-> owed]

Closed == [ rail |-> Nothing, offer |-> Nothing, busy |-> "no", unknown |-> FALSE,
            unknownFor |-> Nothing, declared |-> FALSE, seen |-> "open" ]

PayInit ==
    /\ owed = 0 /\ settlement = "open" /\ panel = Closed
    /\ pending = {} /\ asked = <<>> /\ strayed = FALSE

\* The panel shows its rails and buttons only until a payment counts as declared.
Recorded(p) == p.declared \/ p.seen = "recorded"

Calls(call) == {c \in pending : c.call = call}

\* A payment, or a rail, the payer could wait for instead of choosing again.
UnderWay ==
    \/ \E k \in DOMAIN asked : asked[k].told \in {"waiting", "paid"}
    \/ Calls("instruct") # {}

Paid(i) == \E k \in DOMAIN asked : asked[k].invoice = i /\ asked[k].paid

--------------------------------------------------------------------------------
(* Choosing a rail.                                                            *)

SelectRail(r) ==
    /\ ~Recorded(panel) /\ panel.rail = Nothing
    /\ Cardinality(Calls("instruct")) < MaxPending
    /\ panel' = [panel EXCEPT !.rail = r, !.offer = Nothing, !.busy = "instruction"]
    /\ pending' = pending \cup {[call |-> "instruct", invoice |-> OfferOf(r)]}
    /\ strayed' = (strayed \/ UnderWay)
    /\ UNCHANGED <<owed, settlement, asked>>

\* The button above the chosen rail, which is there while a payment is under way too.
Back ==
    /\ ~Recorded(panel) /\ panel.rail # Nothing
    /\ panel' = [panel EXCEPT !.rail = Nothing, !.offer = Nothing]
    /\ UNCHANGED <<owed, settlement, pending, asked, strayed>>

Rearmed_Always(p, i) == [p EXCEPT !.unknown = FALSE, !.unknownFor = Nothing]

\* Only the invoice whose outcome is unknown, offered again, may be paid by one tap.
Rearmed(p, i) ==
    IF p.unknownFor = i THEN [p EXCEPT !.unknown = FALSE, !.unknownFor = Nothing] ELSE p

\* The instruction is shown under the rail chosen by now.
Instructed(c) ==
    /\ c.call = "instruct"
    /\ panel' = [Rearmed(panel, c.invoice) EXCEPT !.offer = c.invoice, !.busy = "no"]
    /\ strayed' = (strayed \/ panel.unknownFor = c.invoice)
    /\ pending' = pending \ {c}
    /\ UNCHANGED <<owed, settlement, asked>>

InstructFails(c) ==
    /\ c.call = "instruct"
    /\ panel' = [panel EXCEPT !.busy = "no"]
    /\ pending' = pending \ {c}
    /\ UNCHANGED <<owed, settlement, asked, strayed>>

--------------------------------------------------------------------------------
(* Paying by the wallet.                                                       *)

OneTap(p) ==
    /\ ~Recorded(p) /\ p.rail \in Lightning
    /\ p.offer # Nothing /\ p.offer.rail \in Lightning
    /\ ~p.unknown /\ p.busy \notin {"nwc", "settle"}

PayWithNwc ==
    /\ OneTap(panel) /\ Len(asked) < MaxAsked
    /\ panel' = [panel EXCEPT !.busy = "nwc", !.unknown = FALSE]
    /\ asked' = Append(asked, [ invoice |-> panel.offer, paid |-> FALSE,
                                refused |-> FALSE, told |-> "waiting" ])
    /\ UNCHANGED <<owed, settlement, pending, strayed>>

\* The wallet pays, at any time before it refused; no invoice is paid twice.
WalletPays(k) ==
    /\ ~asked[k].paid /\ ~asked[k].refused /\ ~Paid(asked[k].invoice)
    /\ asked' = [asked EXCEPT ![k].paid = TRUE]
    /\ UNCHANGED <<owed, settlement, panel, pending, strayed>>

Meaning_AnyErrorFails(answer) == IF answer = "proof" THEN "paid" ELSE "failed"

\* walletErrorToThrowable and the two ways a "success" proves nothing.
Meaning(answer) ==
    CASE answer = "proof"   -> "paid"
      [] answer = "refused" -> "failed"
      [] OTHER              -> "unknown"

\* The wallet answers with a proof when it paid and a refusal when it will not;
\* an error that says neither, or silence for 60 seconds, may come of any request.
MayAnswer(k, answer) ==
    CASE answer = "proof"   -> asked[k].paid
      [] answer = "refused" -> ~asked[k].paid
      [] answer \in {"garbled", "timeout"} -> TRUE

Settling(direct, i) == [call |-> "settle", direct |-> direct, invoice |-> i]

Tells(k, answer) ==
    LET told == Meaning(answer)
        a == asked[k] IN
    /\ a.told = "waiting" /\ MayAnswer(k, answer)
    /\ asked' = [asked EXCEPT ![k].told = told, ![k].refused = answer = "refused"]
    /\ CASE told = "paid" ->
              /\ panel' = [panel EXCEPT !.busy = "settle"]
              /\ pending' = pending \cup {Settling(FALSE, a.invoice)}
         [] told = "failed" ->
              panel' = [panel EXCEPT !.busy = "no"] /\ UNCHANGED pending
         [] told = "unknown" ->
              /\ panel' = [panel EXCEPT !.unknown = TRUE, !.unknownFor = a.invoice,
                                        !.busy = "no"]
              /\ UNCHANGED pending
    /\ UNCHANGED <<owed, settlement, strayed>>

--------------------------------------------------------------------------------
(* Recording a payment with the operator.                                      *)

\* What the operator records of a proof: that of any invoice of the ride is recognised
\* (module Settlement), and an unrecognised one counts as recorded but for the answer.
RecordedAs(c) ==
    IF c.direct THEN "declared"
    ELSE IF c.invoice = Nothing \/ ~Paid(c.invoice) THEN "unverified"
    ELSE IF c.invoice.fare < owed THEN "short" ELSE "declared"

\* A payment that falls short leaves the panel open.
Recording(c) == IF RecordedAs(c) = "short" THEN "open" ELSE "recorded"

\* Bounded: one at a time.  "I have paid", with what the payer has in the field: the preimage of a payment,
\* put there by the panel or typed in, or nothing worth having.
DoSettle ==
    /\ ~Recorded(panel) /\ panel.rail # Nothing /\ panel.offer # Nothing
    /\ panel.busy # "settle" /\ Calls("settle") = {}
    /\ panel' = [panel EXCEPT !.busy = "settle"]
    /\ \E i \in {Nothing} \cup {asked[k].invoice : k \in {j \in DOMAIN asked : asked[j].paid}} :
         pending' = pending \cup {Settling(panel.rail \in Direct, i)}
    /\ UNCHANGED <<owed, settlement, asked, strayed>>

Settled(c) ==
    /\ c.call = "settle"
    /\ settlement' = Recording(c)
    /\ panel' = [panel EXCEPT !.busy = "no", !.declared = @ \/ RecordedAs(c) = "declared"]
    /\ pending' = pending \ {c}
    /\ UNCHANGED <<owed, asked, strayed>>

SettleFails(c) ==
    /\ c.call = "settle"
    /\ panel' = [panel EXCEPT !.busy = "no"]
    /\ pending' = pending \ {c}
    /\ settlement' \in {settlement, Recording(c)}
    /\ UNCHANGED <<owed, asked, strayed>>

--------------------------------------------------------------------------------
(* What goes on around the panel.                                              *)

\* The page reads the ride again.
Refresh ==
    /\ panel.seen # settlement
    /\ panel' = [panel EXCEPT !.seen = settlement]
    /\ UNCHANGED <<owed, settlement, pending, asked, strayed>>

\* Nothing the panel holds is stored.
Reopen ==
    /\ panel # Closed
    /\ panel' = [Closed EXCEPT !.seen = settlement]
    /\ pending' = {}
    /\ asked' = [k \in DOMAIN asked |->
                   IF asked[k].told = "waiting" THEN [asked[k] EXCEPT !.told = "lost"]
                                                ELSE asked[k]]
    /\ strayed' = (strayed \/ asked # <<>>)
    /\ UNCHANGED <<owed, settlement>>

FareRises ==
    /\ owed < MaxFare
    /\ owed' = owed + 1
    /\ UNCHANGED <<settlement, panel, pending, asked, strayed>>

PayNext ==
    \/ \E r \in Rails : SelectRail(r)
    \/ Back \/ PayWithNwc \/ DoSettle \/ Refresh \/ Reopen
    \/ FareRises
    \/ \E c \in pending : Instructed(c) \/ InstructFails(c) \/ Settled(c) \/ SettleFails(c)
    \/ \E k \in DOMAIN asked :
         \/ WalletPays(k)
         \/ \E answer \in {"proof", "refused", "garbled", "timeout"} : Tells(k, answer)

PaySpec == PayInit /\ [][PayNext]_payVars

--------------------------------------------------------------------------------
(* Properties.                                                                 *)

\* A payer who is told that a payment failed has not made it and never will:
\* whatever may have been paid is reported as unknown (payInvoiceViaNwc of nwc.ts).
FailedMeansUnpaid ==
    \A k \in DOMAIN asked : asked[k].told = "failed" => ~asked[k].paid

\* However late the wallet pays, whatever it answers and however the fare moves, one
\* tap after another pays the ride once, as long as the payer does not choose a rail over
\* a payment under way or made, take up one of unknown outcome again, or reopen the page
\* (handlePayWithNwc and selectRail of PayDriver.tsx).
PaysOnce ==
    strayed \/ Cardinality({asked[k].invoice : k \in {j \in DOMAIN asked : asked[j].paid}}) <= 1
================================================================================
