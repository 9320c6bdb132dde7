------------------------------- MODULE StakeRails ------------------------------
(***************************************************************************)
(* The stake rails themselves: what lnd, core-lightning, btcpay, alby and  *)
(* demo (payment-providers) do with a stake under any calls their callers  *)
(* make, the node or service behind them, and the rows an lnd rail keeps   *)
(* in the database to have its preimages after a restart.                  *)
(*                                                                         *)
(* A stake is named by its invoice.  lnd and demo know it by the id of a   *)
(* side; the others keep the older convention and know only the id of a    *)
(* ride, which is of both.  A call goes on while its stake is replaced in  *)
(* the map, so what it marks is the object it found.                       *)
(***************************************************************************)
EXTENDS Naturals, Sequences, FiniteSets

CONSTANTS
    Slot,       \* bound: calls that wait for a node at once
    Deposit,    \* invoices that may be made out
    SideOf,     \* SideOf[i]: the side invoice i is for
    Backend,    \* rails an operator may run
    MaxReboots, \* bound: restarts
    MaxDbSaves,  \* bound: rows on their way to the database
    NoDeposit

Sides == {"rider", "driver"}

ASSUME RailsAssumption ==
    /\ SideOf \in [Deposit -> Sides]
    /\ Backend \subseteq {"lnd", "core-lightning", "btcpay", "alby", "demo"}
    /\ MaxReboots \in Nat /\ MaxDbSaves \in Nat /\ NoDeposit \notin Deposit

VARIABLES
    backend, \* the rail in use
    node,    \* each invoice at the node
    book,    \* stakes: the stake under each side's id
    mark,    \* the status of each stake, and whether a penalty was booked
    calls,   \* calls[q]: steps yet to make at the node, and the answer to the first
    dbRows,    \* the database's row of each id
    dbSaves,  \* rows on their way to the database
    reboots

railVars == <<backend, node, book, mark, calls, dbRows, dbSaves, reboots>>

Marked(status, claimed) == [status |-> status, claimed |-> claimed]
Free == [todo |-> <<>>, answer |-> "none"]
NoRow == [at |-> NoDeposit, mark |-> Marked("none", FALSE)]

RailsInit ==
    /\ backend \in Backend
    /\ node = [i \in Deposit |-> "none"]
    /\ book = [s \in Sides |-> NoDeposit]
    /\ mark = [i \in Deposit |-> Marked("none", FALSE)]
    /\ calls = [q \in Slot |-> Free]
    /\ dbRows = [s \in Sides |-> NoRow] /\ dbSaves = {}
    /\ reboots = 0

--------------------------------------------------------------------------------
(* Calls, and the steps they take at the node.                                 *)

Step(do, i, status, claimed) ==
    [do |-> do, at |-> i, mark |-> Marked(status, claimed)]

Begins(q, todo) ==
    /\ calls[q] = Free
    /\ calls' = [calls EXCEPT ![q].todo = todo]
    /\ UNCHANGED <<backend, node, book, dbRows, dbSaves, reboots>>

\* A rail that asks nobody.
AtOnce(marks) ==
    /\ mark' = [i \in Deposit |-> IF i \in DOMAIN marks THEN marks[i] ELSE mark[i]]
    /\ UNCHANGED <<backend, node, book, calls, dbRows, dbSaves, reboots>>

Booked == {book[s] : s \in Sides} \ {NoDeposit}

Unissued(i) == node[i] = "none" /\ \A q \in Slot :
                   \A k \in DOMAIN calls[q].todo : calls[q].todo[k].at # i

--------------------------------------------------------------------------------
(* lnd: hold invoices, by the id of a side.  No rail asks whether the side has *)
(* a stake already.                                                            *)

Invoices(q, i) == Unissued(i) /\ Begins(q, <<Step("create", i, "pending", FALSE)>>)
                  /\ UNCHANGED mark

lndLock(q, i) == backend = "lnd" /\ Invoices(q, i)

lndConfirm(q, s) ==
    /\ backend = "lnd" /\ book[s] # NoDeposit
    /\ Begins(q, <<Step("confirm", book[s], "locked", FALSE)>>)
    /\ UNCHANGED mark

Undo_Settles(i) == Step("settle", i, "released", FALSE)

\* A hold invoice that is cancelled goes back to its payer, one that is settled does not.
Undo(i) == Step("cancel", i, "released", FALSE)

lndRelease(q, s) ==
    /\ backend = "lnd" /\ book[s] # NoDeposit
    /\ Begins(q, <<Undo(book[s])>>) /\ UNCHANGED mark

lndForfeit(q, s) ==
    /\ backend = "lnd" /\ book[s] # NoDeposit
    /\ Begins(q, <<Step("weigh", book[s], "forfeited", FALSE)>>) /\ UNCHANGED mark

--------------------------------------------------------------------------------
(* The rails that know a ride's two stakes by its id.                          *)

\* The stake of who cancelled: the rider's if the rider did and has one.
ForfeitingOf(s) ==
    IF s = "rider" /\ book["rider"] # NoDeposit THEN book["rider"] ELSE book["driver"]

InnocentOf(s) ==
    IF ForfeitingOf(s) = book["rider"] THEN book["driver"] ELSE book["rider"]

\* core-lightning.  Its release settles the stakes that are locked, and none ever is:
\* nothing confirms one.  It moves nothing, and says that both were released.
clnLock(q, i) == backend = "core-lightning" /\ Invoices(q, i)

\* The penalised stake is given back.
clnForfeit(q, s) ==
    /\ backend = "core-lightning" /\ ForfeitingOf(s) # NoDeposit
    /\ Begins(q, <<Step("cancel", ForfeitingOf(s), "forfeited", FALSE)>>)
    /\ UNCHANGED mark

\* btcpay: ordinary invoices, paid to the operator's store and refunded from it.
btcpayLock(q, i) == backend = "btcpay" /\ Invoices(q, i)

Refund(i) == Step("refund", i, "released", FALSE)

RefundOf(s, ids) == IF book[s] \in ids THEN <<Refund(book[s])>> ELSE <<>>

Refunds(ids) == RefundOf("rider", ids) \o RefundOf("driver", ids)

btcpayRelease(q) ==
    /\ backend = "btcpay" /\ Booked # {}
    /\ Begins(q, Refunds(Booked)) /\ UNCHANGED mark

btcpayForfeit(q, s) ==
    /\ backend = "btcpay" /\ ForfeitingOf(s) # NoDeposit
    /\ Begins(q, Refunds({InnocentOf(s)} \ {NoDeposit}))
    /\ mark' = [mark EXCEPT ![ForfeitingOf(s)] = Marked("forfeited", TRUE)]

\* alby: its release sends nothing back, its forfeit does nothing at all.
albyLock(q, i) == backend = "alby" /\ Invoices(q, i)

albyRelease ==
    /\ backend = "alby" /\ Booked # {}
    /\ AtOnce([i \in Booked |-> Marked("released", FALSE)])

--------------------------------------------------------------------------------
(* demo: a record, by the id of a side.                                        *)

demoLock(i) ==
    /\ backend = "demo" /\ node[i] = "none"
    /\ node' = [node EXCEPT ![i] = "recorded"]
    /\ book' = [book EXCEPT ![SideOf[i]] = i]
    /\ mark' = [mark EXCEPT ![i] = Marked("locked", FALSE)]
    /\ UNCHANGED <<backend, calls, dbRows, dbSaves, reboots>>

demoRelease(i) ==
    /\ backend = "demo" /\ i \in Booked
    /\ AtOnce([j \in {i} |-> Marked("released", mark[i].claimed)])

demoForfeit(i) ==
    /\ backend = "demo" /\ i \in Booked
    /\ AtOnce([j \in {i} |-> Marked("forfeited", TRUE)])

--------------------------------------------------------------------------------
(* The node, its payers, and the clock.                                        *)

FundedAs(b) == IF b = "btcpay" \/ b = "alby" THEN "paid" ELSE "held"

\* What the node makes of a step; "error" when it will not.
NodeMakes(do, state) ==
    CASE do = "create"                                          -> "unpaid"
      [] do \in {"confirm", "weigh"}                            -> state
      [] do = "cancel" /\ state \in {"unpaid", "held", "cancelled"} -> "cancelled"
      [] do = "settle" /\ state = "held"                        -> "settled"
      [] do = "refund" /\ state \in {"paid", "refunded"}        -> "refunded"
      [] OTHER                                                  -> "error"

\* The node acts now, and its answer is read later, or does not arrive.  An invoice
\* nobody is told of counts as none.
NodeActs(q) ==
    LET c == calls[q]
        step == Head(c.todo)
        outcome == NodeMakes(step.do, node[step.at]) IN
    /\ c.todo # <<>> /\ c.answer = "none"
    /\ \E answer \in {outcome, "error"} :
         /\ calls' = [calls EXCEPT ![q].answer = answer]
         /\ node' = IF outcome = "error" \/ (step.do = "create" /\ answer = "error")
                      THEN node ELSE [node EXCEPT ![step.at] = outcome]
    /\ UNCHANGED <<backend, book, mark, dbRows, dbSaves, reboots>>

PayerPays(i) ==
    /\ node[i] = "unpaid"
    /\ node' = [node EXCEPT ![i] = FundedAs(backend)]
    /\ UNCHANGED <<backend, book, mark, calls, dbRows, dbSaves, reboots>>

\* An hour: an invoice not paid is closed, a held payment goes back.
HoldExpires(i) ==
    /\ node[i] \in {"unpaid", "held"}
    /\ node' = [node EXCEPT ![i] = "cancelled"]
    /\ UNCHANGED <<backend, book, mark, calls, dbRows, dbSaves, reboots>>

--------------------------------------------------------------------------------
(* A call goes on.                                                             *)

\* _persistStake: lnd saves what is under the id by now, without waiting.
Persisted(s, theBook, theMark) ==
    dbSaves' = IF backend = "lnd"
                THEN dbSaves \cup {[side |-> s, at |-> theBook[s], mark |-> theMark[theBook[s]]]}
                ELSE dbSaves

Writes(q, i, theBook, m) ==
    /\ book' = theBook
    /\ mark' = [mark EXCEPT ![i] = m]
    /\ Persisted(SideOf[i], theBook, mark')
    /\ calls' = [calls EXCEPT ![q] = [todo |-> Tail(@.todo), answer |-> "none"]]

Stops(q) == calls' = [calls EXCEPT ![q] = Free] /\ UNCHANGED <<book, mark, dbSaves>>

\* A forfeit goes on with what the invoice was when it was looked at.
ForfeitStep(i, seen) ==
    CASE seen = "held"   -> Step("settle", i, "forfeited", TRUE)
      [] seen = "unpaid" -> Step("cancel", i, "forfeited", FALSE)

Resumes(q) ==
    LET answer == calls[q].answer
        step == Head(calls[q].todo)
        i == step.at IN
    /\ answer # "none" /\ Cardinality(dbSaves) < MaxDbSaves
    /\ IF answer = "error" THEN Stops(q) ELSE
       CASE step.do = "create" -> Writes(q, i, [book EXCEPT ![SideOf[i]] = i], step.mark)
         [] step.do = "confirm" /\ answer = "held" ->
              Writes(q, i, book, Marked("locked", mark[i].claimed))
         [] step.do = "confirm" /\ answer = "cancelled" ->
              Writes(q, i, book, Marked("cancelled", mark[i].claimed))
         [] step.do = "confirm" /\ answer \in {"unpaid", "settled"} -> Stops(q)
         [] step.do = "weigh" /\ answer \in {"held", "unpaid"} ->
              /\ calls' = [calls EXCEPT ![q] = [todo |-> <<ForfeitStep(i, answer)>>, answer |-> "none"]]
              /\ UNCHANGED <<book, mark, dbSaves>>
         [] OTHER -> Writes(q, i, book, step.mark)
    /\ UNCHANGED <<backend, node, dbRows, reboots>>

--------------------------------------------------------------------------------
(* The database, and a restart.                                                *)

DbSaveLands(row) ==
    /\ row \in dbSaves
    /\ dbSaves' = dbSaves \ {row}
    /\ \E works \in BOOLEAN :
         dbRows' = IF works THEN [dbRows EXCEPT ![row.side] = [at |-> row.at, mark |-> row.mark]]
                 ELSE dbRows
    /\ UNCHANGED <<backend, node, book, mark, calls, reboots>>

\* setStakeStore, before the operator listens.
Reboots ==
    /\ reboots < MaxReboots
    /\ reboots' = reboots + 1
    /\ calls' = [q \in Slot |-> Free] /\ dbSaves' = {}
    /\ book' = [s \in Sides |-> dbRows[s].at]
    /\ mark' = [i \in Deposit |-> IF dbRows[SideOf[i]].at = i THEN dbRows[SideOf[i]].mark
                                                            ELSE Marked("none", FALSE)]
    /\ UNCHANGED <<backend, node, dbRows>>

RailsNext ==
    \/ \E q \in Slot :
         \/ \E i \in Deposit :
              lndLock(q, i) \/ clnLock(q, i) \/ btcpayLock(q, i) \/ albyLock(q, i)
         \/ \E s \in Sides :
              \/ lndConfirm(q, s) \/ lndRelease(q, s) \/ lndForfeit(q, s)
              \/ clnForfeit(q, s) \/ btcpayForfeit(q, s)
         \/ btcpayRelease(q) \/ NodeActs(q) \/ Resumes(q)
    \/ albyRelease
    \/ \E i \in Deposit : demoLock(i) \/ demoRelease(i) \/ demoForfeit(i)
    \/ \E i \in Deposit : PayerPays(i) \/ HoldExpires(i)
    \/ \E row \in dbSaves : DbSaveLands(row)
    \/ Reboots

RailsSpec == RailsInit /\ [][RailsNext]_railVars

--------------------------------------------------------------------------------
(* Properties.                                                                 *)

TruthOf(i, m) ==
    /\ backend = "lnd" /\ m.status = "released" => node[i] = "cancelled"
    /\ backend = "lnd" /\ m.status = "locked" => node[i] # "unpaid"
    /\ backend = "lnd" /\ m.status = "forfeited" /\ m.claimed => node[i] = "settled"
    /\ backend = "core-lightning" /\ m.status = "forfeited" => node[i] = "cancelled"
    /\ backend = "btcpay" /\ m.status = "released" => node[i] = "refunded"

\* What a rail keeps of a stake is what the node did, whichever confirms, releases,
\* forfeits, expiries and lost answers crossed, and so is what an lnd rail will know
\* after a restart (releaseStake and forfeitStake of lnd.js, core-lightning.js and
\* btcpay.js, _persistStake): released means given back, a penalty means claimed.
SaysWhatWasDone ==
    /\ \A i \in Deposit : TruthOf(i, mark[i])
    /\ \A s \in Sides : dbRows[s].at # NoDeposit => TruthOf(dbRows[s].at, dbRows[s].mark)
================================================================================
