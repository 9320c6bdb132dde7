------------------------- MODULE TaskStakes_proofs -------------------------
(***************************************************************************)
(* Proofs about the stakes of a task: an entry is locked on a payment      *)
(* only, and the handlers, however they overlap and whatever fails,        *)
(* implement Escrow.  Both follow from what a handler may rely on across   *)
(* its awaits, whatever the others do meanwhile: InFlight.                 *)
(*                                                                         *)
(* While requests come one at a time and the node answers, the ride also   *)
(* says of a stake what was done with it: CalmInv adds what a loop has     *)
(* still before it (OnItsWay).                                             *)
(*                                                                         *)
(* And about the stakes a driver pays from the stand-alone page: the page  *)
(* goes on with whatever ride it shows by then, which is one of its own    *)
(* since every answer under way that could put one there is (DriverInv).   *)
(*                                                                         *)
(* And about the watch the rider's page keeps over the trip: every handler *)
(* leaves a question due, asked or being recorded, and asks none outside a *)
(* trip (RiderInv).                                                        *)
(***************************************************************************)
EXTENDS TaskStakes, LegacyDriver, LegacyRider, SequenceTheorems, TLAPS

Funds == {"none", "open", "held", "settled", "cancelled"}

\* The status is a matter of the profile and decides nothing about a stake.
HandlersTypeOK ==
    /\ matched \in BOOLEAN
    /\ stakes \in [Side -> Invoice \cup {NoInvoice}]
    /\ locked \subseteq Invoice
    /\ released \subseteq Invoice
    /\ forfeited \subseteq Invoice
    /\ invoice \in [Invoice -> Funds]
    /\ req \in [Req -> Request \cup {Idle}]
    /\ quit \subseteq Side

EntriesOwned == \A s \in Side : stakes[s] # NoInvoice => Owner[stakes[s]] = s

\* What the locals r of a handler in flight are good for.  The rail was asked about
\* an invoice of the side whose entry heads todo, which need not be that entry: the
\* side may have staked again.
InFlight(r) ==
    /\ r.op = "stake" => r.at \in Invoice /\ Owner[r.at] = r.by
    /\ r.op = "confirm" => r.at \in Invoice
    /\ r.op \in {"cancel", "complete"} =>
         /\ r.todo # <<>>
         /\ r.at \in Invoice
         /\ Owner[r.at] = Owner[Head(r.todo)]
         /\ \A n \in DOMAIN r.todo : stakes[Owner[r.todo[n]]] # NoInvoice
    /\ r.op = "cancel" => r.by \in quit

\* No two requests make out one invoice, and none makes out one the node has issued.
Fresh ==
    \A q \in Req : Doing(q, "stake") =>
        /\ invoice[req[q].at] = "none"
        /\ \A p \in Req : p # q /\ Doing(p, "stake") => req[p].at # req[q].at

StakesInv ==
    /\ HandlersTypeOK
    /\ EntriesOwned
    /\ \A q \in Req : ~Free(q) => InFlight(req[q])
    /\ Fresh
    /\ LockedWasHeld

\* A step of the node that issues no invoice: none is forgotten, and what was paid
\* stays paid or goes to its end.
Moves ==
    /\ invoice' \in [Invoice -> Funds]
    /\ \A i \in Invoice :
         /\ invoice[i] = "none" <=> invoice'[i] = "none"
         /\ invoice[i] \notin {"none", "open"} => invoice'[i] \notin {"none", "open"}

\* A handler that does not stake.
OtherLocals(r) == r \in Request /\ r.op # "stake"

Steps == E!Next \/ UNCHANGED <<invoice, quit>>

-----------------------------------------------------------------------------
(* The entries a loop has still to deal with.                              *)

\* A list of entries is a sequence of invoices.
LEMMA TodoIsSeq ==
    ASSUME NEW todo \in Todo
    PROVE  /\ todo \in Seq(Invoice)
           /\ Len(todo) \in 0..2
           /\ DOMAIN todo = 1..Len(todo)
<1>1. CASE todo = <<>>
  BY <1>1
<1>2. ASSUME NEW k \in 1..2, todo \in [1..k -> Invoice]
      PROVE  todo \in Seq(Invoice) /\ Len(todo) = k
  <2>1. todo \in Seq(Invoice)
    BY <1>2, SeqDef
  <2>2. DOMAIN todo = 1..k /\ DOMAIN todo = 1..Len(todo) /\ Len(todo) \in Nat
    BY <1>2, <2>1, LenProperties
  <2>3. \A x : x \in 1..k <=> x \in 1..Len(todo)
    BY <2>2
  <2>4. k \in 1..Len(todo) /\ Len(todo) + 1 \notin 1..k
    BY <2>2, <2>3
  <2> QED BY <2>1, <2>2, <2>4
<1>3. todo \in Seq(Invoice) /\ Len(todo) \in 0..2
  BY <1>1, <1>2, EmptySeq DEF Todo
<1> QED BY <1>3, LenProperties

\* A sequence of at most two invoices is such a list.
LEMMA ShortIsTodo ==
    ASSUME NEW w \in Seq(Invoice), Len(w) \in 0..2
    PROVE  w \in Todo
<1>1. w \in [1..Len(w) -> Invoice]
  BY LenProperties
<1>2. CASE Len(w) = 0
  BY <1>2, EmptySeq DEF Todo
<1>3. CASE Len(w) = 1
  BY <1>1, <1>3 DEF Todo
<1>4. CASE Len(w) = 2
  BY <1>1, <1>4 DEF Todo
<1> QED BY <1>2, <1>3, <1>4

\* From entry n on, it is one still, which starts with that entry.
LEMMA RestOfTodo ==
    ASSUME NEW todo \in Todo, NEW n \in DOMAIN todo
    PROVE  LET w == SubSeq(todo, n, Len(todo))
           IN  /\ w \in Todo
               /\ w # <<>>
               /\ Head(w) = todo[n]
               /\ \A m \in DOMAIN w : \E k \in DOMAIN todo : w[m] = todo[k]
<1> DEFINE w == SubSeq(todo, n, Len(todo))
<1>1. /\ todo \in Seq(Invoice) /\ Len(todo) \in 0..2 /\ DOMAIN todo = 1..Len(todo)
      /\ n \in 1..Len(todo)
  BY TodoIsSeq
<1>2. /\ w \in Seq(Invoice)
      /\ Len(w) = Len(todo) - n + 1
      /\ \A m \in 1..Len(w) : w[m] = todo[n + m - 1]
  BY <1>1, SubSeqProperties, ElementOfSeq
<1> HIDE DEF w
<1>3. Len(w) \in 1..2 /\ DOMAIN w = 1..Len(w)
  BY <1>1, <1>2, LenProperties
<1>4. w \in Todo
  <2>1. Len(w) \in 0..2
    BY <1>3
  <2> QED BY <1>2, <2>1, ShortIsTodo
<1>5. w # <<>> /\ Head(w) = w[1]
  BY <1>2, <1>3, EmptySeq, HeadTailProperties
<1>6. Head(w) = todo[n]
  BY <1>1, <1>2, <1>3, <1>5
<1>7. ASSUME NEW m \in DOMAIN w PROVE \E k \in DOMAIN todo : w[m] = todo[k]
  <2>1. m \in 1..Len(w)
    BY <1>3, <1>7
  <2>2. n + m - 1 \in 1..Len(todo)
    BY <1>1, <1>2, <2>1
  <2> QED BY <1>1, <1>2, <2>1, <2>2
<1> QED BY <1>4, <1>5, <1>6, <1>7 DEF w

\* Without its first entry, it is one still.
LEMMA TailOfTodo ==
    ASSUME NEW todo \in Todo, todo # <<>>
    PROVE  /\ Head(todo) \in Invoice
           /\ Tail(todo) \in Todo
           /\ \A m \in DOMAIN Tail(todo) : \E k \in DOMAIN todo : Tail(todo)[m] = todo[k]
<1>1. /\ todo \in Seq(Invoice) /\ Len(todo) \in 1..2 /\ DOMAIN todo = 1..Len(todo)
  BY TodoIsSeq, EmptySeq
<1>2. /\ Head(todo) \in Invoice
      /\ Tail(todo) \in Seq(Invoice)
      /\ Len(Tail(todo)) = Len(todo) - 1
      /\ \A m \in 1..Len(Tail(todo)) : Tail(todo)[m] = todo[m + 1]
  BY <1>1, HeadTailProperties
<1>3. Tail(todo) \in Todo
  <2>1. Len(Tail(todo)) \in 0..2
    BY <1>1, <1>2
  <2> QED BY <1>2, <2>1, ShortIsTodo
<1>4. ASSUME NEW m \in DOMAIN Tail(todo)
      PROVE  \E k \in DOMAIN todo : Tail(todo)[m] = todo[k]
  <2>1. m \in 1..Len(Tail(todo)) /\ m + 1 \in DOMAIN todo
    BY <1>1, <1>2, <1>4, LenProperties
  <2> QED BY <1>2, <2>1
<1> QED BY <1>2, <1>3, <1>4

-----------------------------------------------------------------------------
(* What a step leaves of the invariant.                                    *)

\* A step of no handler.
LEMMA NoHandler ==
    ASSUME StakesInv, Moves, matched' \in BOOLEAN,
           UNCHANGED <<stakes, flags, req, quit>>
    PROVE  StakesInv'
<1> USE DEF StakesInv
<1>1. HandlersTypeOK' /\ EntriesOwned'
  BY DEF HandlersTypeOK, EntriesOwned, Moves, flags
<1>2. (\A q \in Req : ~Free(q) => InFlight(req[q]))'
  BY DEF InFlight, Free
<1>3. Fresh'
  BY DEF Fresh, Doing, Free, InFlight, Moves
<1>4. LockedWasHeld'
  BY DEF LockedWasHeld, Moves, HandlersTypeOK, flags
<1> QED BY <1>1, <1>2, <1>3, <1>4

\* A step of handler q, which goes on with the locals r or returns.
LEMMA OneHandler ==
    ASSUME StakesInv, Moves, UNCHANGED <<matched, stakes>>,
           NEW q \in Req, NEW r, Waits(q, r),
           r = Idle \/ (OtherLocals(r) /\ InFlight(r)'),
           quit \subseteq quit', quit' \subseteq Side,
           released' \subseteq Invoice, forfeited' \subseteq Invoice,
           locked' \subseteq Invoice,
           \A i \in locked' : i \in locked \/ invoice[i] = "held"
    PROVE  StakesInv'
<1> USE DEF StakesInv
<1>0. \A p \in Req : req'[p] = IF p = q THEN r ELSE req[p]
  BY DEF Waits, HandlersTypeOK
<1>1. HandlersTypeOK'
  BY DEF HandlersTypeOK, Moves, Waits, OtherLocals
<1>2. EntriesOwned'
  BY DEF EntriesOwned
<1>3. ASSUME NEW p \in Req, ~Free(p)' PROVE InFlight(req[p])'
  <2>1. CASE p = q
    BY <1>0, <1>3, <2>1 DEF Free, InFlight
  <2>2. CASE p # q
    BY <1>0, <1>3, <2>2 DEF Free, InFlight
  <2> QED BY <2>1, <2>2
<1>4. \A p \in Req : Doing(p, "stake")' => Doing(p, "stake") /\ req'[p] = req[p]
  BY <1>0, StakeAssumption DEF Doing, Free, OtherLocals
<1>5. Fresh'
  BY <1>4 DEF Fresh, Doing, Free, InFlight, Moves
<1>6. LockedWasHeld'
  BY DEF LockedWasHeld, Moves, HandlersTypeOK
<1> QED BY <1>1, <1>2, <1>3, <1>5, <1>6

\* What the loop over the entries goes on with is in flight as it should be.
LEMMA LoopGoesOn ==
    ASSUME StakesInv, UNCHANGED stakes,
           NEW q \in Req, NEW op \in {"cancel", "complete"}, NEW s \in Side,
           NEW todo \in Todo,
           \A n \in DOMAIN todo : stakes[Owner[todo[n]]] # NoInvoice,
           op = "cancel" => s \in quit',
           GoesOn(q, op, s, todo)
    PROVE  \E r : /\ Waits(q, r)
                  /\ r = Idle \/ (OtherLocals(r) /\ InFlight(r)')
<1>1. CASE Returns(q)
  BY <1>1 DEF Returns, Waits
<1>2. ASSUME NEW n \in DOMAIN todo,
             Waits(q, Local(op, s, SubSeq(todo, n, Len(todo)), stakes[Owner[todo[n]]]))
      PROVE  \E r : Waits(q, r) /\ OtherLocals(r) /\ InFlight(r)'
  <2>1. PICK w : w = SubSeq(todo, n, Len(todo))
    OBVIOUS
  <2>2. /\ w \in Todo /\ w # <<>> /\ Head(w) = todo[n]
        /\ \A m \in DOMAIN w : \E k \in DOMAIN todo : w[m] = todo[k]
    BY <2>1, RestOfTodo
  <2>3. todo[n] \in Invoice
    BY TodoIsSeq
  <2>4. PICK at : at = stakes[Owner[todo[n]]]
    OBVIOUS
  <2>5. at \in Invoice /\ Owner[at] = Owner[todo[n]]
    BY <2>3, <2>4, StakeAssumption DEF StakesInv, HandlersTypeOK, EntriesOwned
  <2>6. PICK r : r = [op |-> op, by |-> s, todo |-> w, at |-> at]
    OBVIOUS
  <2>7. Waits(q, r)
    BY <1>2, <2>1, <2>4, <2>6 DEF Local
  <2>8. OtherLocals(r)
    BY <2>2, <2>5, <2>6 DEF OtherLocals, Request
  <2>9. \A m \in DOMAIN w : stakes'[Owner[w[m]]] # NoInvoice
    BY <2>2
  <2>10. InFlight(r)'
    BY <2>2, <2>5, <2>6, <2>9 DEF InFlight
  <2> QED BY <2>7, <2>8, <2>10
<1> QED BY <1>1, <1>2 DEF GoesOn

\* Entries are of sides that have one.
LEMMA EntriesStaked ==
    ASSUME StakesInv, NEW todo \in Entries
    PROVE  todo \in Todo /\ \A n \in DOMAIN todo : stakes[Owner[todo[n]]] # NoInvoice
<1>1. todo \in Todo
  BY DEF Entries
<1>2. ASSUME NEW n \in DOMAIN todo PROVE stakes[Owner[todo[n]]] # NoInvoice
  <2>1. PICK s \in Side : todo[n] = stakes[s] /\ stakes[s] # NoInvoice
    BY <1>2 DEF Entries
  <2> QED BY <2>1 DEF StakesInv, EntriesOwned
<1> QED BY <1>1, <1>2

-----------------------------------------------------------------------------
(* What the node's answers do to the invoices.                             *)

\* Nothing, when it is not asked to do anything.
LEMMA Still ==
    ASSUME StakesInv, UNCHANGED invoice
    PROVE  Moves
BY DEF StakesInv, HandlersTypeOK, Moves

\* One invoice goes from open or held to another state, and none is made out.
LEMMA OneMoves ==
    ASSUME StakesInv, NEW i \in Invoice, NEW to \in Funds,
           invoice' = [invoice EXCEPT ![i] = to],
           \/ invoice[i] = "open" /\ to # "none"
           \/ invoice[i] = "held" /\ to \in {"settled", "cancelled"}
    PROVE  Moves
BY DEF StakesInv, HandlersTypeOK, Moves, Funds

\* A release returns the money, if there is any to return.
LEMMA ReleaseReturns ==
    ASSUME StakesInv, NEW i \in Invoice, invoice' = AfterRelease(i), UNCHANGED quit
    PROVE  Moves /\ Steps
<1>1. CASE invoice[i] \in {"open", "held"}
  <2>1. invoice' = [invoice EXCEPT ![i] = "cancelled"]
    BY <1>1 DEF AfterRelease
  <2>2. Moves
    BY <1>1, <2>1, OneMoves DEF Funds
  <2>3. E!Return(i)
    BY <1>1, <2>1 DEF E!Return, E!Becomes
  <2> QED BY <2>2, <2>3 DEF Steps, E!Next
<1>2. CASE invoice[i] \notin {"open", "held"}
  BY <1>2, Still DEF AfterRelease, Steps
<1> QED BY <1>1, <1>2

\* A forfeit claims what a side that called off the task has put up, and no more.
LEMMA ForfeitClaims ==
    ASSUME StakesInv, NEW i \in Invoice, invoice' = AfterForfeit(i), UNCHANGED quit,
           Owner[i] \in quit
    PROVE  Moves /\ Steps
<1>1. CASE invoice[i] = "held"
  <2>1. invoice' = [invoice EXCEPT ![i] = "settled"]
    BY <1>1 DEF AfterForfeit
  <2>2. Moves
    BY <1>1, <2>1, OneMoves DEF Funds
  <2>3. E!Claim(i)
    BY <1>1, <2>1 DEF E!Claim, E!Becomes
  <2> QED BY <2>2, <2>3 DEF Steps, E!Next
<1>2. CASE invoice[i] = "open"
  <2>1. invoice' = [invoice EXCEPT ![i] = "cancelled"]
    BY <1>2 DEF AfterForfeit
  <2>2. Moves
    BY <1>2, <2>1, OneMoves DEF Funds
  <2>3. E!Return(i)
    BY <1>2, <2>1 DEF E!Return, E!Becomes
  <2> QED BY <2>2, <2>3 DEF Steps, E!Next
<1>3. CASE invoice[i] \notin {"open", "held"}
  BY <1>3, Still DEF AfterForfeit, Steps
<1> QED BY <1>1, <1>2, <1>3

-----------------------------------------------------------------------------
(* The actions.                                                            *)

LEMMA StakeInv ==
    ASSUME StakesInv, NEW q \in Req, NEW s \in Side, NEW i \in Invoice, Stake(q, s, i)
    PROVE  StakesInv' /\ Steps
<1> USE DEF StakesInv
<1>1. PICK r : r = [op |-> "stake", by |-> s, todo |-> <<>>, at |-> i]
  OBVIOUS
<1>2. \A p \in Req : req'[p] = IF p = q THEN r ELSE req[p]
  BY <1>1 DEF Stake, Waits, Local, HandlersTypeOK
<1>3. r \in Request /\ InFlight(r)
  BY <1>1 DEF Stake, Request, Todo, InFlight
<1>4. HandlersTypeOK'
  BY <1>1, <1>3 DEF Stake, Waits, Local, HandlersTypeOK, flags
<1>5. EntriesOwned' /\ LockedWasHeld'
  BY DEF Stake, EntriesOwned, LockedWasHeld, flags
<1>6. (\A p \in Req : ~Free(p) => InFlight(req[p]))'
  BY <1>2, <1>3 DEF Stake, InFlight, Free, flags
<1>7. \A p \in Req : p # q => (Doing(p, "stake")' <=> Doing(p, "stake"))
  BY <1>2 DEF Doing, Free
<1>8. invoice[i] = "none" /\ invoice' = invoice
  BY DEF Stake, Unissued
<1>9. \A p \in Req : p # q /\ Doing(p, "stake") => req[p].at # i
  BY DEF Stake, Unissued
<1>10. Fresh'
  BY <1>1, <1>2, <1>7, <1>8, <1>9 DEF Fresh
<1> QED BY <1>4, <1>5, <1>6, <1>10 DEF Stake, Steps

LEMMA StakeAnsweredInv ==
    ASSUME StakesInv, NEW q \in Req, StakeAnswered(q)
    PROVE  StakesInv' /\ Steps
<1> USE DEF StakesInv
<1>1. PICK r : r = req[q]
  OBVIOUS
<1>2. /\ r \in Request /\ r.op = "stake" /\ r.at \in Invoice /\ r.by \in Side
      /\ Owner[r.at] = r.by /\ invoice[r.at] = "none"
  BY <1>1 DEF StakeAnswered, Doing, Free, HandlersTypeOK, InFlight, Request, Fresh
<1>3. /\ invoice' = [invoice EXCEPT ![r.at] = "open"]
      /\ stakes' = [stakes EXCEPT ![r.by] = r.at]
      /\ req' = [req EXCEPT ![q] = Idle]
      /\ UNCHANGED <<matched, locked, released, forfeited, quit>>
  BY <1>1 DEF StakeAnswered, Returns, flags
<1>4. \A p \in Req : req'[p] = IF p = q THEN Idle ELSE req[p]
  BY <1>3 DEF HandlersTypeOK
<1>5. HandlersTypeOK'
  BY <1>2, <1>3 DEF HandlersTypeOK, Funds
<1>6. EntriesOwned'
  BY <1>2, <1>3 DEF EntriesOwned, HandlersTypeOK
<1>7. \A s \in Side : stakes[s] # NoInvoice => stakes'[s] # NoInvoice
  BY <1>2, <1>3, StakeAssumption DEF HandlersTypeOK
<1>8. ASSUME NEW p \in Req, ~Free(p)' PROVE InFlight(req[p])'
  <2>1. p # q /\ req'[p] = req[p] /\ req[p] \in Request /\ InFlight(req[p])
    BY <1>4, <1>8 DEF Free, HandlersTypeOK
  <2>2. ASSUME NEW n \in DOMAIN req[p].todo PROVE Owner[req[p].todo[n]] \in Side
    <3>1. req[p].todo \in Todo
      BY <2>1 DEF Request
    <3>2. req[p].todo[n] \in Invoice
      BY <3>1, TodoIsSeq
    <3> QED BY <3>2, StakeAssumption
  <2> QED BY <1>3, <1>7, <2>1, <2>2 DEF InFlight
<1>9. \A p \in Req : Doing(p, "stake")' =>
        p # q /\ req'[p] = req[p] /\ Doing(p, "stake") /\ req[p].at # r.at
  BY <1>1, <1>4 DEF StakeAnswered, Doing, Free, Fresh
<1>10. Fresh'
  BY <1>2, <1>3, <1>9 DEF Fresh, HandlersTypeOK
<1>11. LockedWasHeld'
  BY <1>2, <1>3 DEF LockedWasHeld, HandlersTypeOK
<1>12. E!Offer(r.at)
  BY <1>2, <1>3 DEF E!Offer, E!Becomes
<1> QED BY <1>2, <1>5, <1>6, <1>8, <1>10, <1>11, <1>12 DEF Steps, E!Next

LEMMA ConfirmInv ==
    ASSUME StakesInv, NEW q \in Req, NEW s \in Side, Confirm(q, s)
    PROVE  StakesInv' /\ Steps
<1>1. PICK r : r = [op |-> "confirm", by |-> s, todo |-> <<>>, at |-> stakes[s]]
  OBVIOUS
<1>2. Waits(q, r) /\ stakes[s] \in Invoice
  BY <1>1 DEF Confirm, Local, StakesInv, HandlersTypeOK
<1>3. OtherLocals(r) /\ InFlight(r)'
  BY <1>1, <1>2 DEF OtherLocals, Request, Todo, InFlight
<1>4. UNCHANGED <<matched, stakes, locked, released, forfeited, invoice, quit>>
  BY DEF Confirm, flags
<1> QED BY <1>2, <1>3, <1>4, Still, OneHandler DEF StakesInv, HandlersTypeOK, Steps

LEMMA ConfirmAnsweredInv ==
    ASSUME StakesInv, NEW q \in Req, ConfirmAnswered(q)
    PROVE  StakesInv' /\ Steps
<1>1. req[q].at \in Invoice
  BY DEF StakesInv, InFlight, ConfirmAnswered, Doing
<1>2. /\ locked' \subseteq Invoice
      /\ \A i \in locked' : i \in locked \/ invoice[i] = "held"
      /\ UNCHANGED <<matched, stakes, released, forfeited, invoice, quit>>
      /\ Waits(q, Idle)
  BY <1>1 DEF ConfirmAnswered, Returns, Waits, StakesInv, HandlersTypeOK
<1> QED BY <1>2, Still, OneHandler DEF StakesInv, HandlersTypeOK, Steps

LEMMA CallFailsInv ==
    ASSUME StakesInv, NEW q \in Req, CallFails(q)
    PROVE  StakesInv' /\ Steps
<1>1. /\ UNCHANGED <<matched, stakes, locked, released, forfeited, invoice, quit>>
      /\ Waits(q, Idle)
  BY DEF CallFails, Returns, Waits, flags
<1> QED BY <1>1, Still, OneHandler DEF StakesInv, HandlersTypeOK, Steps

LEMMA CancelInv ==
    ASSUME StakesInv, NEW q \in Req, NEW s \in Side, Cancel(q, s)
    PROVE  StakesInv' /\ Steps
<1>1. /\ quit' = quit \cup {s}
      /\ UNCHANGED <<matched, stakes, locked, released, forfeited, invoice>>
  BY DEF Cancel, flags
<1>2. PICK todo \in Entries : GoesOn(q, "cancel", s, todo)
  BY DEF Cancel
<1>3. PICK r : Waits(q, r) /\ (r = Idle \/ (OtherLocals(r) /\ InFlight(r)'))
  BY <1>1, <1>2, EntriesStaked, LoopGoesOn
<1>4. StakesInv'
  BY <1>1, <1>3, Still, OneHandler DEF StakesInv, HandlersTypeOK
<1>5. E!Quit(s)
  BY <1>1 DEF E!Quit
<1> QED BY <1>4, <1>5 DEF Steps, E!Next

LEMMA CancelAnsweredInv ==
    ASSUME StakesInv, NEW q \in Req, NEW works \in BOOLEAN, CancelAnswered(q, works)
    PROVE  StakesInv' /\ Steps
<1>1. PICK r : r = req[q]
  OBVIOUS
<1>2. r \in Request /\ r.op = "cancel" /\ InFlight(r)
  BY <1>1 DEF CancelAnswered, Doing, Free, StakesInv, HandlersTypeOK
<1>3. /\ r.by \in Side /\ r.by \in quit /\ r.at \in Invoice
      /\ r.todo \in Todo /\ r.todo # <<>>
      /\ Owner[r.at] = Owner[Head(r.todo)]
      /\ \A n \in DOMAIN r.todo : stakes[Owner[r.todo[n]]] # NoInvoice
  BY <1>2 DEF InFlight, Request
<1>4. /\ invoice' = IF works
                      THEN IF Owner[Head(r.todo)] = r.by THEN AfterForfeit(r.at)
                                                         ELSE AfterRelease(r.at)
                      ELSE invoice
      /\ forfeited' \subseteq forfeited \cup {Head(r.todo)}
      /\ released' \subseteq released \cup {Head(r.todo)}
      /\ GoesOn(q, "cancel", r.by, Tail(r.todo))
      /\ UNCHANGED <<matched, stakes, locked, quit>>
  BY <1>1 DEF CancelAnswered
<1>5. PICK todo : todo = Tail(r.todo)
  OBVIOUS
<1>6. /\ Head(r.todo) \in Invoice
      /\ todo \in Todo
      /\ \A n \in DOMAIN todo : stakes[Owner[todo[n]]] # NoInvoice
  BY <1>3, <1>5, TailOfTodo
<1>7. GoesOn(q, "cancel", r.by, todo)
  BY <1>4, <1>5
<1>8. PICK next : Waits(q, next) /\ (next = Idle \/ (OtherLocals(next) /\ InFlight(next)'))
  BY <1>3, <1>4, <1>6, <1>7, LoopGoesOn
<1>9. Moves /\ Steps
  <2>1. CASE works /\ Owner[Head(r.todo)] = r.by
    BY <1>3, <1>4, <2>1, ForfeitClaims
  <2>2. CASE works /\ Owner[Head(r.todo)] # r.by
    BY <1>3, <1>4, <2>2, ReleaseReturns
  <2>3. CASE ~works
    BY <1>4, <2>3, Still DEF Steps
  <2> QED BY <2>1, <2>2, <2>3
<1>10. StakesInv'
  BY <1>4, <1>6, <1>8, <1>9, OneHandler DEF StakesInv, HandlersTypeOK
<1> QED BY <1>9, <1>10

LEMMA CompleteInv ==
    ASSUME StakesInv, NEW q \in Req, Complete(q)
    PROVE  StakesInv' /\ Steps
<1>1. PICK r : r = [op |-> "price", by |-> "provider", todo |-> <<>>, at |-> NoInvoice]
  OBVIOUS
<1>2. /\ UNCHANGED <<matched, stakes, locked, released, forfeited, invoice, quit>>
      /\ Waits(q, r)
  BY <1>1 DEF Complete, Local, flags
<1>3. OtherLocals(r) /\ InFlight(r)'
  BY <1>1, StakeAssumption DEF OtherLocals, Request, Todo, InFlight
<1> QED BY <1>2, <1>3, Still, OneHandler DEF StakesInv, HandlersTypeOK, Steps

LEMMA CompletePricedInv ==
    ASSUME StakesInv, NEW q \in Req, CompletePriced(q)
    PROVE  StakesInv' /\ Steps
<1>1. UNCHANGED <<matched, stakes, locked, released, forfeited, invoice, quit>>
  BY DEF CompletePriced, flags
<1>2. PICK todo \in Entries : GoesOn(q, "complete", "provider", todo)
  BY DEF CompletePriced
<1>3. PICK r : Waits(q, r) /\ (r = Idle \/ (OtherLocals(r) /\ InFlight(r)'))
  BY <1>1, <1>2, EntriesStaked, LoopGoesOn, StakeAssumption
<1> QED BY <1>1, <1>3, Still, OneHandler DEF StakesInv, HandlersTypeOK, Steps

LEMMA CompleteAnsweredInv ==
    ASSUME StakesInv, NEW q \in Req, NEW works \in BOOLEAN, CompleteAnswered(q, works)
    PROVE  StakesInv' /\ Steps
<1>1. PICK r : r = req[q]
  OBVIOUS
<1>2. r \in Request /\ r.op = "complete" /\ InFlight(r)
  BY <1>1 DEF CompleteAnswered, Doing, Free, StakesInv, HandlersTypeOK
<1>3. /\ r.at \in Invoice /\ r.todo \in Todo /\ r.todo # <<>>
      /\ \A n \in DOMAIN r.todo : stakes[Owner[r.todo[n]]] # NoInvoice
  BY <1>2 DEF InFlight, Request
<1>4. UNCHANGED <<matched, stakes, locked, forfeited, quit>>
  BY DEF CompleteAnswered
<1>5. CASE works /\ CanRelease(r.at)
  <2>1. /\ invoice' = AfterRelease(r.at)
        /\ released' = released \cup {Head(r.todo)}
        /\ GoesOn(q, "complete", "provider", Tail(r.todo))
    BY <1>1, <1>5 DEF CompleteAnswered
  <2>2. PICK todo : todo = Tail(r.todo)
    OBVIOUS
  <2>3. /\ Head(r.todo) \in Invoice
        /\ todo \in Todo
        /\ \A n \in DOMAIN todo : stakes[Owner[todo[n]]] # NoInvoice
    BY <1>3, <2>2, TailOfTodo
  <2>4. GoesOn(q, "complete", "provider", todo)
    BY <2>1, <2>2
  <2>5. PICK next :
          Waits(q, next) /\ (next = Idle \/ (OtherLocals(next) /\ InFlight(next)'))
    BY <1>4, <2>3, <2>4, LoopGoesOn, StakeAssumption
  <2>6. Moves /\ Steps
    BY <1>3, <1>4, <2>1, ReleaseReturns
  <2>7. StakesInv'
    BY <1>4, <2>1, <2>3, <2>5, <2>6, OneHandler DEF StakesInv, HandlersTypeOK
  <2> QED BY <2>6, <2>7
<1>6. CASE ~(works /\ CanRelease(r.at))
  <2>1. Waits(q, Idle) /\ UNCHANGED <<invoice, released>>
    BY <1>1, <1>6 DEF CompleteAnswered, Returns, Waits
  <2> QED BY <1>4, <2>1, Still, OneHandler DEF StakesInv, HandlersTypeOK, Steps
<1> QED BY <1>5, <1>6

\* What touches no stake, and what a party does with its invoice.
LEMMA OthersInv ==
    ASSUME StakesInv,
           \/ Accept \/ RequestExpires
           \/ \E s \in State : Transition(s)
           \/ \E i \in Invoice : Pay(i) \/ InvoiceExpires(i) \/ HoldExpires(i)
    PROVE  StakesInv' /\ Steps
<1>1. ASSUME \/ Accept \/ RequestExpires
             \/ \E s \in State : Transition(s)
      PROVE  StakesInv' /\ Steps
  <2>1. matched' \in BOOLEAN /\ UNCHANGED <<stakes, flags, invoice, req, quit>>
    BY <1>1 DEF Accept, RequestExpires, Transition, StakesInv, HandlersTypeOK
  <2> QED BY <2>1, Still, NoHandler DEF Steps
<1>2. ASSUME NEW i \in Invoice, Pay(i) \/ InvoiceExpires(i) \/ HoldExpires(i)
      PROVE  StakesInv' /\ Steps
  <2>1. matched' \in BOOLEAN /\ UNCHANGED <<stakes, flags, req, quit>>
    BY <1>2 DEF Pay, InvoiceExpires, HoldExpires, StakesInv, HandlersTypeOK
  <2>2. Moves
    BY <1>2, OneMoves DEF Pay, InvoiceExpires, HoldExpires, Funds
  <2>3. E!Fund(i) \/ E!Return(i)
    BY <1>2 DEF Pay, InvoiceExpires, HoldExpires, E!Fund, E!Return, E!Becomes
  <2> QED BY <2>1, <2>2, <2>3, NoHandler DEF Steps, E!Next
<1> QED BY <1>1, <1>2

LEMMA StakesNextInv == StakesInv /\ [Next]_vars => StakesInv' /\ Steps
<1> SUFFICES ASSUME StakesInv, [Next]_vars PROVE StakesInv' /\ Steps
  OBVIOUS
<1>1. CASE Proceeds
  BY <1>1, StakeInv, StakeAnsweredInv, ConfirmInv, ConfirmAnsweredInv, CancelInv,
     CancelAnsweredInv, CompleteInv, CompletePricedInv, CompleteAnsweredInv, OthersInv
     DEF Proceeds
<1>2. CASE NodeFails
  BY <1>2, CallFailsInv, CancelAnsweredInv, CompleteAnsweredInv DEF NodeFails
<1>3. CASE UNCHANGED vars
  <2>1. matched' \in BOOLEAN /\ UNCHANGED <<stakes, flags, invoice, req, quit>>
    BY <1>3 DEF vars, StakesInv, HandlersTypeOK
  <2> QED BY <2>1, Still, NoHandler DEF Steps
<1>4. CASE \E i \in Invoice : HoldExpires(i)
  BY <1>4, OthersInv
<1> QED BY <1>1, <1>2, <1>3, <1>4 DEF Next

LEMMA StakesInitInv == Init => StakesInv
<1> SUFFICES ASSUME Init PROVE StakesInv
  OBVIOUS
<1>1. HandlersTypeOK
  BY DEF Init, HandlersTypeOK, Funds
<1>2. EntriesOwned /\ LockedWasHeld
  BY DEF Init, EntriesOwned, LockedWasHeld
<1>3. \A q \in Req : Free(q)
  BY DEF Init, Free
<1> QED BY <1>1, <1>2, <1>3 DEF StakesInv, Fresh, Doing

\* Whatever requests overlap and whatever the node answers, the handlers may rely on
\* what they kept across their awaits.
THEOREM HandlersInv == Spec => []StakesInv
BY StakesInitInv, StakesNextInv, PTL DEF Spec

\* A stake counts as locked because the node held its payment (confirmTaskStake), for
\* any number of requests in flight and any number of invoices.
THEOREM LockedIsPaid == Spec => []LockedWasHeld
<1>1. StakesInv => LockedWasHeld
  BY DEF StakesInv
<1> QED BY <1>1, HandlersInv, PTL

\* The handlers of stakes, cancellation and completion implement Escrow: every step
\* of theirs is one that Escrow allows, or changes nothing Escrow speaks of.
THEOREM ImplementsEscrow == Spec => KeepsEscrow
<1>1. Init => E!Init
  BY DEF Init, E!Init
<1>2. StakesInv /\ [Next]_vars => [E!Next]_<<invoice, quit>>
  BY StakesNextInv DEF Steps
<1> QED BY <1>1, <1>2, HandlersInv, PTL DEF Spec, KeepsEscrow, E!Spec

-----------------------------------------------------------------------------
(* Calm behaviours: what the ride says became of a stake is what the node did. *)

\* What a loop has still to do of a stake is still to be done, and the rail is asked
\* about the very entry the outcome will be recorded of.
OnItsWay(r) ==
    r.op \in {"cancel", "complete"} =>
        /\ r.at = Head(r.todo)
        /\ Due(r.op, r.at)
        /\ \A m, n \in DOMAIN r.todo : m # n => r.todo[m] # r.todo[n]
        /\ \A n \in DOMAIN r.todo : stakes[Owner[r.todo[n]]] = r.todo[n]

\* A stake locked and not dealt with is held, or the node has given it back.
AsRecorded ==
    /\ \A i \in released : invoice[i] = "cancelled"
    /\ \A i \in forfeited : i \in lapsed \/ invoice[i] = "settled"
    /\ \A i \in locked : \/ i \in released \/ i \in forfeited \/ i \in lapsed
                         \/ invoice[i] = "held"
    /\ \A i \in lapsed : i \in Invoice /\ invoice[i] = "cancelled"

CalmInv ==
    calm =>
        /\ ~Overlap
        /\ AsRecorded
        /\ \A q \in Req : ~Free(q) => OnItsWay(req[q])

\* Entries that differ still do from entry n on.
LEMMA RestDiffers ==
    ASSUME NEW todo \in Todo, NEW n \in DOMAIN todo,
           \A j, k \in DOMAIN todo : j # k => todo[j] # todo[k]
    PROVE  LET w == SubSeq(todo, n, Len(todo))
           IN  \A j, k \in DOMAIN w : j # k => w[j] # w[k]
<1> DEFINE w == SubSeq(todo, n, Len(todo))
<1>1. /\ todo \in Seq(Invoice) /\ Len(todo) \in 0..2 /\ DOMAIN todo = 1..Len(todo)
      /\ n \in 1..Len(todo)
  BY TodoIsSeq
<1>2. /\ w \in Seq(Invoice)
      /\ Len(w) = Len(todo) - n + 1
      /\ \A m \in 1..Len(w) : w[m] = todo[n + m - 1]
  BY <1>1, SubSeqProperties, ElementOfSeq
<1> HIDE DEF w
<1>3. DOMAIN w = 1..Len(w)
  BY <1>2, LenProperties
<1>4. ASSUME NEW j \in DOMAIN w, NEW k \in DOMAIN w, j # k PROVE w[j] # w[k]
  <2>1. j \in 1..Len(w) /\ k \in 1..Len(w)
    BY <1>3, <1>4
  <2>2. n + j - 1 \in 1..Len(todo) /\ n + k - 1 \in 1..Len(todo)
        /\ n + j - 1 # n + k - 1
    BY <1>1, <1>2, <1>4, <2>1
  <2>3. w[j] = todo[n + j - 1] /\ w[k] = todo[n + k - 1]
    BY <1>2, <2>1
  <2> QED BY <1>1, <2>2, <2>3
<1> QED BY <1>4 DEF w

\* Entries that differ still do without the first, which is none of them.
LEMMA TailDiffers ==
    ASSUME NEW todo \in Todo, todo # <<>>,
           \A j, k \in DOMAIN todo : j # k => todo[j] # todo[k]
    PROVE  /\ \A j, k \in DOMAIN Tail(todo) : j # k => Tail(todo)[j] # Tail(todo)[k]
           /\ \A k \in DOMAIN Tail(todo) : Tail(todo)[k] # Head(todo)
           /\ \E k \in DOMAIN todo : Head(todo) = todo[k]
<1>1. /\ todo \in Seq(Invoice) /\ Len(todo) \in 1..2 /\ DOMAIN todo = 1..Len(todo)
  BY TodoIsSeq, EmptySeq
<1>2. PICK w : w = Tail(todo)
  OBVIOUS
<1>3. /\ w \in Seq(Invoice) /\ Len(w) = Len(todo) - 1
      /\ \A m \in 1..Len(w) : w[m] = todo[m + 1]
      /\ Head(todo) = todo[1]
  BY <1>1, <1>2, HeadTailProperties
<1>4. DOMAIN w = 1..Len(w)
  BY <1>3, LenProperties
<1>5. ASSUME NEW k \in DOMAIN w
      PROVE  w[k] = todo[k + 1] /\ k + 1 \in DOMAIN todo /\ k + 1 # 1 /\ k \in Int
  BY <1>1, <1>3, <1>4
<1>6. 1 \in DOMAIN todo
  BY <1>1
<1>7. ASSUME NEW j \in DOMAIN w, NEW k \in DOMAIN w, j # k PROVE w[j] # w[k]
  <2>1. j + 1 # k + 1
    BY <1>5, <1>7
  <2> QED BY <1>5, <2>1
<1>8. ASSUME NEW k \in DOMAIN w PROVE w[k] # Head(todo)
  BY <1>3, <1>5, <1>6
<1> QED BY <1>2, <1>3, <1>6, <1>7, <1>8

\* What the loop goes on with is on its way.
LEMMA LoopOnItsWay ==
    ASSUME StakesInv, UNCHANGED stakes,
           NEW q \in Req, NEW op \in {"cancel", "complete"}, NEW s \in Side,
           NEW todo \in Todo,
           \A j, k \in DOMAIN todo : j # k => todo[j] # todo[k],
           \A n \in DOMAIN todo : stakes[Owner[todo[n]]] = todo[n],
           \A n \in DOMAIN todo : Due(op, todo[n]) => Due(op, todo[n])',
           GoesOn(q, op, s, todo)
    PROVE  \E r : Waits(q, r) /\ (r = Idle \/ OnItsWay(r)')
<1>1. CASE Returns(q)
  BY <1>1 DEF Returns, Waits
<1>2. ASSUME NEW n \in DOMAIN todo, Due(op, todo[n]),
             Waits(q, Local(op, s, SubSeq(todo, n, Len(todo)), stakes[Owner[todo[n]]]))
      PROVE  \E r : Waits(q, r) /\ OnItsWay(r)'
  <2>1. PICK w : w = SubSeq(todo, n, Len(todo))
    OBVIOUS
  <2>2. /\ w # <<>> /\ Head(w) = todo[n]
        /\ \A m \in DOMAIN w : \E k \in DOMAIN todo : w[m] = todo[k]
    BY <2>1, RestOfTodo
  <2>3. \A j, k \in DOMAIN w : j # k => w[j] # w[k]
    BY <2>1, RestDiffers
  <2>4. PICK at : at = todo[n]
    OBVIOUS
  <2>5. PICK r : r = [op |-> op, by |-> s, todo |-> w, at |-> at]
    OBVIOUS
  <2>6. Waits(q, r)
    BY <1>2, <2>1, <2>4, <2>5 DEF Local
  <2>7. Due(op, at)'
    BY <1>2, <2>4
  <2>8. \A m \in DOMAIN w : stakes'[Owner[w[m]]] = w[m]
    BY <2>2
  <2>9. OnItsWay(r)'
    BY <2>2, <2>3, <2>4, <2>5, <2>7, <2>8 DEF OnItsWay
  <2> QED BY <2>6, <2>9
<1> QED BY <1>1, <1>2 DEF GoesOn

\* The entries a loop starts on: each is what its side has staked.
LEMMA EntriesOnItsWay ==
    ASSUME StakesInv, NEW todo \in Entries
    PROVE  /\ todo \in Todo
           /\ \A j, k \in DOMAIN todo : j # k => todo[j] # todo[k]
           /\ \A n \in DOMAIN todo : stakes[Owner[todo[n]]] = todo[n]
<1>1. todo \in Todo /\ \A j, k \in DOMAIN todo : j # k => todo[j] # todo[k]
  BY DEF Entries
<1>2. ASSUME NEW n \in DOMAIN todo PROVE stakes[Owner[todo[n]]] = todo[n]
  <2>1. PICK s \in Side : todo[n] = stakes[s] /\ stakes[s] # NoInvoice
    BY <1>2 DEF Entries
  <2> QED BY <2>1 DEF StakesInv, EntriesOwned
<1> QED BY <1>1, <1>2

\* A step of handler q: the others are not there while it is, or have nothing changed
\* under them.
LEMMA CalmHandler ==
    ASSUME StakesInv, CalmInv, calm, ~Overlap', AsRecorded',
           NEW q \in Req, NEW r, Waits(q, r),
           r = Idle \/ OnItsWay(r)',
           ~Free(q) \/ UNCHANGED <<stakes, flags>>
    PROVE  CalmInv'
<1>0. \A p \in Req : req'[p] = IF p = q THEN r ELSE req[p]
  BY DEF Waits, StakesInv, HandlersTypeOK
<1>1. ASSUME NEW p \in Req, ~Free(p)' PROVE OnItsWay(req[p])'
  <2>1. CASE p = q
    BY <1>0, <1>1, <2>1 DEF Free, OnItsWay, Due
  <2>2. CASE p # q
    <3>1. req'[p] = req[p] /\ ~Free(p)
      BY <1>0, <1>1, <2>2 DEF Free
    <3>2. UNCHANGED <<stakes, locked, released, forfeited>>
      BY <2>2, <3>1 DEF CalmInv, Overlap, flags
    <3>3. OnItsWay(req[p])
      BY <3>1 DEF CalmInv
    <3> QED BY <3>1, <3>2, <3>3 DEF OnItsWay, Due
  <2> QED BY <2>1, <2>2
<1> QED BY <1>1 DEF CalmInv

\* A step of no handler.
LEMMA CalmNoHandler ==
    ASSUME CalmInv, calm, ~Overlap', AsRecorded', UNCHANGED <<stakes, flags, req>>
    PROVE  CalmInv'
BY DEF CalmInv, OnItsWay, Due, Free, flags

\* An answer about a new stake, or about a payment.
LEMMA CalmStakes ==
    ASSUME StakesInv, CalmInv, calm, ~Overlap', UNCHANGED lapsed, NEW q \in Req,
           \/ \E s \in Side, i \in Invoice : Stake(q, s, i)
           \/ \E s \in Side : Confirm(q, s)
           \/ StakeAnswered(q) \/ ConfirmAnswered(q) \/ Complete(q)
    PROVE  CalmInv'
<1>0. AsRecorded
  BY DEF CalmInv
<1>1. CASE \/ \E s \in Side, i \in Invoice : Stake(q, s, i)
           \/ \E s \in Side : Confirm(q, s)
           \/ Complete(q)
  <2>1. PICK r : Waits(q, r) /\ r.op \in {"stake", "confirm", "price"}
    <3>1. ASSUME NEW op \in {"stake", "confirm", "price"}, NEW s, NEW i,
                 Waits(q, Local(op, s, <<>>, i))
          PROVE  \E r : Waits(q, r) /\ r.op \in {"stake", "confirm", "price"}
      <4>1. Local(op, s, <<>>, i).op = op
        BY DEF Local
      <4> QED BY <3>1, <4>1
    <3> QED BY <1>1, <3>1 DEF Stake, Confirm, Complete
  <2>2. UNCHANGED <<stakes, flags, invoice>>
    BY <1>1 DEF Stake, Confirm, Complete
  <2>3. AsRecorded' /\ OnItsWay(r)'
    BY <1>0, <2>1, <2>2 DEF AsRecorded, OnItsWay, flags
  <2> QED BY <2>1, <2>2, <2>3, CalmHandler
<1>2. CASE StakeAnswered(q)
  <2>1. PICK r : r = req[q]
    OBVIOUS
  <2>2. /\ r.at \in Invoice /\ invoice[r.at] = "none"
        /\ invoice' = [invoice EXCEPT ![r.at] = "open"]
        /\ UNCHANGED <<locked, released, forfeited>>
        /\ Waits(q, Idle) /\ ~Free(q)
    BY <1>2, <2>1 DEF StakeAnswered, Doing, Returns, Waits, StakesInv, InFlight, Fresh, flags
  <2>3. r.at \notin locked /\ r.at \notin released /\ r.at \notin forfeited \cup lapsed
    <3>1. r.at \notin locked /\ r.at \notin released /\ r.at \notin lapsed
      BY <1>0, <2>2 DEF AsRecorded, StakesInv, LockedWasHeld
    <3> QED BY <1>0, <2>2, <3>1 DEF AsRecorded
  <2>4. AsRecorded'
    BY <1>0, <2>2, <2>3 DEF AsRecorded, StakesInv, HandlersTypeOK
  <2> QED BY <2>2, <2>4, CalmHandler
<1>3. CASE ConfirmAnswered(q)
  <2>1. /\ \A i \in locked' : i \in locked \/ invoice[i] = "held"
        /\ UNCHANGED <<released, forfeited, invoice>>
        /\ Waits(q, Idle) /\ ~Free(q)
    BY <1>3 DEF ConfirmAnswered, Doing, Returns, Waits
  <2>2. AsRecorded'
    BY <1>0, <2>1 DEF AsRecorded
  <2> QED BY <2>1, <2>2, CalmHandler
<1> QED BY <1>1, <1>2, <1>3

\* A loop starts.
LEMMA CalmLoopStarts ==
    ASSUME StakesInv, CalmInv, calm, ~Overlap', UNCHANGED lapsed, NEW q \in Req,
           (\E s \in Side : Cancel(q, s)) \/ CompletePriced(q)
    PROVE  CalmInv'
<1>1. UNCHANGED <<stakes, locked, released, forfeited, invoice>>
  BY DEF Cancel, CompletePriced, flags
<1>2. PICK op \in {"cancel", "complete"}, s \in Side, todo \in Entries : GoesOn(q, op, s, todo)
  BY StakeAssumption DEF Cancel, CompletePriced
<1>3. /\ todo \in Todo
      /\ \A j, k \in DOMAIN todo : j # k => todo[j] # todo[k]
      /\ \A n \in DOMAIN todo : stakes[Owner[todo[n]]] = todo[n]
  BY EntriesOnItsWay
<1>4. \A n \in DOMAIN todo : Due(op, todo[n]) => Due(op, todo[n])'
  BY <1>1 DEF Due
<1>5. PICK r : Waits(q, r) /\ (r = Idle \/ OnItsWay(r)')
  BY <1>1, <1>2, <1>3, <1>4, LoopOnItsWay
<1>6. AsRecorded'
  BY <1>1 DEF CalmInv, AsRecorded
<1> QED BY <1>1, <1>5, <1>6, CalmHandler DEF flags

\* The rail answers a loop.  The entry was locked and not dealt with, so it is held or
\* the node has given it back, and what the rail did is what is recorded of it.
LEMMA CalmLoopAnswered ==
    ASSUME StakesInv, CalmInv, calm, ~Overlap', UNCHANGED lapsed, NEW q \in Req,
           CancelAnswered(q, TRUE) \/ CompleteAnswered(q, TRUE)
    PROVE  CalmInv'
<1>1. PICK r : r = req[q]
  OBVIOUS
<1>2. /\ r \in Request /\ r.op \in {"cancel", "complete"} /\ ~Free(q) /\ InFlight(r)
      /\ OnItsWay(r) /\ AsRecorded
  BY <1>1 DEF CancelAnswered, CompleteAnswered, Doing, Free, StakesInv, HandlersTypeOK, CalmInv
<1>3. /\ r.by \in Side /\ r.todo \in Todo /\ r.todo # <<>> /\ r.at \in Invoice
      /\ r.at = Head(r.todo) /\ Due(r.op, r.at)
      /\ \A m, n \in DOMAIN r.todo : m # n => r.todo[m] # r.todo[n]
      /\ \A n \in DOMAIN r.todo : stakes[Owner[r.todo[n]]] = r.todo[n]
  BY <1>2 DEF Request, InFlight, OnItsWay
<1>4. r.at \in locked /\ r.at \notin released
  BY <1>3 DEF Due
<1>5. /\ r.at \in forfeited \/ r.at \in lapsed \/ invoice[r.at] = "held"
      /\ r.at \in lapsed => invoice[r.at] = "cancelled"
      /\ r.at \in forfeited => r.at \in lapsed \/ invoice[r.at] = "settled"
  BY <1>2, <1>4 DEF AsRecorded
<1>6. PICK todo : todo = Tail(r.todo)
  OBVIOUS
<1>7. /\ todo \in Todo
      /\ \A j, k \in DOMAIN todo : j # k => todo[j] # todo[k]
      /\ \A k \in DOMAIN todo : todo[k] # r.at
  BY <1>3, <1>6, TailOfTodo, TailDiffers
<1>8. \A n \in DOMAIN todo : stakes[Owner[todo[n]]] = todo[n]
  <2>1. \A m \in DOMAIN todo : \E k \in DOMAIN r.todo : todo[m] = r.todo[k]
    BY <1>3, <1>6, TailOfTodo
  <2> QED BY <1>3, <2>1
<1>9. invoice \in [Invoice -> Funds] /\ UNCHANGED <<stakes, locked>>
  BY DEF StakesInv, HandlersTypeOK, CancelAnswered, CompleteAnswered
<1>10. ASSUME AsRecorded',
              released' \subseteq released \cup {r.at}, released \subseteq released',
              forfeited' \subseteq forfeited \cup {r.at}, forfeited \subseteq forfeited',
              NEW s \in Side, GoesOn(q, r.op, s, todo)
       PROVE  CalmInv'
  <2>1. \A n \in DOMAIN todo : Due(r.op, todo[n]) => Due(r.op, todo[n])'
    BY <1>7, <1>9, <1>10 DEF Due
  <2>2. PICK next : Waits(q, next) /\ (next = Idle \/ OnItsWay(next)')
    BY <1>2, <1>7, <1>8, <1>9, <1>10, <2>1, LoopOnItsWay
  <2> QED BY <1>2, <1>10, <2>2, CalmHandler
<1>11. ASSUME NEW to \in Funds,
              \A i \in Invoice : invoice'[i] = IF i = r.at THEN to ELSE invoice[i],
              r.at \in lapsed => to = "cancelled",
              released' = released \/ (released' = released \cup {r.at} /\ to = "cancelled"),
              \/ forfeited' = forfeited
              \/ forfeited' = forfeited \cup {r.at} /\ (r.at \in lapsed \/ to = "settled"),
              r.at \in forfeited => r.at \in lapsed \/ to = "settled",
              r.at \in released' \cup forfeited' \cup lapsed \/ to = "held"
       PROVE  AsRecorded'
  <2>1. \A i \in released \cup forfeited \cup locked \cup lapsed : i \in Invoice
    BY <1>2 DEF StakesInv, HandlersTypeOK, AsRecorded
  <2>2. \A i \in released' : invoice'[i] = "cancelled"
    BY <1>2, <1>4, <1>11, <2>1 DEF AsRecorded
  <2>3. \A i \in forfeited' : i \in lapsed \/ invoice'[i] = "settled"
    BY <1>2, <1>3, <1>11, <2>1 DEF AsRecorded
  <2>4. \A i \in lapsed : i \in Invoice /\ invoice'[i] = "cancelled"
    BY <1>2, <1>11, <2>1 DEF AsRecorded
  <2>5. ASSUME NEW i \in locked
        PROVE  i \in released' \/ i \in forfeited' \/ i \in lapsed \/ invoice'[i] = "held"
    <3>1. CASE i = r.at
      BY <1>3, <1>11, <3>1
    <3>2. CASE i # r.at
      <4>1. i \in released \/ i \in forfeited \/ i \in lapsed \/ invoice[i] = "held"
        BY <1>2, <2>5 DEF AsRecorded
      <4>2. invoice'[i] = invoice[i] /\ released \subseteq released' /\ forfeited \subseteq forfeited'
        BY <1>11, <2>1, <2>5, <3>2
      <4> QED BY <4>1, <4>2
    <3> QED BY <3>1, <3>2
  <2> QED BY <1>9, <2>2, <2>3, <2>4, <2>5 DEF AsRecorded
<1>12. CASE CancelAnswered(q, TRUE)
  <2>0. r.op = "cancel"
    BY <1>1, <1>12 DEF CancelAnswered, Doing
  <2>1. r.at \notin forfeited /\ (invoice[r.at] = "held" \/ r.at \in lapsed)
    BY <1>3, <1>5, <2>0 DEF Due
  <2>2. GoesOn(q, r.op, r.by, todo)
    BY <1>1, <1>6, <1>12, <2>0 DEF CancelAnswered
  <2>3. CASE Owner[r.at] = r.by
    <3>1. /\ invoice' = AfterForfeit(r.at)
          /\ forfeited' = forfeited \cup {r.at}
          /\ released' = released
      BY <1>1, <1>3, <1>12, <2>3 DEF CancelAnswered
    <3>2. PICK to \in Funds : to = IF r.at \in lapsed THEN "cancelled" ELSE "settled"
      BY DEF Funds
    <3>3. \A i \in Invoice : invoice'[i] = IF i = r.at THEN to ELSE invoice[i]
      BY <1>3, <1>5, <1>9, <2>1, <3>1, <3>2 DEF AfterForfeit
    <3>4. AsRecorded'
      BY <1>11, <2>1, <3>1, <3>2, <3>3
    <3> QED BY <1>10, <1>3, <2>2, <3>1, <3>4
  <2>4. CASE Owner[r.at] # r.by
    <3>1. /\ invoice' = AfterRelease(r.at)
          /\ forfeited' = forfeited
          /\ released' = released \cup {r.at}
      BY <1>1, <1>3, <1>12, <2>4 DEF CancelAnswered
    <3>2. \A i \in Invoice : invoice'[i] = IF i = r.at THEN "cancelled" ELSE invoice[i]
      BY <1>3, <1>5, <1>9, <2>1, <3>1 DEF AfterRelease
    <3>3. AsRecorded'
      BY <1>11, <2>1, <3>1, <3>2 DEF Funds
    <3> QED BY <1>10, <1>3, <2>2, <3>1, <3>3
  <2> QED BY <2>3, <2>4
<1>13. CASE CompleteAnswered(q, TRUE)
  <2>0. r.op = "complete" /\ "provider" \in Side /\ UNCHANGED forfeited
    BY <1>1, <1>13, StakeAssumption DEF CompleteAnswered, Doing
  <2>1. CASE CanRelease(r.at)
    <3>1. /\ invoice' = AfterRelease(r.at)
          /\ released' = released \cup {r.at}
          /\ GoesOn(q, r.op, "provider", todo)
      BY <1>1, <1>3, <1>6, <1>13, <2>0, <2>1 DEF CompleteAnswered
    <3>2. \A i \in Invoice : invoice'[i] = IF i = r.at THEN "cancelled" ELSE invoice[i]
      BY <1>3, <1>9, <2>1, <3>1 DEF AfterRelease, CanRelease
    <3>3. r.at \in forfeited => r.at \in lapsed
      BY <1>5, <2>1 DEF CanRelease
    <3>4. AsRecorded'
      BY <1>11, <2>0, <3>1, <3>2, <3>3 DEF Funds
    <3> QED BY <1>10, <2>0, <3>1, <3>4
  <2>2. CASE ~CanRelease(r.at)
    <3>1. Waits(q, Idle) /\ UNCHANGED <<invoice, released>>
      BY <1>1, <1>13, <2>2 DEF CompleteAnswered, Returns, Waits
    <3>2. AsRecorded'
      BY <1>2, <1>9, <2>0, <3>1 DEF AsRecorded
    <3> QED BY <1>2, <3>1, <3>2, CalmHandler
  <2> QED BY <2>1, <2>2
<1> QED BY <1>12, <1>13

\* What touches no stake: a party's invoice that moves was neither locked nor dealt with.
LEMMA CalmOthers ==
    ASSUME StakesInv, CalmInv, calm, ~Overlap', UNCHANGED lapsed,
           \/ Accept \/ RequestExpires
           \/ \E s \in State : Transition(s)
           \/ \E i \in Invoice : Pay(i) \/ InvoiceExpires(i)
    PROVE  CalmInv'
<1>0. AsRecorded
  BY DEF CalmInv
<1>1. UNCHANGED <<stakes, flags, req>>
  BY DEF Accept, RequestExpires, Transition, Pay, InvoiceExpires
<1>2. AsRecorded'
  <2>1. CASE UNCHANGED invoice
    BY <1>0, <1>1, <2>1 DEF AsRecorded, flags
  <2>2. ASSUME NEW i \in Invoice, Pay(i) \/ InvoiceExpires(i) PROVE AsRecorded'
    <3>1. invoice[i] = "open" /\ \A j \in Invoice : j # i => invoice'[j] = invoice[j]
      BY <2>2 DEF Pay, InvoiceExpires, StakesInv, HandlersTypeOK
    <3>2. i \notin locked /\ i \notin released /\ i \notin forfeited /\ i \notin lapsed
      BY <1>0, <3>1 DEF AsRecorded, StakesInv, LockedWasHeld
    <3>3. \A j \in locked \cup released \cup forfeited \cup lapsed : j \in Invoice /\ j # i
      BY <1>0, <3>2 DEF StakesInv, HandlersTypeOK, AsRecorded
    <3> QED BY <1>0, <1>1, <3>1, <3>3 DEF AsRecorded, flags
  <2> QED BY <2>1, <2>2 DEF Accept, RequestExpires, Transition
<1> QED BY <1>1, <1>2, CalmNoHandler

\* The node gives a payment back by itself: the ride had not dealt with it, or had
\* recorded it forfeited when the node had given it back already.
LEMMA CalmHoldExpires ==
    ASSUME StakesInv, CalmInv, calm, calm', NEW i \in Invoice, HoldExpires(i),
           lapsed' = lapsed \cup {i}
    PROVE  CalmInv'
<1>0. AsRecorded /\ ~Overlap
  BY DEF CalmInv
<1>1. UNCHANGED <<stakes, flags, req, locked, released, forfeited>>
  BY DEF HoldExpires, flags
<1>2. invoice[i] = "held" /\ \A j \in Invoice : invoice'[j] = IF j = i THEN "cancelled" ELSE invoice[j]
  BY DEF HoldExpires, StakesInv, HandlersTypeOK
<1>3. \A j \in locked \cup released \cup forfeited \cup lapsed : j \in Invoice
  BY <1>0 DEF StakesInv, HandlersTypeOK, AsRecorded
<1>4. AsRecorded'
  BY <1>0, <1>1, <1>2, <1>3 DEF AsRecorded
<1>5. ~Overlap'
  BY <1>0, <1>1 DEF Overlap, Free
<1> QED BY <1>1, <1>4, <1>5, CalmNoHandler

LEMMA CalmNextInv == StakesInv /\ CalmInv /\ [CalmNext]_calmVars => CalmInv'
<1> SUFFICES ASSUME StakesInv, CalmInv, [CalmNext]_calmVars PROVE CalmInv'
  OBVIOUS
<1>1. CASE ~calm'
  BY <1>1 DEF CalmInv
<1>2. CASE calm' /\ CalmNext
  <2>1. CASE Proceeds /\ UNCHANGED lapsed /\ calm /\ ~Overlap'
    BY <2>1, CalmStakes, CalmLoopStarts, CalmLoopAnswered, CalmOthers DEF Proceeds
  <2>2. CASE calm /\ \E i \in Invoice : HoldExpires(i) /\ lapsed' = lapsed \cup {i}
    BY <1>2, <2>2, CalmHoldExpires
  <2> QED BY <1>2, <2>1, <2>2 DEF CalmNext
<1>3. CASE calm' /\ UNCHANGED calmVars
  <2>1. UNCHANGED <<stakes, locked, released, forfeited, invoice, req, calm, lapsed>>
    BY <1>3 DEF calmVars, vars, flags
  <2>2. ~Overlap' /\ AsRecorded'
    BY <1>3, <2>1 DEF CalmInv, Overlap, Free, AsRecorded
  <2> QED BY <1>3, <2>1, <2>2, CalmNoHandler DEF flags
<1> QED BY <1>1, <1>2, <1>3

\* As long as requests on a task's stakes came one at a time and the node answered,
\* an entry marked released is of a stake that was returned, and one marked forfeited
\* of a stake that was claimed, unless the node had given it back at the end of its hold
\* (/cancel and /complete); for any number of invoices, and whenever they are paid or
\* expire, paid ones included.
THEOREM CalmRecords == CalmSpec => []CalmIsRecorded
<1>1. CalmInit => StakesInv /\ CalmInv
  <2>1. CalmInit => CalmInv
    BY DEF CalmInit, Init, CalmInv, Overlap, Free, AsRecorded
  <2> QED BY <2>1, StakesInitInv DEF CalmInit
<1>2. StakesInv /\ CalmInv /\ [CalmNext]_calmVars => (StakesInv /\ CalmInv)'
  <2>1. [CalmNext]_calmVars => [Next]_vars
    BY DEF CalmNext, Next, calmVars
  <2> QED BY <2>1, CalmNextInv, StakesNextInv
<1>3. CalmInv => CalmIsRecorded
  BY DEF CalmInv, AsRecorded, CalmIsRecorded, RecordIsOutcome
<1> QED BY <1>1, <1>2, <1>3, PTL DEF CalmSpec

--------------------------------------------------------------------------------
(* The stand-alone driver page: what it may rely on.                           *)

Button == {"stake", "arrived", "start", "complete"}

DriverRecord ==
    [online: BOOLEAN, room: Ride \cup {NoRide}, socket: BOOLEAN, pending: SUBSET Ride,
     ride: Ride \cup {NoRide}, last: Ride \cup {NoRide}, due: BOOLEAN, arrival: BOOLEAN,
     start: BOOLEAN, awaiting: BOOLEAN, moving: {"no", "pickup", "dropoff"},
     timer: BOOLEAN, halted: BOOLEAN, shown: SUBSET Button, off: SUBSET Button]

FetchRecord ==
    [kind: {"accept", "stake", "job", "arrive", "start", "complete", "panic"},
     ride: Ride, ok: BOOLEAN]

NewsRecord == [what: {"request", "cancelled", "panic"}, ride: Ride]

DriverTypeOK ==
    /\ deal \in [Ride -> {"waiting", "accepted", "staked", "closed", "other"}]
    /\ driver \in DriverRecord
    /\ BagToSet(fetches) \subseteq FetchRecord
    /\ news \in Seq(NewsRecord)

\* As the sessions are held, that of r is this driver's, or was.
Mine(held, r) == held[r] \in {"accepted", "staked", "closed"}

\* An answer that puts its ride on the page is of a ride this driver took.
Brings(c) == (c.kind = "accept" /\ c.ok) \/ c.kind \in {"job", "start"}

DriverInv ==
    /\ DriverTypeOK
    /\ driver.ride # NoRide => Mine(deal, driver.ride)
    /\ \A c \in BagToSet(fetches) : Brings(c) => Mine(deal, c.ride)

--------------------------------------------------------------------------------
(* Bags and panels.                                                            *)

LEMMA OneMore ==
    ASSUME NEW B, NEW kind, NEW r, NEW ok
    PROVE  BagToSet(B (+) Reply(kind, r, ok))
             = BagToSet(B) \cup {[kind |-> kind, ride |-> r, ok |-> ok]}
BY DEF BagToSet, SetToBag, Reply, (+)

LEMMA OneLess ==
    ASSUME NEW B, NEW c
    PROVE  BagToSet(B (-) SetToBag({c})) \subseteq BagToSet(B)
BY DEF BagToSet, SetToBag, (-)

LEMMA Panels ==
    ASSUME NEW d \in DriverRecord, NEW b \in Button
    PROVE  /\ Show(d, b) \in DriverRecord /\ Show(d, b).ride = d.ride
           /\ Hide(d, b) \in DriverRecord /\ Hide(d, b).ride = d.ride
           /\ Enable(d, b) \in DriverRecord /\ Enable(d, b).ride = d.ride
           /\ Disable(d, b) \in DriverRecord /\ Disable(d, b).ride = d.ride
BY DEF DriverRecord, Show, Hide, Enable, Disable

LEMMA Controls ==
    ASSUME NEW d \in DriverRecord
    PROVE  HideControls(d) \in DriverRecord /\ HideControls(d).ride = d.ride
BY Panels DEF HideControls, Button

LEMMA ClearedOnly ==
    ASSUME NEW d \in DriverRecord
    PROVE  Cleared(d) \in DriverRecord /\ Cleared(d).ride = d.ride
<1> DEFINE e == Hide(HideControls(Hide(d, "complete")), "stake")
<1>1. e \in DriverRecord /\ e.ride = d.ride
  BY Panels, Controls DEF Button
<1>2. Cleared(d) = [e EXCEPT !.timer = FALSE, !.moving = "no", !.arrival = FALSE,
                             !.start = FALSE, !.awaiting = FALSE]
  BY DEF Cleared
<1> HIDE DEF e
<1> QED
  BY <1>1, <1>2 DEF DriverRecord

LEMMA AlarmedOnly ==
    ASSUME NEW d \in DriverRecord
    PROVE  Alarmed(d) \in DriverRecord /\ Alarmed(d).ride = d.ride
<1> DEFINE e == HideControls(d)
<1>1. e \in DriverRecord /\ e.ride = d.ride
  BY Controls
<1>2. Alarmed(d) = [e EXCEPT !.moving = "no", !.halted = TRUE, !.arrival = FALSE,
                             !.start = FALSE]
  BY DEF Alarmed
<1> HIDE DEF e
<1> QED
  BY <1>1, <1>2 DEF DriverRecord

\* The page keeps its ride, comes to show the answer's, or none.
LEMMA AnswerKeeps ==
    ASSUME NEW d \in DriverRecord, NEW c \in FetchRecord
    PROVE  /\ DriverAnswered(d, c) \in DriverRecord
           /\ DriverAnswered(d, c).ride \in
                 {d.ride, NoRide} \cup (IF Brings(c) THEN {c.ride} ELSE {})
<1> DEFINE e == DriverAnswered(d, c)
<1> USE DEF Brings
<1>0. /\ c.kind \in {"accept", "stake", "job", "arrive", "start", "complete", "panic"}
      /\ c.ride \in Ride /\ c.ok \in BOOLEAN
  BY DEF FetchRecord
<1>1. CASE c.kind = "accept"
  <2>1. CASE c.ok
    <3> DEFINE f == Show(d, "stake")
               room == IF d.socket THEN c.ride ELSE f.room
    <3>1. f \in DriverRecord
      BY Panels DEF Button
    <3>2. room \in Ride \cup {NoRide}
      BY <1>0, <3>1 DEF DriverRecord
    <3>3. e = [f EXCEPT !.last = NoRide, !.ride = c.ride, !.due = TRUE,
                        !.halted = FALSE, !.room = room]
      BY <1>1, <2>1 DEF DriverAnswered, Accepted
    <3> HIDE DEF f, e, room
    <3>4. e \in DriverRecord /\ e.ride = c.ride
      BY <1>0, <3>1, <3>2, <3>3 DEF DriverRecord
    <3> QED
      BY <1>1, <2>1, <3>4 DEF e
  <2>2. CASE ~c.ok
    <3>1. e = [d EXCEPT !.ride = NoRide, !.due = FALSE]
      BY <1>1, <2>2 DEF DriverAnswered, Accepted
    <3> HIDE DEF e
    <3>2. e \in DriverRecord /\ e.ride = NoRide
      BY <3>1 DEF DriverRecord
    <3> QED
      BY <3>2 DEF e
  <2> QED
    BY <2>1, <2>2
<1>2. CASE c.kind = "stake" \/ (c.kind = "job" /\ ~c.ok)
  <2>1. e = Enable(d, "stake")
    BY <1>2 DEF DriverAnswered
  <2> QED
    BY <2>1, Panels DEF Button
<1>3. CASE c.kind = "job" /\ c.ok
  <2> DEFINE f == Hide(HideControls(Hide(d, "complete")), "stake")
  <2>1. f \in DriverRecord
    BY Panels, Controls DEF Button
  <2>2. e = [f EXCEPT !.ride = c.ride, !.due = FALSE, !.timer = FALSE, !.arrival = FALSE,
                      !.start = FALSE, !.halted = FALSE, !.moving = "pickup"]
    BY <1>3 DEF DriverAnswered, SetOut
  <2> HIDE DEF f, e
  <2>3. e \in DriverRecord /\ e.ride = c.ride
    BY <1>0, <2>1, <2>2 DEF DriverRecord
  <2> QED
    BY <1>3, <2>3 DEF e
<1>4. CASE c.kind = "arrive"
  <2>1. CASE c.ok
    <3> DEFINE f == Show(Hide(d, "arrived"), "start")
    <3>1. f \in DriverRecord /\ f.ride = d.ride
      BY Panels DEF Button
    <3>2. e = [f EXCEPT !.arrival = FALSE, !.start = TRUE]
      BY <1>4, <2>1 DEF DriverAnswered, Arrived
    <3> HIDE DEF f, e
    <3>3. e \in DriverRecord /\ e.ride = d.ride
      BY <3>1, <3>2 DEF DriverRecord
    <3> QED
      BY <3>3 DEF e
  <2>2. CASE ~c.ok
    BY <1>4, <2>2, Panels DEF DriverAnswered, Arrived, Button
  <2> QED
    BY <2>1, <2>2
<1>5. CASE c.kind = "start"
  <2>1. CASE c.ok
    <3> DEFINE f == HideControls(d)
    <3>1. f \in DriverRecord
      BY Controls
    <3>2. e = [f EXCEPT !.start = FALSE, !.ride = c.ride, !.halted = FALSE,
                        !.moving = "dropoff"]
      BY <1>5, <2>1 DEF DriverAnswered, Started
    <3> HIDE DEF f, e
    <3>3. e \in DriverRecord /\ e.ride = c.ride
      BY <1>0, <3>1, <3>2 DEF DriverRecord
    <3> QED
      BY <1>5, <3>3 DEF e
  <2>2. CASE ~c.ok
    BY <1>5, <2>2, Panels DEF DriverAnswered, Started, Button
  <2> QED
    BY <2>1, <2>2
<1>6. CASE c.kind = "complete"
  <2> DEFINE f == Cleared(d)
  <2>1. f \in DriverRecord
    BY ClearedOnly
  <2>2. e = [f EXCEPT !.last = c.ride, !.ride = NoRide]
    BY <1>6 DEF DriverAnswered, Finished
  <2> HIDE DEF f, e
  <2>3. e \in DriverRecord /\ e.ride = NoRide
    BY <1>0, <2>1, <2>2 DEF DriverRecord
  <2> QED
    BY <2>3 DEF e
<1>7. CASE c.kind = "panic"
  BY <1>7, AlarmedOnly DEF DriverAnswered
<1> QED
  BY <1>0, <1>1, <1>2, <1>3, <1>4, <1>5, <1>6, <1>7

LEMMA HeardKeeps ==
    ASSUME NEW d \in DriverRecord, NEW n \in NewsRecord
    PROVE  Told(d, n) \in DriverRecord /\ Told(d, n).ride \in {d.ride, NoRide}
<1> DEFINE e == Told(d, n)
<1>0. n.what \in {"request", "cancelled", "panic"} /\ n.ride \in Ride
  BY DEF NewsRecord
<1>1. CASE n.what = "request"
  <2>1. e = d \/ e = [d EXCEPT !.pending = @ \cup {n.ride}]
    BY <1>1 DEF Told
  <2> HIDE DEF e
  <2>2. e \in DriverRecord /\ e.ride = d.ride
    BY <1>0, <2>1 DEF DriverRecord
  <2> QED
    BY <2>2 DEF e
<1>2. CASE n.what = "cancelled"
  <2> DEFINE f == Cleared(d)
  <2>1. f \in DriverRecord
    BY ClearedOnly
  <2>2. e = [f EXCEPT !.ride = NoRide] \/ e = [d EXCEPT !.pending = @ \ {n.ride}]
    BY <1>2 DEF Told, CancelHeard
  <2> HIDE DEF e, f
  <2>3. e \in DriverRecord /\ e.ride \in {d.ride, NoRide}
    BY <2>1, <2>2 DEF DriverRecord
  <2> QED
    BY <2>3 DEF e
<1>3. CASE n.what = "panic"
  BY <1>3, AlarmedOnly DEF Told
<1> QED
  BY <1>0, <1>1, <1>2, <1>3

--------------------------------------------------------------------------------
(* The steps.                                                                  *)

\* A session this driver holds or held stays one, whatever the others do.
LEMMA DriverKeeps ==
    ASSUME DriverInv,
           deal' \in [Ride -> {"waiting", "accepted", "staked", "closed", "other"}],
           driver' \in DriverRecord,
           news' \in Seq(NewsRecord),
           \A r \in Ride : Mine(deal, r) => Mine(deal', r),
           driver'.ride # NoRide => Mine(deal', driver'.ride),
           \A c \in BagToSet(fetches') :
             c \in BagToSet(fetches) \/ (c \in FetchRecord /\ (Brings(c) => Mine(deal', c.ride)))
    PROVE  DriverInv'
<1>1. DriverTypeOK'
  BY DEF DriverInv, DriverTypeOK
<1>2. ASSUME NEW c \in BagToSet(fetches'), Brings(c)
      PROVE  Mine(deal', c.ride)
  <2>1. CASE c \in BagToSet(fetches)
    <3>1. c.ride \in Ride /\ Mine(deal, c.ride)
      BY <1>2, <2>1 DEF DriverInv, DriverTypeOK, FetchRecord
    <3> QED
      BY <3>1
  <2>2. CASE c \notin BagToSet(fetches)
    BY <1>2, <2>2
  <2> QED
    BY <2>1, <2>2
<1> QED
  BY <1>1, <1>2 DEF DriverInv, Mine, Brings

\* Steps of the page that send nothing: what they do to it.
LEMMA PageKeeps ==
    ASSUME DriverInv, UNCHANGED deal, driver' \in DriverRecord,
           driver'.ride \in {driver.ride, NoRide},
           news' \in Seq(NewsRecord),
           BagToSet(fetches') \subseteq BagToSet(fetches)
    PROVE  DriverInv'
<1>1. deal' \in [Ride -> {"waiting", "accepted", "staked", "closed", "other"}]
  BY DEF DriverInv, DriverTypeOK
<1>2. \A r : Mine(deal', r) = Mine(deal, r)
  BY DEF Mine
<1>3. driver'.ride # NoRide => Mine(deal', driver'.ride)
  BY <1>2 DEF DriverInv
<1>4. \A c \in BagToSet(fetches') : c \in BagToSet(fetches)
  OBVIOUS
<1> QED
  BY <1>1, <1>2, <1>3, <1>4, DriverKeeps

\* Steps that send a fetch which brings nothing new.
LEMMA FetchKeeps ==
    ASSUME DriverInv, UNCHANGED <<deal, news>>, driver' \in DriverRecord,
           driver'.ride \in {driver.ride, NoRide},
           NEW kind \in {"arrive", "start", "complete", "panic"},
           NEW r \in Ride, NEW ok \in BOOLEAN,
           kind = "start" => r = driver.ride,
           Fetch(kind, r, ok)
    PROVE  DriverInv'
<1> DEFINE sent == [kind |-> kind, ride |-> r, ok |-> ok]
<1>1. BagToSet(fetches') = BagToSet(fetches) \cup {sent}
  BY OneMore DEF Fetch
<1>2. sent \in FetchRecord /\ (Brings(sent) => kind = "start") /\ sent.ride = r
  BY DEF FetchRecord, Brings
<1> HIDE DEF sent
<1>3. deal' \in [Ride -> {"waiting", "accepted", "staked", "closed", "other"}]
      /\ news' \in Seq(NewsRecord)
  BY DEF DriverInv, DriverTypeOK
<1>4. \A s : Mine(deal', s) = Mine(deal, s)
  BY DEF Mine
<1>5. driver'.ride # NoRide => Mine(deal', driver'.ride)
  BY <1>4 DEF DriverInv
<1>6. Brings(sent) => Mine(deal', sent.ride)
  <2>1. r # NoRide
    BY LegacyPagesAssumption
  <2> QED
    BY <1>2, <1>4, <2>1 DEF DriverInv
<1> QED
  BY <1>1, <1>2, <1>3, <1>4, <1>5, <1>6, DriverKeeps

LEMMA AcceptRideKeeps ==
    ASSUME DriverInv, NEW r \in Ride, AcceptRide(r)
    PROVE  DriverInv'
<1> DEFINE sent == [kind |-> "accept", ride |-> r, ok |-> deal[r] = "waiting"]
<1>1. BagToSet(fetches') = BagToSet(fetches) \cup {sent}
  BY OneMore DEF AcceptRide, Fetch
<1>2. sent \in FetchRecord /\ (Brings(sent) => deal[r] = "waiting") /\ sent.ride = r
  BY DEF FetchRecord, Brings
<1> HIDE DEF sent
<1>3. deal' = [deal EXCEPT ![r] = IF @ = "waiting" THEN "accepted" ELSE @]
  BY DEF AcceptRide
<1>4. deal' \in [Ride -> {"waiting", "accepted", "staked", "closed", "other"}]
  BY <1>3 DEF DriverInv, DriverTypeOK
<1>5. (\A s \in Ride : Mine(deal, s) => Mine(deal', s)) /\ (deal[r] = "waiting" => Mine(deal', r))
  BY <1>3 DEF DriverInv, DriverTypeOK, Mine
<1>6. driver' \in DriverRecord /\ driver'.ride = NoRide
  BY DEF AcceptRide, DriverInv, DriverTypeOK, DriverRecord
<1>7. news' \in Seq(NewsRecord)
  BY DEF AcceptRide, DriverInv, DriverTypeOK
<1> QED
  BY <1>1, <1>2, <1>4, <1>5, <1>6, <1>7, DriverKeeps

LEMMA ConfirmStakeKeeps ==
    ASSUME DriverInv, ConfirmStake
    PROVE  DriverInv'
<1> DEFINE r == driver.ride
           sent == [kind |-> "stake", ride |-> r, ok |-> deal[r] = "accepted"]
<1>0. r \in Ride
  BY DEF ConfirmStake, DriverInv, DriverTypeOK, DriverRecord
<1>1. BagToSet(fetches') = BagToSet(fetches) \cup {sent}
  BY OneMore DEF ConfirmStake, Fetch
<1>2. sent \in FetchRecord /\ ~Brings(sent)
  BY <1>0 DEF FetchRecord, Brings
<1> HIDE DEF sent
<1>3. deal' = [deal EXCEPT ![r] = IF @ = "accepted" THEN "staked" ELSE @]
  BY DEF ConfirmStake
<1>4. deal' \in [Ride -> {"waiting", "accepted", "staked", "closed", "other"}]
  BY <1>3 DEF DriverInv, DriverTypeOK
<1>5. \A s \in Ride : Mine(deal, s) => Mine(deal', s)
  BY <1>3 DEF DriverInv, DriverTypeOK, Mine
<1>6. driver' \in DriverRecord /\ driver'.ride = r
  BY Panels DEF ConfirmStake, DriverInv, DriverTypeOK, Button
<1>7. news' \in Seq(NewsRecord)
  BY DEF ConfirmStake, DriverInv, DriverTypeOK
<1>8. Mine(deal', r)
  BY <1>0, <1>5, LegacyPagesAssumption DEF DriverInv
<1> HIDE DEF r
<1>9. driver'.ride # NoRide => Mine(deal', driver'.ride)
  BY <1>6, <1>8 DEF Mine
<1> QED
  BY <1>1, <1>2, <1>4, <1>5, <1>6, <1>7, <1>9, DriverKeeps

LEMMA OthersKeep ==
    ASSUME DriverInv, NEW r \in Ride, OtherTakes(r) \/ RiderCancels(r)
    PROVE  DriverInv'
<1>1. UNCHANGED <<driver, fetches>>
  BY DEF OtherTakes, RiderCancels
<1>2. deal' \in [Ride -> {"waiting", "accepted", "staked", "closed", "other"}]
      /\ \A s \in Ride : Mine(deal, s) => Mine(deal', s)
  BY DEF OtherTakes, RiderCancels, DriverInv, DriverTypeOK, Mine
<1>3. news' = news \/ news' = Append(news, [what |-> "cancelled", ride |-> r])
  BY DEF OtherTakes, RiderCancels, ToRoom, News
<1>4. news' \in Seq(NewsRecord)
  <2>1. [what |-> "cancelled", ride |-> r] \in NewsRecord
    BY DEF NewsRecord
  <2> QED
    BY <1>3, <2>1, AppendProperties DEF DriverInv, DriverTypeOK
<1>5. driver'.ride # NoRide => Mine(deal', driver'.ride)
  <2>1. driver.ride \in Ride \cup {NoRide}
    BY DEF DriverInv, DriverTypeOK, DriverRecord
  <2> QED
    BY <1>1, <1>2, <2>1 DEF DriverInv, Mine
<1> QED
  BY <1>1, <1>2, <1>4, <1>5, DriverKeeps DEF DriverInv, DriverTypeOK

LEMMA NewsKeep ==
    ASSUME DriverInv, NEW r \in Ride, Offers(r) \/ RiderAlarms(r)
    PROVE  DriverInv'
<1>1. UNCHANGED <<deal, driver, fetches>>
  BY DEF Offers, RiderAlarms
<1>2. news' \in Seq(NewsRecord)
  <2>1. PICK what \in {"request", "panic"} :
            news' = news \/ news' = Append(news, [what |-> what, ride |-> r])
    BY DEF Offers, RiderAlarms, ToRoom, News
  <2>2. [what |-> what, ride |-> r] \in NewsRecord
    BY DEF NewsRecord
  <2> QED
    BY <2>1, <2>2, AppendProperties DEF DriverInv, DriverTypeOK
<1> QED
  BY <1>1, <1>2, PageKeeps DEF DriverInv, DriverTypeOK

LEMMA TripKeeps ==
    ASSUME DriverInv, MarkArrived \/ StartTrip \/ CompleteRide \/ CompletionDue \/ Alert
    PROVE  DriverInv'
<1>0. driver \in DriverRecord /\ driver.ride \in Ride \cup {NoRide}
      /\ driver.last \in Ride \cup {NoRide} /\ news \in Seq(NewsRecord)
  BY DEF DriverInv, DriverTypeOK, DriverRecord
<1>1. CASE MarkArrived
  <2>1. driver' \in DriverRecord /\ driver'.ride = driver.ride
    BY <1>0, <1>1, Panels DEF MarkArrived, Button
  <2> QED
    BY <1>0, <1>1, <2>1, FetchKeeps DEF MarkArrived
<1>2. CASE StartTrip
  <2>1. driver' \in DriverRecord /\ driver'.ride = driver.ride
    BY <1>0, <1>2, Panels DEF StartTrip, Button
  <2> QED
    BY <1>0, <1>2, <2>1, FetchKeeps DEF StartTrip
<1>3. CASE CompleteRide \/ CompletionDue
  <2> DEFINE r == IF driver.ride # NoRide THEN driver.ride ELSE driver.last
  <2>1. driver' = [driver EXCEPT !.timer = FALSE] /\ UNCHANGED <<deal, news>>
        /\ IF r = NoRide THEN UNCHANGED fetches ELSE Fetch("complete", r, TRUE)
    BY <1>3 DEF CompleteRide, CompletionDue, Finishes
  <2>2. driver' \in DriverRecord /\ driver'.ride = driver.ride
    BY <1>0, <2>1 DEF DriverRecord
  <2>3. r \in Ride \cup {NoRide}
    BY <1>0
  <2> HIDE DEF r
  <2>4. CASE r = NoRide
    BY <1>0, <2>1, <2>2, <2>4, PageKeeps
  <2>5. CASE r # NoRide
    BY <1>0, <2>1, <2>2, <2>3, <2>5, FetchKeeps
  <2> QED
    BY <2>4, <2>5
<1>4. CASE Alert
  BY <1>0, <1>4, FetchKeeps DEF Alert
<1> QED
  BY <1>1, <1>2, <1>3, <1>4

LEMMA FetchEndsKeeps ==
    ASSUME DriverInv, FetchEnds
    PROVE  DriverInv'
<1>1. PICK c \in BagToSet(fetches) : StakedThenAccepts(c) \/ DriverReturns(c)
  BY DEF FetchEnds
<1>2. UNCHANGED <<deal, news>>
  BY DEF FetchEnds
<1>3. c \in FetchRecord /\ driver \in DriverRecord /\ news \in Seq(NewsRecord)
      /\ deal \in [Ride -> {"waiting", "accepted", "staked", "closed", "other"}]
  BY DEF DriverInv, DriverTypeOK
<1>4. \A s : Mine(deal', s) = Mine(deal, s)
  BY <1>2 DEF Mine
<1>5. BagToSet(fetches (-) SetToBag({c})) \subseteq BagToSet(fetches)
  BY OneLess
<1>6. CASE StakedThenAccepts(c)
  <2> DEFINE r == driver.ride
             sent == [kind |-> "job", ride |-> r, ok |-> job[r] = "requested"]
  <2>1. r \in Ride /\ driver' = driver
        /\ fetches' = (fetches (-) SetToBag({c})) (+) Reply("job", r, job[r] = "requested")
    BY <1>3, <1>6 DEF StakedThenAccepts, DriverRecord
  <2>2. BagToSet(fetches') \subseteq BagToSet(fetches) \cup {sent}
    BY <1>5, <2>1, OneMore
  <2>3. sent \in FetchRecord /\ sent.ride = r
    BY <2>1 DEF FetchRecord
  <2>4. Mine(deal, r)
    BY <1>6 DEF StakedThenAccepts, DriverInv
  <2>5. driver'.ride # NoRide => Mine(deal', driver'.ride)
    BY <1>4, <2>1, <2>4
  <2> HIDE DEF r, sent
  <2>6. Brings(sent) => Mine(deal', sent.ride)
    BY <1>4, <2>3, <2>4
  <2> QED
    BY <1>2, <1>3, <1>4, <2>1, <2>2, <2>3, <2>5, <2>6, DriverKeeps
<1>7. CASE DriverReturns(c)
  <2>1. driver' = DriverAnswered(driver, c) /\ fetches' = fetches (-) SetToBag({c})
    BY <1>7 DEF DriverReturns
  <2>2. /\ driver' \in DriverRecord
        /\ driver'.ride \in {driver.ride, NoRide} \cup (IF Brings(c) THEN {c.ride} ELSE {})
    BY <1>3, <2>1, AnswerKeeps
  <2>3. driver'.ride # NoRide => Mine(deal', driver'.ride)
    BY <1>1, <1>4, <2>2 DEF DriverInv
  <2> QED
    BY <1>2, <1>3, <1>4, <1>5, <2>1, <2>2, <2>3, DriverKeeps
<1> QED
  BY <1>1, <1>6, <1>7

LEMMA FetchFailsKeeps ==
    ASSUME DriverInv, FetchFails
    PROVE  DriverInv'
<1>1. PICK c \in BagToSet(fetches) :
        c.ok /\ fetches' = (fetches (-) SetToBag({c})) (+) Reply(c.kind, c.ride, FALSE)
  BY DEF FetchFails
<1> DEFINE sent == [kind |-> c.kind, ride |-> c.ride, ok |-> FALSE]
<1>2. UNCHANGED <<deal, driver, news>>
  BY DEF FetchFails
<1>3. c \in FetchRecord /\ driver \in DriverRecord /\ news \in Seq(NewsRecord)
      /\ deal \in [Ride -> {"waiting", "accepted", "staked", "closed", "other"}]
  BY DEF DriverInv, DriverTypeOK
<1>4. BagToSet(fetches') \subseteq BagToSet(fetches) \cup {sent}
  <2> DEFINE left == fetches (-) SetToBag({c})
  <2>1. BagToSet(left) \subseteq BagToSet(fetches)
    BY OneLess
  <2>2. fetches' = left (+) Reply(c.kind, c.ride, FALSE)
    BY <1>1
  <2> HIDE DEF left
  <2>3. BagToSet(left (+) Reply(c.kind, c.ride, FALSE)) = BagToSet(left) \cup {sent}
    BY DEF BagToSet, SetToBag, Reply, (+)
  <2> QED
    BY <2>1, <2>2, <2>3
<1>5. sent \in FetchRecord /\ sent.ride = c.ride /\ (Brings(sent) => Brings(c))
  BY <1>3 DEF FetchRecord, Brings
<1> HIDE DEF sent
<1>6. \A s : Mine(deal', s) = Mine(deal, s)
  BY <1>2 DEF Mine
<1>7. Brings(sent) => Mine(deal', sent.ride)
  BY <1>1, <1>5, <1>6 DEF DriverInv
<1>8. driver'.ride # NoRide => Mine(deal', driver'.ride)
  BY <1>2, <1>6 DEF DriverInv
<1> QED
  BY <1>2, <1>3, <1>4, <1>5, <1>6, <1>7, <1>8, DriverKeeps

\* Taps, frames and timers that touch the page alone.
LEMMA PageStepKeeps ==
    ASSUME DriverInv,
           \/ \E r \in Ride : Decline(r)
           \/ RouteEnds \/ GoOnline \/ GoOffline \/ DriverSocketLost \/ Reconnects \/ Hears
    PROVE  DriverInv'
<1>0. driver \in DriverRecord /\ news \in Seq(NewsRecord)
  BY DEF DriverInv, DriverTypeOK
<1>1. UNCHANGED <<deal, fetches>>
  BY DEF Decline, RouteEnds, GoOnline, GoOffline, DriverSocketLost, Reconnects, Hears
<1>2. <<>> \in Seq(NewsRecord)
  BY EmptySeq
<1>3. ASSUME driver' \in DriverRecord, driver'.ride \in {driver.ride, NoRide},
             news' \in Seq(NewsRecord)
      PROVE  DriverInv'
  BY <1>1, <1>3, PageKeeps
<1>4. CASE \E r \in Ride : Decline(r)
  BY <1>0, <1>3, <1>4 DEF Decline, DriverRecord
<1>5. CASE RouteEnds
  <2> DEFINE f == Show(Hide(driver, "start"), "arrived")
             g == Show(driver, "complete")
  <2>1. f \in DriverRecord /\ f.ride = driver.ride /\ g \in DriverRecord /\ g.ride = driver.ride
    BY <1>0, Panels DEF Button
  <2>2. \/ driver' = [f EXCEPT !.moving = "no", !.arrival = TRUE]
        \/ driver' = [g EXCEPT !.moving = "no", !.awaiting = TRUE, !.timer = TRUE]
    BY <1>5 DEF RouteEnds, AtPickup, AtDropOff
  <2> HIDE DEF f, g
  <2>3. driver' \in DriverRecord /\ driver'.ride = driver.ride
    BY <2>1, <2>2 DEF DriverRecord
  <2> QED
    BY <1>0, <1>3, <1>5, <2>3 DEF RouteEnds
<1>6. CASE GoOnline \/ Reconnects
  <2>1. driver' \in DriverRecord /\ driver'.ride = driver.ride
    <3>1. \/ driver' = [driver EXCEPT !.online = TRUE, !.socket = TRUE]
          \/ driver' = [driver EXCEPT !.socket = TRUE]
      BY <1>6 DEF GoOnline, Reconnects
    <3>2. driver \in DriverRecord
      BY <1>0
    <3> QED
      BY ONLY <3>1, <3>2 DEF DriverRecord
  <2>2. news' \in Seq(NewsRecord)
    BY <1>0, <1>2, <1>6 DEF GoOnline, Reconnects
  <2> QED
    BY <1>3, <2>1, <2>2
<1>7. CASE GoOffline
  <2> DEFINE f == Cleared(driver)
  <2>1. f \in DriverRecord /\ f.ride = driver.ride
    BY <1>0, ClearedOnly
  <2>2. driver' = [f EXCEPT !.online = FALSE, !.socket = FALSE, !.room = NoRide,
                            !.pending = {}, !.due = FALSE]
    BY <1>7 DEF GoOffline
  <2> HIDE DEF f
  <2>3. driver' \in DriverRecord /\ driver'.ride = driver.ride
    BY <2>1, <2>2 DEF DriverRecord
  <2> QED
    BY <1>2, <1>3, <1>7, <2>3 DEF GoOffline
<1>8. CASE DriverSocketLost
  BY <1>0, <1>2, <1>3, <1>8 DEF DriverSocketLost, DriverRecord
<1>9. CASE Hears
  <2>1. Head(news) \in NewsRecord /\ Tail(news) \in Seq(NewsRecord)
    BY <1>0, <1>9, HeadTailProperties DEF Hears
  <2> QED
    BY <1>0, <1>3, <1>9, <2>1, HeardKeeps DEF Hears
<1> QED
  BY <1>4, <1>5, <1>6, <1>7, <1>8, <1>9

--------------------------------------------------------------------------------
(* What holds of every behaviour of the page.                                  *)

LEMMA DriverInitInv == DriverInit => DriverInv
<1> SUFFICES ASSUME DriverInit
             PROVE  DriverInv
  OBVIOUS
<1>1. BagToSet(fetches) = {}
  BY DEF DriverInit, EmptyBag, SetToBag, BagToSet
<1>2. driver \in DriverRecord /\ driver.ride = NoRide
  BY DEF DriverInit, DriverRecord
<1>3. news \in Seq(NewsRecord)
  BY EmptySeq DEF DriverInit
<1> QED
  BY <1>1, <1>2, <1>3 DEF DriverInit, DriverInv, DriverTypeOK

LEMMA DriverNextInv == DriverInv /\ [DriverNext]_driverVars => DriverInv'
<1> SUFFICES ASSUME DriverInv, [DriverNext]_driverVars
             PROVE  DriverInv'
  OBVIOUS
<1>1. CASE \E r \in Ride : AcceptRide(r)
  BY <1>1, AcceptRideKeeps
<1>2. CASE \E r \in Ride : Offers(r) \/ RiderAlarms(r)
  BY <1>2, NewsKeep
<1>3. CASE \E r \in Ride : OtherTakes(r) \/ RiderCancels(r)
  BY <1>3, OthersKeep
<1>4. CASE ConfirmStake
  BY <1>4, ConfirmStakeKeeps
<1>5. CASE MarkArrived \/ StartTrip \/ CompleteRide \/ CompletionDue \/ Alert
  BY <1>5, TripKeeps
<1>6. CASE FetchEnds
  BY <1>6, FetchEndsKeeps
<1>7. CASE FetchFails
  BY <1>7, FetchFailsKeeps
<1>8. CASE \/ \E r \in Ride : Decline(r)
           \/ RouteEnds \/ GoOnline \/ GoOffline \/ DriverSocketLost \/ Reconnects \/ Hears
  BY <1>8, PageStepKeeps
<1>9. CASE UNCHANGED driverVars
  BY <1>9, PageKeeps DEF driverVars, DriverInv, DriverTypeOK
<1> QED
  BY <1>1, <1>2, <1>3, <1>4, <1>5, <1>6, <1>7, <1>8, <1>9 DEF DriverNext

\* Whichever accepts are under way and in whatever order they are answered, the
\* stand-alone page asks for a stake, and pays one, only of a ride whose session this
\* driver holds or held (StakesOwnRide), for any rides and fetches under way.
THEOREM StakesOwn == DriverSpec => []StakesOwnRide
<1>1. DriverInv => StakesOwnRide
  BY DEF DriverInv, StakesOwnRide, Mine
<1>2. DriverSpec => []DriverInv
  BY DriverInitInv, DriverNextInv, PTL DEF DriverSpec
<1> QED
  BY <1>1, <1>2, PTL

--------------------------------------------------------------------------------
(* The watch the rider's page keeps.                                           *)

RideState == {"none", "completed", "cancelled"} \cup Under

PageRecord ==
    [ ride : Ride \cup {NoRide},
      stage : {"none", "waiting_rider_payment", "searching"} \cup Under,
      stored : Ride \cup {NoRide}, told : {"nothing", "matched", "started", "over"},
      buttons : SUBSET {"request", "stake", "cancel"},
      socket : {"none", "connecting", "open"}, closing : BOOLEAN,
      mode : {"idle", "standby", "active"}, check : BOOLEAN, reply : BOOLEAN,
      alarm : BOOLEAN ]

CallRecord ==
    [ kind : {"session", "stake", "submit", "cancel", "check", "restore", "panic"},
      ride : Ride \cup {NoRide}, ok : BOOLEAN, saw : RideState ]

\* Watched, of a page and whether a check-in is being recorded: and the page is
\* watching only during a trip.
Watches(p, checking) ==
    /\ p.told = "started" =>
         \/ p.alarm
         \/ p.mode = "active" /\ (p.check \/ p.reply \/ checking)
    /\ p.told # "started" => ~p.check /\ ~p.reply /\ p.mode # "active"

RiderInv ==
    /\ trip \in [Ride -> RideState]
    /\ page \in PageRecord
    /\ calls \subseteq CallRecord
    /\ Watches(page, Calling("check"))

LEMMA BlankPage ==
    ASSUME NEW r \in Ride \cup {NoRide}
    PROVE  Blank(r) \in PageRecord /\ Watches(Blank(r), FALSE)
BY DEF Blank, PageRecord, Watches

LEMMA ResetPage ==
    ASSUME NEW p \in PageRecord, NEW checking \in BOOLEAN
    PROVE  Reset(p) \in PageRecord /\ Watches(Reset(p), checking)
<1>1. PICK b \in PageRecord : b = Blank(NoRide)
  BY BlankPage
<1>2. b.told = "nothing" /\ ~b.check /\ ~b.reply /\ b.mode = "idle"
  BY <1>1 DEF Blank
<1>3. Reset(p) = [b EXCEPT !.closing = p.closing] /\ p.closing \in BOOLEAN
  BY <1>1 DEF Reset, PageRecord
<1>4. PICK c \in BOOLEAN : Reset(p) = [b EXCEPT !.closing = c]
  BY <1>3
<1> QED BY <1>2, <1>4 DEF PageRecord, Watches

\* The rider's page stops watching, or begins to.
LEMMA WatchStops ==
    ASSUME NEW p \in PageRecord, NEW told \in {"nothing", "matched", "over"},
           NEW checking \in BOOLEAN
    PROVE  /\ Untimed(p) \in PageRecord
           /\ [Standby(p) EXCEPT !.told = told] \in PageRecord
           /\ Watches([Standby(p) EXCEPT !.told = told], checking)
           /\ [Unwatched(p) EXCEPT !.told = told] \in PageRecord
           /\ Watches([Unwatched(p) EXCEPT !.told = told], checking)
           /\ [Unwatched(p) EXCEPT !.alarm = TRUE] \in PageRecord
           /\ Watches([Unwatched(p) EXCEPT !.alarm = TRUE], checking)
<1>1. PICK u \in PageRecord : u = Untimed(p)
  BY DEF Untimed, PageRecord
<1>2. ~u.check /\ ~u.reply
  BY <1>1 DEF Untimed, PageRecord
<1>3. Standby(p) = [u EXCEPT !.mode = "standby"] /\ Unwatched(p) = [u EXCEPT !.mode = "idle"]
  BY <1>1 DEF Standby, Unwatched
<1>4. PICK s, i \in PageRecord : s = Standby(p) /\ i = Unwatched(p)
  BY <1>3 DEF PageRecord
<1>5. ~s.check /\ ~s.reply /\ s.mode = "standby" /\ ~i.check /\ ~i.reply /\ i.mode = "idle"
  BY <1>2, <1>3, <1>4 DEF PageRecord
<1>6. /\ [s EXCEPT !.told = told] \in PageRecord
      /\ Watches([s EXCEPT !.told = told], checking)
  BY <1>5 DEF PageRecord, Watches
<1>7. /\ [i EXCEPT !.told = told] \in PageRecord
      /\ Watches([i EXCEPT !.told = told], checking)
  BY <1>5 DEF PageRecord, Watches
<1>8. /\ [i EXCEPT !.alarm = TRUE] \in PageRecord
      /\ Watches([i EXCEPT !.alarm = TRUE], checking)
  <2>1. PICK a \in PageRecord : a = [i EXCEPT !.alarm = TRUE]
    BY DEF PageRecord
  <2>2. a.alarm = TRUE /\ a.check = i.check /\ a.reply = i.reply /\ a.mode = i.mode
    BY <2>1 DEF PageRecord
  <2>3. Watches(a, checking)
    BY <1>5, <2>2 DEF Watches
  <2> QED BY <2>1, <2>3
<1> QED BY <1>1, <1>4, <1>6, <1>7, <1>8

LEMMA WatchStarts ==
    ASSUME NEW p \in PageRecord, NEW checking \in BOOLEAN
    PROVE  /\ Monitored([p EXCEPT !.told = "started"]) \in PageRecord
           /\ Watches(Monitored([p EXCEPT !.told = "started"]), checking)
<1>1. PICK q \in PageRecord : q = [[p EXCEPT !.told = "started"] EXCEPT !.mode = "active", !.alarm = FALSE]
  BY DEF PageRecord
<1>2. q.mode = "active" /\ q.told = "started"
  BY <1>1 DEF PageRecord
<1>3. Monitored([p EXCEPT !.told = "started"]) = [q EXCEPT !.check = TRUE]
  BY <1>1, <1>2 DEF Monitored, Scheduled
<1> QED BY <1>2, <1>3 DEF PageRecord, Watches
\* A page that changes in nothing the watch is about.
SameWatch(p, q) ==
    /\ q \in PageRecord
    /\ q.told = p.told /\ q.mode = p.mode /\ q.alarm = p.alarm
    /\ q.check = p.check /\ q.reply = p.reply

LEMMA WatchGoesOn ==
    ASSUME NEW p, NEW q, SameWatch(p, q), NEW checking, Watches(p, checking)
    PROVE  q \in PageRecord /\ Watches(q, checking)
BY DEF SameWatch, Watches

\* What the page does with an answer keeps the watch; of a check-in, it asks again.
LEMMA RestoredWatches ==
    ASSUME NEW p \in PageRecord, NEW c \in CallRecord, NEW checking \in BOOLEAN,
           Watches(p, checking)
    PROVE  Restored(p, c) \in PageRecord /\ Watches(Restored(p, c), checking)
<1>1. CASE ~c.ok \/ c.saw \notin Under
  <2>1. Restored(p, c) = [p EXCEPT !.stored = NoRide]
    BY <1>1 DEF Restored
  <2>2. SameWatch(p, [p EXCEPT !.stored = NoRide])
    BY DEF SameWatch, PageRecord
  <2> QED BY <2>1, <2>2, WatchGoesOn
<1>2. CASE c.ok /\ c.saw \in Under
  <2>1. PICK q \in PageRecord :
          q = Subscribing([p EXCEPT !.ride = c.ride, !.stage = c.saw, !.stored = c.ride,
                                    !.buttons = @ \ {"request"}])
    BY <1>2 DEF Subscribing, PageRecord, CallRecord
  <2>2. SameWatch(p, q)
    BY <2>1 DEF SameWatch, Subscribing, PageRecord
  <2>3. CASE c.saw = "requested"
    <3>1. Restored(p, c) = [q EXCEPT !.buttons = @ \cup {"cancel"}]
      BY <1>2, <2>1, <2>3 DEF Restored
    <3>2. SameWatch(p, [q EXCEPT !.buttons = @ \cup {"cancel"}])
      BY <2>2 DEF SameWatch, PageRecord
    <3> QED BY <3>1, <3>2, WatchGoesOn
  <2>4. CASE c.saw = "active"
    <3>1. Restored(p, c) = Monitored([Standby(q) EXCEPT !.told = "started"])
      BY <1>2, <2>1, <2>4 DEF Restored
    <3>2. Standby(q) \in PageRecord
      BY DEF Standby, Untimed, PageRecord
    <3> QED BY <3>1, <3>2, WatchStarts
  <2>5. CASE c.saw \notin {"requested", "active"}
    <3>1. Restored(p, c) = [Standby(q) EXCEPT !.told = "matched"]
      BY <1>2, <2>1, <2>5 DEF Restored
    <3> QED BY <3>1, WatchStops
  <2> QED BY <2>3, <2>4, <2>5
<1> QED BY <1>1, <1>2

LEMMA AnsweredWatches ==
    ASSUME page \in PageRecord, NEW c \in CallRecord, NEW checking \in BOOLEAN,
           IF c.kind = "check" THEN Watches(page, TRUE) ELSE Watches(page, checking)
    PROVE  RiderAnswered(c) \in PageRecord /\ Watches(RiderAnswered(c), checking)
<1>1. CASE c.kind = "session"
  <2>1. RiderAnswered(c) = Sessioned(page, c) /\ Watches(page, checking)
    BY <1>1 DEF RiderAnswered
  <2>2. SameWatch(page, Sessioned(page, c))
    BY DEF SameWatch, Sessioned, PageRecord, CallRecord
  <2> QED BY <2>1, <2>2, WatchGoesOn
<1>2. CASE c.kind = "stake"
  <2>1. RiderAnswered(c) = [page EXCEPT !.buttons = @ \cup {"stake"}] /\ Watches(page, checking)
    BY <1>2 DEF RiderAnswered
  <2>2. SameWatch(page, [page EXCEPT !.buttons = @ \cup {"stake"}])
    BY DEF SameWatch, PageRecord
  <2> QED BY <2>1, <2>2, WatchGoesOn
<1>3. CASE c.kind = "submit"
  <2>1. RiderAnswered(c) = Submitted(page, c) /\ Watches(page, checking)
    BY <1>3 DEF RiderAnswered
  <2>2. SameWatch(page, Submitted(page, c))
    BY DEF SameWatch, Submitted, Subscribing, PageRecord
  <2> QED BY <2>1, <2>2, WatchGoesOn
<1>4. CASE c.kind = "cancel" /\ c.ok
  <2>1. RiderAnswered(c) = Reset(page)
    BY <1>4 DEF RiderAnswered
  <2> QED BY <2>1, ResetPage
<1>5. CASE c.kind = "cancel" /\ ~c.ok
  <2>1. RiderAnswered(c) = [page EXCEPT !.buttons = @ \cup {"cancel", "stake"}]
        /\ Watches(page, checking)
    BY <1>5 DEF RiderAnswered
  <2>2. SameWatch(page, [page EXCEPT !.buttons = @ \cup {"cancel", "stake"}])
    BY DEF SameWatch, PageRecord
  <2> QED BY <2>1, <2>2, WatchGoesOn
<1>6. CASE c.kind = "check"
  <2>1. RiderAnswered(c) = Scheduled(page) /\ Watches(page, TRUE)
    BY <1>6 DEF RiderAnswered, CheckedIn
  <2>2. CASE page.mode = "active"
    <3>1. Scheduled(page) = [page EXCEPT !.check = TRUE]
      BY <2>2 DEF Scheduled
    <3>2. PICK q \in PageRecord : q = [page EXCEPT !.check = TRUE]
      BY DEF PageRecord
    <3>3. q.check /\ q.mode = "active" /\ q.told = page.told /\ q.told = "started"
      BY <2>1, <2>2, <3>2 DEF PageRecord, Watches
    <3> QED BY <2>1, <3>1, <3>2, <3>3 DEF Watches
  <2>3. CASE page.mode # "active"
    <3>1. Scheduled(page) = page
      BY <2>3 DEF Scheduled
    <3>2. page.told = "started" => page.alarm
      BY <2>1, <2>3 DEF Watches
    <3>3. page.told # "started" => ~page.check /\ ~page.reply /\ page.mode # "active"
      BY <2>1 DEF Watches
    <3>4. Watches(page, checking)
      BY <3>2, <3>3 DEF Watches
    <3> QED BY <2>1, <3>1, <3>4
  <2> QED BY <2>2, <2>3
<1>7. CASE c.kind = "restore"
  <2>1. RiderAnswered(c) = Restored(page, c) /\ Watches(page, checking)
    BY <1>7 DEF RiderAnswered
  <2> QED BY <2>1, RestoredWatches
<1>8. CASE c.kind = "panic"
  <2>1. RiderAnswered(c) = page /\ Watches(page, checking)
    BY <1>8 DEF RiderAnswered
  <2> QED BY <2>1
<1> QED BY <1>1, <1>2, <1>3, <1>4, <1>5, <1>6, <1>7, <1>8 DEF CallRecord

LEMMA HeardWatches ==
    ASSUME NEW p \in PageRecord, NEW what, NEW checking \in BOOLEAN, Watches(p, checking)
    PROVE  Heard(p, what) \in PageRecord /\ Watches(Heard(p, what), checking)
<1>1. CASE what = "matched"
  <2>1. PICK q \in PageRecord : q = [Standby(p) EXCEPT !.told = "matched"] /\ Watches(q, checking)
    BY WatchStops
  <2>2. Heard(p, what) = [q EXCEPT !.buttons = @ \ {"cancel"}]
    BY <1>1, <2>1 DEF Heard
  <2>3. SameWatch(q, [q EXCEPT !.buttons = @ \ {"cancel"}])
    BY DEF SameWatch, PageRecord
  <2> QED BY <2>1, <2>2, <2>3, WatchGoesOn
<1>2. CASE what = "started"
  <2>1. Heard(p, what) = Monitored([p EXCEPT !.told = "started"])
    BY <1>2 DEF Heard
  <2> QED BY <2>1, WatchStarts
<1>3. CASE what \in {"completed", "cancelled"}
  <2>1. PICK q \in PageRecord : q = [Unwatched(p) EXCEPT !.told = "over"] /\ Watches(q, checking)
    BY WatchStops
  <2>2. Concluded(p) = [q EXCEPT !.stored = NoRide]
    BY <2>1 DEF Concluded
  <2>3. /\ SameWatch(q, [q EXCEPT !.stored = NoRide])
        /\ SameWatch(q, [[q EXCEPT !.stored = NoRide] EXCEPT !.closing = TRUE])
    BY DEF SameWatch, PageRecord
  <2>4. Heard(p, what) \in {Concluded(p), [Concluded(p) EXCEPT !.closing = TRUE]}
    BY <1>3 DEF Heard
  <2> QED BY <2>1, <2>2, <2>3, <2>4, WatchGoesOn
<1>4. CASE what = "panic"
  <2>1. Heard(p, what) = [Unwatched(p) EXCEPT !.alarm = TRUE]
    BY <1>4 DEF Heard, Panicked
  <2> QED BY <2>1, WatchStops
<1>5. CASE what \notin {"matched", "started", "completed", "cancelled", "panic"}
  BY <1>5 DEF Heard
<1> QED BY <1>1, <1>2, <1>3, <1>4, <1>5

\* A handler that asks: what it does to the page keeps the watch, and a call is on its
\* way the more.
LEMMA CallTypes ==
    ASSUME trip \in [Ride -> RideState], NEW r \in Ride \cup {NoRide}, NEW ok \in BOOLEAN,
           NEW kind \in {"session", "stake", "submit", "cancel", "check", "panic"}
    PROVE  Answer(kind, r, ok) \in CallRecord /\ Answer(kind, r, ok).kind = kind
BY DEF Answer, CallRecord, RideState

LEMMA CallWatches ==
    ASSUME RiderInv, NEW r \in Ride \cup {NoRide}, NEW ok \in BOOLEAN,
           NEW kind \in {"session", "stake", "submit", "cancel", "check", "panic"},
           Call(kind, r, ok), trip' \in [Ride -> RideState], page' \in PageRecord,
           Watches(page', IF kind = "check" THEN TRUE ELSE Calling("check"))
    PROVE  RiderInv'
<1>1. calls' = calls \cup {Answer(kind, r, ok)}
  BY DEF Call
<1>2. Answer(kind, r, ok) \in CallRecord /\ Answer(kind, r, ok).kind = kind
  BY CallTypes DEF RiderInv
<1>3. (IF kind = "check" THEN TRUE ELSE Calling("check")) => Calling("check")'
  BY <1>1, <1>2 DEF Calling
<1>4. Watches(page', Calling("check")')
  BY <1>3 DEF Watches
<1> QED BY <1>1, <1>2, <1>4 DEF RiderInv

LEMMA PressedWatches ==
    ASSUME RiderInv, NEW kind, Pressed(kind)
    PROVE  page' \in PageRecord /\ Watches(page', Calling("check")) /\ page'.ride = page.ride
<1>1. page' = [page EXCEPT !.buttons = @ \ {kind}]
  BY DEF Pressed
<1>2. SameWatch(page, page') /\ page'.ride = page.ride
  BY <1>1 DEF SameWatch, PageRecord, RiderInv
<1> QED BY <1>2, WatchGoesOn DEF RiderInv

LEMMA RequestRideKeeps ==
    ASSUME RiderInv, NEW r \in Ride, RequestRide(r) PROVE RiderInv'
<1>1. Pressed("request") /\ Call("session", r, TRUE) /\ trip' = trip
  BY DEF RequestRide
<1>2. page' \in PageRecord /\ Watches(page', Calling("check"))
  BY <1>1, PressedWatches
<1> QED BY <1>1, <1>2, CallWatches DEF RiderInv

LEMMA PayStakeKeeps ==
    ASSUME RiderInv, PayStake PROVE RiderInv'
<1>1. /\ Pressed("stake") /\ Call("stake", page.ride, session[page.ride] = "open")
      /\ trip' = trip
  BY DEF PayStake
<1>2. PICK ok \in BOOLEAN : Call("stake", page.ride, ok)
  BY <1>1
<1>3. page' \in PageRecord /\ Watches(page', Calling("check"))
  BY <1>1, PressedWatches
<1>4. page.ride \in Ride \cup {NoRide} /\ trip' \in [Ride -> RideState]
  BY <1>1 DEF RiderInv, PageRecord
<1> QED BY <1>2, <1>3, <1>4, CallWatches

LEMMA CancelRideKeeps ==
    ASSUME RiderInv, CancelRide PROVE RiderInv'
<1>1. /\ page' = [page EXCEPT !.buttons = @ \ {"cancel", "stake"}]
      /\ Call("cancel", page.ride, TRUE)
      /\ \/ trip' = trip
         \/ trip' = [trip EXCEPT ![page.ride] = "cancelled"]
  BY DEF CancelRide
<1>2. SameWatch(page, page')
  BY <1>1 DEF SameWatch, PageRecord, RiderInv
<1>3. page' \in PageRecord /\ Watches(page', Calling("check"))
  BY <1>2, WatchGoesOn DEF RiderInv
<1>4. page.ride \in Ride \cup {NoRide} /\ trip' \in [Ride -> RideState]
  BY <1>1 DEF RiderInv, PageRecord, RideState
<1> QED BY <1>1, <1>3, <1>4, CallWatches

LEMMA CheckInKeeps ==
    ASSUME RiderInv, CheckIn PROVE RiderInv'
<1>1. /\ page' = [page EXCEPT !.reply = FALSE] /\ Call("check", page.ride, TRUE)
      /\ trip' = trip
  BY DEF CheckIn
<1>2. PICK q \in PageRecord : q = page'
  BY <1>1 DEF PageRecord, RiderInv
<1>3. /\ q.told = page.told /\ q.mode = page.mode /\ q.alarm = page.alarm
      /\ q.check = page.check /\ q.reply = FALSE
  BY <1>1, <1>2 DEF PageRecord, RiderInv
<1>4. Watches(q, TRUE)
  BY <1>3 DEF RiderInv, Watches
<1>5. page.ride \in Ride \cup {NoRide} /\ trip' \in [Ride -> RideState]
  BY <1>1 DEF RiderInv, PageRecord
<1> QED BY <1>1, <1>2, <1>4, <1>5, CallWatches

LEMMA PanicsKeep ==
    ASSUME RiderInv, Panics PROVE RiderInv'
<1>1. /\ page' = [Unwatched(page) EXCEPT !.alarm = TRUE] /\ Call("panic", page.ride, TRUE)
      /\ trip' = trip
  BY DEF Panics
<1>2. Calling("check") \in BOOLEAN /\ page \in PageRecord
  BY DEF Calling, RiderInv
<1>3. page' \in PageRecord /\ Watches(page', Calling("check"))
  BY <1>1, <1>2, WatchStops
<1>4. page.ride \in Ride \cup {NoRide} /\ trip' \in [Ride -> RideState]
  BY <1>1 DEF RiderInv, PageRecord
<1> QED BY <1>1, <1>3, <1>4, CallWatches

LEMMA CheckDueKeeps ==
    ASSUME RiderInv, CheckDue PROVE RiderInv'
<1>1. page.check /\ page' = Prompted(page) /\ UNCHANGED <<trip, calls>>
  BY DEF CheckDue
<1>2. page \in PageRecord /\ Watches(page, Calling("check"))
  BY DEF RiderInv
<1>3. page.told = "started"
  BY <1>1, <1>2 DEF Watches
<1>4. PICK q \in PageRecord : q = page'
  BY <1>1, <1>2 DEF Prompted, PageRecord
<1>5. q.told = page.told /\ q.mode = page.mode /\ q.alarm = page.alarm
  BY <1>1, <1>2, <1>4 DEF Prompted, PageRecord
<1>6. page.mode = "active" => q.reply = TRUE
  BY <1>1, <1>2, <1>4 DEF Prompted, PageRecord
<1>7. Watches(q, Calling("check"))
  BY <1>2, <1>3, <1>5, <1>6 DEF Watches
<1>8. Calling("check")' <=> Calling("check")
  BY <1>1 DEF Calling
<1>9. Watches(page', Calling("check")')
  BY <1>4, <1>7, <1>8 DEF Watches
<1> QED BY <1>1, <1>4, <1>9 DEF RiderInv

\* An answer taken: what other calls are on their way stays, and it counts for itself.
LEMMA AnswersKeep ==
    ASSUME RiderInv, Answers PROVE RiderInv'
<1>1. PICK c \in calls : Submits(c) \/ RiderReturns(c)
  BY DEF Answers
<1>2. c \in CallRecord /\ page \in PageRecord /\ trip \in [Ride -> RideState]
  BY DEF RiderInv
<1>3. CASE Submits(c)
  <2>1. /\ c.kind = "stake" /\ page' = page
        /\ calls' = (calls \ {c}) \cup
             IF page.ride = NoRide THEN {}
             ELSE {Answer("submit", page.ride, trip[page.ride] = "none")}
        /\ trip' = [s \in Ride |-> IF s = page.ride /\ trip[s] = "none" THEN "requested"
                                   ELSE trip[s]]
    BY <1>3 DEF Submits
  <2>2. PICK ok \in BOOLEAN : ok = (trip[page.ride] = "none")
    OBVIOUS
  <2>3. page.ride \in Ride \cup {NoRide}
    BY <1>2 DEF PageRecord
  <2>4. Answer("submit", page.ride, ok) \in CallRecord
        /\ Answer("submit", page.ride, ok).kind = "submit"
    BY <1>2, <2>3, CallTypes
  <2>5. calls' \subseteq CallRecord
    BY <2>1, <2>2, <2>4 DEF RiderInv
  <2>6. \A d \in calls : d.kind = "check" => d \in calls'
    BY <2>1
  <2>7. trip' \in [Ride -> RideState]
    BY <1>2, <2>1 DEF RideState, Under
  <2>8. Calling("check") => Calling("check")'
    BY <2>6 DEF Calling
  <2>9. Watches(page', Calling("check")')
    BY <2>1, <2>8 DEF RiderInv, Watches
  <2> QED BY <1>2, <2>1, <2>5, <2>7, <2>9 DEF RiderInv
<1>4. CASE RiderReturns(c)
  <2>1. calls' = calls \ {c} /\ page' = RiderAnswered(c) /\ trip' = trip
    BY <1>4 DEF RiderReturns
  <2>2. IF c.kind = "check" THEN Watches(page, TRUE) ELSE Watches(page, Calling("check")')
    <3>1. CASE c.kind = "check"
      BY <3>1 DEF RiderInv, Watches
    <3>2. CASE c.kind # "check"
      <4>1. Calling("check") => Calling("check")'
        BY <2>1, <3>2 DEF Calling
      <4>2. Watches(page, Calling("check")')
        BY <4>1 DEF RiderInv, Watches
      <4> QED BY <3>2, <4>2
    <3> QED BY <3>1, <3>2
  <2>3. Calling("check")' \in BOOLEAN
    BY DEF Calling
  <2>4. page' \in PageRecord /\ Watches(page', Calling("check")')
    BY <1>2, <2>1, <2>2, <2>3, AnsweredWatches
  <2> QED BY <1>2, <2>1, <2>4 DEF RiderInv
<1> QED BY <1>1, <1>3, <1>4

LEMMA AnswerLostKeeps ==
    ASSUME RiderInv, AnswerLost PROVE RiderInv'
<1>1. PICK c \in calls : calls' = (calls \ {c}) \cup {[c EXCEPT !.ok = FALSE]}
  BY DEF AnswerLost
<1>2. trip' = trip /\ page' = page
  BY DEF AnswerLost
<1>3. c \in CallRecord
  BY DEF RiderInv
<1>4. [c EXCEPT !.ok = FALSE] \in CallRecord /\ [c EXCEPT !.ok = FALSE].kind = c.kind
  BY <1>3 DEF CallRecord
<1>5. Calling("check") => Calling("check")'
  BY <1>1, <1>4 DEF Calling
<1>6. Watches(page', Calling("check")')
  BY <1>2, <1>5 DEF RiderInv, Watches
<1> QED BY <1>1, <1>2, <1>4, <1>6 DEF RiderInv

\* What changes the page alone, or the rides alone.
LEMMA PageMoves ==
    ASSUME RiderInv, trip' = trip, calls' = calls, page' \in PageRecord,
           Watches(page', Calling("check"))
    PROVE  RiderInv'
<1>1. Calling("check") <=> Calling("check")'
  BY DEF Calling
<1>2. Watches(page', Calling("check")')
  BY <1>1 DEF Watches
<1> QED BY <1>2 DEF RiderInv

LEMMA SocketKeeps ==
    ASSUME RiderInv, Connected \/ RiderSocketLost \/ Hear PROVE RiderInv'
<1>1. page \in PageRecord /\ Watches(page, Calling("check")) /\ Calling("check") \in BOOLEAN
  BY DEF RiderInv, Calling
<1>2. CASE Connected \/ RiderSocketLost
  <2>1. trip' = trip /\ calls' = calls /\ SameWatch(page, page')
    BY <1>1, <1>2 DEF Connected, RiderSocketLost, SameWatch, PageRecord
  <2> QED BY <1>1, <2>1, WatchGoesOn, PageMoves
<1>3. CASE Hear
  <2>1. trip' = trip /\ calls' = calls /\ page' = Heard(page, Head(frames))
    BY <1>3 DEF Hear
  <2>2. PICK what : what = Head(frames)
    OBVIOUS
  <2>3. Heard(page, what) \in PageRecord /\ Watches(Heard(page, what), Calling("check"))
    BY <1>1, HeardWatches
  <2> QED BY <2>1, <2>2, <2>3, PageMoves
<1> QED BY <1>2, <1>3

LEMMA PageEnds ==
    ASSUME RiderInv, ResetDue \/ CloseReceipt \/ Reload PROVE RiderInv'
<1>1. page \in PageRecord /\ Calling("check") \in BOOLEAN /\ page.stored \in Ride \cup {NoRide}
  BY DEF RiderInv, Calling, PageRecord
<1>2. \A r \in Ride \cup {NoRide}, checking \in BOOLEAN :
        Blank(r) \in PageRecord /\ Watches(Blank(r), checking)
  BY BlankPage DEF Watches, Blank
<1>3. CASE ResetDue
  <2>1. trip' = trip /\ calls' = calls /\ page' = Blank(NoRide)
    BY <1>3 DEF ResetDue
  <2> QED BY <1>1, <1>2, <2>1, PageMoves
<1>4. CASE CloseReceipt
  <2>1. trip' = trip /\ calls' = calls /\ page' = Reset(page)
    BY <1>4 DEF CloseReceipt
  <2> QED BY <1>1, <2>1, ResetPage, PageMoves
<1>5. CASE Reload
  <2>1. /\ trip' = trip /\ page' = Blank(page.stored)
        /\ calls' = IF page.stored = NoRide THEN {} ELSE {Answer("restore", page.stored, TRUE)}
    BY <1>5 DEF Reload
  <2>2. page.stored # NoRide => Answer("restore", page.stored, TRUE) \in CallRecord
    BY <1>1 DEF Answer, CallRecord, RiderInv
  <2>3. Calling("check")' \in BOOLEAN
    BY DEF Calling
  <2>4. page' \in PageRecord /\ Watches(page', Calling("check")')
    BY <1>1, <1>2, <2>1, <2>3
  <2> QED BY <2>1, <2>2, <2>4 DEF RiderInv
<1> QED BY <1>3, <1>4, <1>5

LEMMA OthersMoveKeeps ==
    ASSUME RiderInv, NEW r \in Ride, OthersMove(r) PROVE RiderInv'
<1>1. /\ page' = page /\ calls' = calls
      /\ \E s \in RideState : trip' = [trip EXCEPT ![r] = s]
  BY DEF OthersMove, Become, RideState, Under
<1>2. trip' \in [Ride -> RideState]
  BY <1>1 DEF RiderInv
<1>3. Calling("check") <=> Calling("check")'
  BY <1>1 DEF Calling
<1>4. Watches(page', Calling("check")')
  BY <1>1, <1>3 DEF RiderInv, Watches
<1> QED BY <1>1, <1>2, <1>4 DEF RiderInv

LEMMA RiderInitInv == RiderInit => RiderInv
<1> SUFFICES ASSUME RiderInit PROVE RiderInv
  OBVIOUS
<1>1. page \in PageRecord /\ Watches(page, FALSE)
  BY BlankPage DEF RiderInit
<1>2. ~Calling("check")
  BY DEF RiderInit, Calling
<1> QED BY <1>1, <1>2 DEF RiderInit, RiderInv, RideState, Watches

LEMMA RiderNextInv == RiderInv /\ [RiderNext]_riderVars => RiderInv'
<1> SUFFICES ASSUME RiderInv, [RiderNext]_riderVars PROVE RiderInv'
  OBVIOUS
<1>1. CASE \E r \in Ride : RequestRide(r) \/ OthersMove(r)
  BY <1>1, RequestRideKeeps, OthersMoveKeeps
<1>2. CASE PayStake \/ CancelRide \/ CheckIn
  BY <1>2, PayStakeKeeps, CancelRideKeeps, CheckInKeeps
<1>3. CASE Panic \/ NoReply
  BY <1>3, PanicsKeep DEF Panic, NoReply
<1>4. CASE CheckDue
  BY <1>4, CheckDueKeeps
<1>5. CASE Answers \/ AnswerLost
  BY <1>5, AnswersKeep, AnswerLostKeeps
<1>6. CASE Connected \/ RiderSocketLost \/ Hear
  BY <1>6, SocketKeeps
<1>7. CASE ResetDue \/ CloseReceipt \/ Reload
  BY <1>7, PageEnds
<1>8. CASE UNCHANGED riderVars
  BY <1>8 DEF riderVars, RiderInv, Calling
<1> QED BY <1>1, <1>2, <1>3, <1>4, <1>5, <1>6, <1>7, <1>8 DEF RiderNext

\* During a trip the stand-alone page always has a question due, asked, or being
\* answered, unless the alarm was raised, and outside a trip it asks nothing
\* (Watched): for any rides and any fetches under way, answered or lost in any order,
\* and for a socket that breaks at any time.
THEOREM AlwaysWatched == RiderSpec => []Watched
<1>1. RiderInv => Watched
  BY DEF RiderInv, Watches, Watched
<1>2. RiderSpec => []RiderInv
  BY RiderInitInv, RiderNextInv, PTL DEF RiderSpec
<1> QED
  BY <1>1, <1>2, PTL
=============================================================================
