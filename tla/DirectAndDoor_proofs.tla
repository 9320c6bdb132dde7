-------------------------- MODULE DirectAndDoor_proofs --------------------------
(***************************************************************************)
(* Proofs about the operator's door (Admission) and about a ride that      *)
(* passes no operator (DirectRide), which share no state.                  *)
(***************************************************************************)
EXTENDS Admission, DirectRide, TLAPS

-------------------------------------------------------------------------------
(***************************************************************************)
(* Proofs about the operator's door, for any number of people, addresses,  *)
(* events and arrivals, any budgets and windows, and any clock the         *)
(* assumptions admit.                                                      *)
(*                                                                         *)
(* SingleUse is not inductive: that an event is not let through again      *)
(* after it was forgotten is a matter of clocks.  Once forgotten it is too *)
(* old, because it was remembered for as long as it could stay fresh, and  *)
(* Spent says so of every event remembered.  The gate counts in whole      *)
(* seconds and remembers in milliseconds, which is where the division      *)
(* comes in.                                                               *)
(***************************************************************************)

(* The inductive invariant.                                                    *)

Event   == [by: Person, call: Call, at: Int]
Entry   == [count: Nat, reset: Int, own: [Person -> Nat]]
Key     == Person \cup Address
Windows == [Limiters -> [Key -> Entry]]

AdmissionTypeOK ==
    /\ ticks \in Nat
    /\ signed \in [Auth -> Event \cup {Unsigned}]
    /\ seen \in [Auth -> Nat \cup {Unseen}]
    /\ window \in Windows
    /\ admitted \in [Auth -> Nat]

\* An event that was used is signed; while it is remembered, it will be too old by
\* the time it may be forgotten; once forgotten, it is too old.
Spent(a) ==
    /\ seen[a] # Unseen =>
           signed[a] # Unsigned /\ signed[a].at + Fresh + 1 <= seen[a] \div PerSecond
    /\ admitted[a] > 0 /\ seen[a] = Unseen =>
           signed[a] # Unsigned /\ signed[a].at + Fresh + 1 <= Second
    /\ admitted[a] <= 1

\* A limiter that counts by person has counted only that person's requests.
OwnCounted(w) ==
    \A l \in Limiters \ {"public"}, p \in Person : w[l][p].count = w[l][p].own[p]

OwnFault(r) == r.limiter # "public" /\ Gated(r.call) => r.own > Budget[r.limiter]

AdmissionInv ==
    /\ AdmissionTypeOK
    /\ \A a \in Auth : Spent(a)
    /\ OwnCounted(window)
    /\ \A r \in refusals : OwnFault(r)

--------------------------------------------------------------------------------
(* Ticks and seconds.                                                          *)

\* Whole seconds, and the ticks left over.
LEMMA Seconds ==
    ASSUME NEW x \in Nat, NEW d \in Nat \ {0}
    PROVE  /\ x \div d \in Nat
           /\ d * (x \div d) <= x
           /\ x < d * (x \div d) + d
  OBVIOUS

\* So many seconds later is at least so many whole seconds later.
LEMMA SecondsLater ==
    ASSUME NEW x \in Nat, NEW y \in Nat, NEW m \in Nat, NEW d \in Nat \ {0}, x + m * d <= y
    PROVE  x \div d + m <= y \div d
  <1>. DEFINE q == x \div d
              r == y \div d
  <1>1. q \in Nat /\ r \in Nat /\ d * q <= x /\ y < d * r + d
    BY Seconds
  <1>. HIDE DEF q, r
  <1>2. d * q + d * m < d * r + d
    BY <1>1
  <1>3. d * (q + m) < d * (r + 1)
    BY <1>1, <1>2
  <1>4. q + m < r + 1
    <2>. SUFFICES ASSUME r + 1 <= q + m  PROVE FALSE
      BY <1>1
    <2>1. PICK n \in Nat : q + m = r + 1 + n
      <3>. q + m - (r + 1) \in Nat /\ q + m = r + 1 + (q + m - (r + 1))
        BY <1>1
      <3>. QED  OBVIOUS
    <2>2. d * (q + m) = d * (r + 1) + d * n
      BY <1>1, <2>1
    <2>. QED  BY <1>1, <1>3, <2>2
  <1>. QED  BY <1>1, <1>4 DEF q, r

--------------------------------------------------------------------------------
(* The limiters.                                                               *)

\* A limiter asked keeps the windows what they are, counts for a person only what
\* that person asks, and refuses nobody who has not used its own budget up.
LEMMA AskedInv ==
    ASSUME ticks \in Nat, NEW w \in Windows, OwnCounted(w), NEW l \in Limiters, NEW e \in Event
    PROVE  /\ Asked(w, l, e).window \in Windows
           /\ OwnCounted(Asked(w, l, e).window)
           /\ \A r \in Asked(w, l, e).refused : OwnFault(r)
  <1>. DEFINE k     == KeyOf(l, e)
              entry == Counted(w[l][k], l, e.by)
  <1>1. /\ e.by \in Person /\ k \in Key
        /\ l # "public" /\ k \in Person => k = e.by
        /\ l # "public" /\ Gated(e.call) => k = e.by
    BY AdmissionAssumption DEF KeyOf, Event, Key
  <1>2. w[l][k] \in Entry
    BY <1>1 DEF Windows
  <1>3. NoEntry \in Entry /\ NoEntry.count = 0 /\ \A p \in Person : NoEntry.own[p] = 0
    BY DEF NoEntry, Entry
  <1>4. ticks + Span[l] \in Int
    BY AdmissionAssumption
  <1>. DEFINE current == IF w[l][k] = NoEntry \/ ticks > w[l][k].reset
                           THEN [NoEntry EXCEPT !.reset = ticks + Span[l]] ELSE w[l][k]
  <1>5. /\ current \in Entry
        /\ l # "public" /\ k = e.by => current.count = current.own[e.by]
    <2>. DEFINE fresh == [NoEntry EXCEPT !.reset = ticks + Span[l]]
    <2>1. fresh \in Entry /\ fresh.count = 0 /\ fresh.own = NoEntry.own
      BY <1>3, <1>4 DEF Entry
    <2>2. l # "public" /\ k = e.by => w[l][k].count = w[l][k].own[e.by]
      BY <1>1 DEF OwnCounted
    <2>3. current = fresh \/ current = w[l][k]
      OBVIOUS
    <2>. HIDE DEF fresh, current, k
    <2>. QED  BY <1>1, <1>2, <1>3, <2>1, <2>2, <2>3
  <1>6. entry = [current EXCEPT !.count = @ + 1, !.own[e.by] = @ + 1]
    BY DEF Counted
  <1>. HIDE DEF current
  <1>7. /\ entry \in Entry
        /\ entry.count = current.count + 1 /\ entry.own[e.by] = current.own[e.by] + 1
    <2>1. current = [count |-> current.count, reset |-> current.reset, own |-> current.own]
      BY <1>5 DEF Entry
    <2>2. /\ current.count \in Nat /\ current.reset \in Int
          /\ current.own \in [Person -> Nat]
      BY <1>5 DEF Entry
    <2>. DEFINE mine == [current.own EXCEPT ![e.by] = @ + 1]
    <2>3. entry = [count |-> current.count + 1, reset |-> current.reset, own |-> mine]
      BY <1>6, <2>1
    <2>4. mine \in [Person -> Nat] /\ mine[e.by] = current.own[e.by] + 1
      BY <1>1, <2>2
    <2>. HIDE DEF mine, entry
    <2>. QED  BY <2>2, <2>3, <2>4 DEF Entry
  <1>8. l # "public" /\ k = e.by => entry.count = entry.own[e.by]
    BY <1>5, <1>7
  <1>9. /\ Asked(w, l, e).window = [w EXCEPT ![l][k] = entry]
        /\ \A r \in Asked(w, l, e).refused :
              /\ entry.count > Budget[l]
              /\ r.call = e.call /\ r.limiter = l /\ r.own = entry.own[e.by]
    BY DEF Asked
  <1>. HIDE DEF k, entry
  <1>10. [w EXCEPT ![l][k] = entry] \in Windows
    BY <1>1, <1>7 DEF Windows
  <1>11. OwnCounted([w EXCEPT ![l][k] = entry])
    BY <1>1, <1>7, <1>8 DEF OwnCounted, Windows, Key
  <1>12. \A r \in Asked(w, l, e).refused : OwnFault(r)
    BY <1>1, <1>8, <1>9 DEF OwnFault
  <1>. QED  BY <1>9, <1>10, <1>11, <1>12

\* What is asked of a request.
LEMMA LimitsOf ==
    ASSUME NEW c \in Call
    PROVE  /\ Limits(c)[1] \in Limiters
           /\ Len(Limits(c)) # 1 => Limits(c)[2] \in Limiters
  BY AdmissionAssumption DEF Limits, Limiters

LEMMA LimitedInv ==
    ASSUME AdmissionInv, NEW e \in Event
    PROVE  /\ Limited(e).window \in Windows
           /\ OwnCounted(Limited(e).window)
           /\ \A r \in Limited(e).refused : OwnFault(r)
  <1>. DEFINE l     == Limits(e.call)
              first == Asked(window, l[1], e)
  <1>1. e.call \in Call /\ ticks \in Nat /\ window \in Windows /\ OwnCounted(window)
    BY DEF Event, AdmissionInv, AdmissionTypeOK
  <1>2. /\ first.window \in Windows /\ OwnCounted(first.window)
        /\ \A r \in first.refused : OwnFault(r)
    BY <1>1, LimitsOf, AskedInv
  <1>3. Len(l) # 1 =>
          /\ Asked(first.window, l[2], e).window \in Windows
          /\ OwnCounted(Asked(first.window, l[2], e).window)
          /\ \A r \in Asked(first.window, l[2], e).refused : OwnFault(r)
    BY <1>1, <1>2, LimitsOf, AskedInv
  <1>4. Limited(e) = IF Len(l) = 1 \/ first.refused # {} THEN first
                                                          ELSE Asked(first.window, l[2], e)
    BY DEF Limited
  <1>. HIDE DEF l, first
  <1>. QED  BY <1>2, <1>3, <1>4

--------------------------------------------------------------------------------
(* The steps.                                                                  *)

LEMMA AdmissionInitInv == AdmissionInit => AdmissionInv
  <1>. SUFFICES ASSUME AdmissionInit  PROVE AdmissionInv
    OBVIOUS
  <1>1. NoEntry \in Entry
    BY DEF NoEntry, Entry
  <1>2. SecondsOff * PerSecond \in Nat
    BY AdmissionAssumption
  <1>3. AdmissionTypeOK
    BY <1>1, <1>2 DEF AdmissionInit, AdmissionTypeOK, Windows, Key
  <1>4. \A a \in Auth : Spent(a)
    BY DEF AdmissionInit, Spent
  <1>5. OwnCounted(window)
    BY DEF AdmissionInit, OwnCounted, NoEntry
  <1>. QED  BY <1>3, <1>4, <1>5 DEF AdmissionInv, AdmissionInit

\* Time that passes makes no event younger.
LEMMA SpentStays ==
    ASSUME AdmissionTypeOK, NEW a \in Auth, Spent(a), ticks' \in Nat, ticks <= ticks',
           signed'[a] = signed[a], seen'[a] = seen[a], admitted'[a] = admitted[a]
    PROVE  Spent(a)'
  <1>1. PerSecond \in Nat \ {0} /\ ticks \in Nat
    BY AdmissionAssumption DEF AdmissionTypeOK
  <1>2. ticks \div PerSecond + 0 <= ticks' \div PerSecond
    BY <1>1, SecondsLater
  <1>3. ticks \div PerSecond \in Nat /\ ticks' \div PerSecond \in Nat
    BY <1>1, Seconds
  <1>4. signed[a] # Unsigned => signed[a].at \in Int
    BY DEF AdmissionTypeOK, Event
  <1>5. Fresh \in Nat
    BY AdmissionAssumption
  <1>. QED  BY <1>2, <1>3, <1>4, <1>5 DEF Spent, Second

\* An event the gate lets in was not let through before, and is remembered for as
\* long as it stays fresh.
LEMMA UsedUp ==
    ASSUME AdmissionInv, NEW a \in Auth, signed[a] # Unsigned, GetsIn(a)
    PROVE  /\ admitted[a] = 0
           /\ RememberedUntil(a) \in Nat
           /\ signed[a].at + Fresh + 1 <= RememberedUntil(a) \div PerSecond
  <1>1. /\ PerSecond \in Nat \ {0} /\ ticks \in Nat /\ Fresh \in Nat /\ Replay \in Nat
        /\ Replay >= (2 * Fresh + 1) * PerSecond
        /\ signed[a].at \in Int /\ admitted[a] \in Nat
    BY AdmissionAssumption DEF AdmissionInv, AdmissionTypeOK, Event
  <1>2. Second \in Nat
    BY <1>1, Seconds DEF Second
  <1>3. /\ Second - signed[a].at <= Fresh /\ signed[a].at - Second <= Fresh
        /\ seen[a] = Unseen
    BY DEF GetsIn, IsFresh
  <1>4. admitted[a] = 0
    BY <1>1, <1>2, <1>3 DEF AdmissionInv, Spent
  <1>5. RememberedUntil(a) \in Nat /\ ticks + (2 * Fresh + 1) * PerSecond <= RememberedUntil(a)
    <2>1. (2 * Fresh + 1) * PerSecond \in Nat
      BY <1>1
    <2>. QED  BY <1>1, <2>1 DEF RememberedUntil
  <1>6. Second + (2 * Fresh + 1) <= RememberedUntil(a) \div PerSecond
    <2>1. 2 * Fresh + 1 \in Nat
      BY <1>1
    <2>. QED  BY <1>1, <1>5, <2>1, SecondsLater DEF Second
  <1>7. RememberedUntil(a) \div PerSecond \in Nat
    BY <1>1, <1>5, Seconds
  <1>. QED  BY <1>1, <1>2, <1>3, <1>4, <1>5, <1>6, <1>7

\* The limiters asked of a signed event.
LEMMA ThroughInv ==
    ASSUME AdmissionInv, NEW a \in Auth, signed[a] # Unsigned, Through(a)
    PROVE  /\ window' \in Windows /\ OwnCounted(window)'
           /\ \A r \in refusals' : OwnFault(r)
           /\ admitted' \in [Auth -> Nat]
           /\ \A b \in Auth : b # a => admitted'[b] = admitted[b]
           /\ admitted'[a] \in {admitted[a], admitted[a] + 1}
           /\ ~Gated(signed[a].call) => admitted' = admitted
  <1>1. signed[a] \in Event
    BY DEF AdmissionInv, AdmissionTypeOK
  <1>2. /\ Limited(signed[a]).window \in Windows
        /\ OwnCounted(Limited(signed[a]).window)
        /\ \A r \in Limited(signed[a]).refused : OwnFault(r)
    BY <1>1, LimitedInv
  <1>3. /\ window' = Limited(signed[a]).window
        /\ refusals' = refusals \cup Limited(signed[a]).refused
    BY DEF Through
  <1>4. /\ window' \in Windows /\ OwnCounted(window')
        /\ \A r \in refusals' : OwnFault(r)
    BY <1>2, <1>3 DEF AdmissionInv
  <1>5. admitted' = [admitted EXCEPT ![a] =
            IF Limited(signed[a]).refused = {} /\ Gated(signed[a].call) THEN @ + 1 ELSE @]
    BY DEF Through
  <1>6. /\ admitted' \in [Auth -> Nat]
        /\ \A b \in Auth : b # a => admitted'[b] = admitted[b]
        /\ admitted'[a] \in {admitted[a], admitted[a] + 1}
        /\ ~Gated(signed[a].call) => admitted' = admitted
    BY <1>5 DEF AdmissionInv, AdmissionTypeOK
  <1>. QED  BY <1>4, <1>6 DEF OwnCounted

LEMMA SignInv ==
    ASSUME AdmissionInv, NEW a \in Auth, Sign(a)
    PROVE  AdmissionInv'
  <1>1. PICK p \in Person, c \in Call, off \in -SecondsOff..SecondsOff :
            signed' = [signed EXCEPT ![a] = [by |-> p, call |-> c, at |-> Second + off]]
    BY DEF Sign
  <1>2. Second + off \in Int
    BY AdmissionAssumption, Seconds DEF AdmissionInv, AdmissionTypeOK, Second
  <1>3. signed' \in [Auth -> Event \cup {Unsigned}]
    BY <1>1, <1>2 DEF AdmissionInv, AdmissionTypeOK, Event
  <1>4. AdmissionTypeOK'
    BY <1>3 DEF Sign, AdmissionInv, AdmissionTypeOK
  <1>5. ASSUME NEW b \in Auth
        PROVE  Spent(b)'
    <2>1. CASE b = a
      <3>1. admitted[a] = 0 /\ seen[a] = Unseen
        BY DEF Sign, AdmissionInv, AdmissionTypeOK, Spent
      <3>. QED  BY <2>1, <3>1 DEF Sign, Spent
    <2>2. CASE b # a
      <3>1. signed'[b] = signed[b]
        BY <1>1, <2>2 DEF AdmissionInv, AdmissionTypeOK
      <3>. QED  BY <3>1, SpentStays DEF Sign, AdmissionInv, AdmissionTypeOK
    <2>. QED  BY <2>1, <2>2
  <1>. QED  BY <1>4, <1>5 DEF Sign, AdmissionInv, OwnCounted

LEMMA MutateInv ==
    ASSUME AdmissionInv, NEW a \in Auth, Mutate(a)
    PROVE  AdmissionInv'
  <1>1. signed[a] # Unsigned /\ GetsIn(a) /\ Through(a)
    BY DEF Mutate, Reaches
  <1>2. /\ window' \in Windows /\ OwnCounted(window)'
        /\ \A r \in refusals' : OwnFault(r)
        /\ admitted' \in [Auth -> Nat]
        /\ \A b \in Auth : b # a => admitted'[b] = admitted[b]
        /\ admitted'[a] \in {admitted[a], admitted[a] + 1}
    BY <1>1, ThroughInv
  <1>3. /\ admitted[a] = 0
        /\ RememberedUntil(a) \in Nat
        /\ signed[a].at + Fresh + 1 <= RememberedUntil(a) \div PerSecond
    BY <1>1, UsedUp
  <1>4. /\ seen' = [seen EXCEPT ![a] = RememberedUntil(a)]
        /\ UNCHANGED <<ticks, signed>>
    BY DEF Mutate
  <1>5. AdmissionTypeOK'
    BY <1>2, <1>3, <1>4 DEF AdmissionInv, AdmissionTypeOK
  <1>6. ASSUME NEW b \in Auth
        PROVE  Spent(b)'
    <2>1. CASE b = a
      BY <1>1, <1>2, <1>3, <1>4, <2>1 DEF Spent, Unseen, AdmissionInv, AdmissionTypeOK
    <2>2. CASE b # a
      BY <1>2, <1>4, <2>2, SpentStays DEF AdmissionInv, AdmissionTypeOK
    <2>. QED  BY <2>1, <2>2
  <1>. QED  BY <1>2, <1>5, <1>6 DEF AdmissionInv

LEMMA MutateOtherBodyInv ==
    ASSUME AdmissionInv, NEW a \in Auth, MutateOtherBody(a)
    PROVE  AdmissionInv'
  <1>1. signed[a] # Unsigned /\ GetsIn(a)
    BY DEF MutateOtherBody, Reaches
  <1>2. /\ admitted[a] = 0
        /\ RememberedUntil(a) \in Nat
        /\ signed[a].at + Fresh + 1 <= RememberedUntil(a) \div PerSecond
    BY <1>1, UsedUp
  <1>3. /\ seen' = [seen EXCEPT ![a] = RememberedUntil(a)]
        /\ UNCHANGED <<ticks, signed, window, admitted, refusals>>
    BY DEF MutateOtherBody
  <1>4. AdmissionTypeOK'
    BY <1>2, <1>3 DEF AdmissionInv, AdmissionTypeOK
  <1>5. ASSUME NEW b \in Auth
        PROVE  Spent(b)'
    <2>1. CASE b = a
      BY <1>1, <1>2, <1>3, <2>1 DEF Spent, Unseen, AdmissionInv, AdmissionTypeOK
    <2>2. CASE b # a
      BY <1>3, <2>2, SpentStays DEF AdmissionInv, AdmissionTypeOK
    <2>. QED  BY <2>1, <2>2
  <1>. QED  BY <1>3, <1>4, <1>5 DEF AdmissionInv, OwnCounted

LEMMA UngatedInv ==
    ASSUME AdmissionInv, NEW a \in Auth, Ungated(a)
    PROVE  AdmissionInv'
  <1>1. signed[a] # Unsigned /\ ~Gated(signed[a].call) /\ Through(a)
    BY DEF Ungated, Reaches
  <1>2. /\ window' \in Windows /\ OwnCounted(window)'
        /\ \A r \in refusals' : OwnFault(r)
        /\ admitted' = admitted
    BY <1>1, ThroughInv
  <1>3. UNCHANGED <<ticks, signed, seen>>
    BY DEF Ungated
  <1>4. AdmissionTypeOK'
    BY <1>2, <1>3 DEF AdmissionInv, AdmissionTypeOK
  <1>5. \A b \in Auth : Spent(b)'
    BY <1>2, <1>3, SpentStays DEF AdmissionInv, AdmissionTypeOK
  <1>. QED  BY <1>2, <1>4, <1>5 DEF AdmissionInv

LEMMA CleanupInv ==
    ASSUME AdmissionInv, NEW l \in Limiters, Cleanup(l)
    PROVE  AdmissionInv'
  <1>. DEFINE swept == [k \in Key |-> IF ticks > window[l][k].reset THEN NoEntry ELSE window[l][k]]
  <1>1. window' = [window EXCEPT ![l] = swept]
    BY DEF Cleanup, AdmissionInv, AdmissionTypeOK, Windows
  <1>2. NoEntry \in Entry /\ \A p \in Person : NoEntry.count = NoEntry.own[p]
    BY DEF NoEntry, Entry
  <1>3. swept \in [Key -> Entry]
    BY <1>2 DEF AdmissionInv, AdmissionTypeOK, Windows
  <1>4. \A p \in Person : swept[p] = NoEntry \/ swept[p] = window[l][p]
    BY DEF Key
  <1>. HIDE DEF swept
  <1>5. window' \in Windows
    BY <1>1, <1>3 DEF AdmissionInv, AdmissionTypeOK, Windows
  <1>6. OwnCounted(window)'
    BY <1>1, <1>2, <1>4 DEF AdmissionInv, AdmissionTypeOK, Windows, OwnCounted
  <1>7. UNCHANGED <<ticks, signed, seen, admitted, refusals>>
    BY DEF Cleanup
  <1>8. \A b \in Auth : Spent(b)'
    BY <1>7, SpentStays DEF AdmissionInv, AdmissionTypeOK
  <1>. QED  BY <1>5, <1>6, <1>7, <1>8 DEF AdmissionInv, AdmissionTypeOK

\* What is forgotten has outlived its freshness.
LEMMA ForgetSeenInv ==
    ASSUME AdmissionInv, ForgetSeen
    PROVE  AdmissionInv'
  <1>1. /\ seen' = [a \in Auth |-> IF seen[a] < ticks THEN Unseen ELSE seen[a]]
        /\ UNCHANGED <<ticks, signed, window, admitted, refusals>>
    BY DEF ForgetSeen
  <1>2. AdmissionTypeOK'
    BY <1>1 DEF AdmissionInv, AdmissionTypeOK
  <1>3. ASSUME NEW a \in Auth
        PROVE  Spent(a)'
    <2>1. CASE seen[a] # Unseen /\ seen[a] < ticks
      <3>1. /\ PerSecond \in Nat \ {0} /\ ticks \in Nat /\ seen[a] \in Nat /\ Fresh \in Nat
            /\ seen[a] + 0 * PerSecond <= ticks
        BY <2>1, AdmissionAssumption DEF AdmissionInv, AdmissionTypeOK
      <3>2. seen[a] \div PerSecond + 0 <= ticks \div PerSecond
        BY <3>1, SecondsLater
      <3>3. seen[a] \div PerSecond \in Nat /\ ticks \div PerSecond \in Nat
        BY <3>1, Seconds
      <3>4. /\ signed[a] # Unsigned /\ signed[a].at \in Int
            /\ signed[a].at + Fresh + 1 <= seen[a] \div PerSecond /\ admitted[a] <= 1
        BY <2>1 DEF AdmissionInv, AdmissionTypeOK, Spent, Event
      <3>5. signed[a].at + Fresh + 1 <= ticks \div PerSecond
        BY <3>1, <3>2, <3>3, <3>4
      <3>. QED  BY <1>1, <2>1, <3>4, <3>5 DEF Spent, Second
    <2>2. CASE ~(seen[a] # Unseen /\ seen[a] < ticks)
      <3>1. seen'[a] = seen[a]
        BY <1>1, <2>2
      <3>. QED  BY <1>1, <3>1, SpentStays DEF AdmissionInv, AdmissionTypeOK
    <2>. QED  BY <2>1, <2>2
  <1>. QED  BY <1>1, <1>2, <1>3 DEF AdmissionInv, OwnCounted

\* Time passes, or nothing the gate keeps changes.
LEMMA QuietInv ==
    ASSUME AdmissionInv, ticks' \in {ticks, ticks + 1},
           UNCHANGED <<signed, seen, window, admitted, refusals>>
    PROVE  AdmissionInv'
  <1>1. ticks' \in Nat /\ ticks <= ticks'
    BY DEF AdmissionInv, AdmissionTypeOK
  <1>2. AdmissionTypeOK'
    BY <1>1 DEF AdmissionInv, AdmissionTypeOK
  <1>3. \A a \in Auth : Spent(a)'
    BY <1>1, SpentStays DEF AdmissionInv
  <1>. QED  BY <1>2, <1>3 DEF AdmissionInv, OwnCounted

LEMMA AdmissionStep == AdmissionInv /\ [AdmissionNext]_admissionVars => AdmissionInv'
  <1>. SUFFICES ASSUME AdmissionInv, [AdmissionNext]_admissionVars  PROVE AdmissionInv'
    OBVIOUS
  <1>1. ASSUME NEW a \in Auth, Sign(a) \/ Mutate(a) \/ MutateOtherBody(a) \/ Ungated(a)
        PROVE  AdmissionInv'
    BY <1>1, SignInv, MutateInv, MutateOtherBodyInv, UngatedInv
  <1>2. ASSUME NEW a \in Auth, Rejected(a)
        PROVE  AdmissionInv'
    BY <1>2, QuietInv DEF Rejected
  <1>3. ASSUME NEW l \in Limiters, Cleanup(l)
        PROVE  AdmissionInv'
    BY <1>3, CleanupInv
  <1>4. CASE ForgetSeen
    BY <1>4, ForgetSeenInv
  <1>5. CASE AdmTick
    BY <1>5, QuietInv DEF AdmTick, gateVars
  <1>6. CASE UNCHANGED admissionVars
    BY <1>6, QuietInv DEF admissionVars, gateVars
  <1>. QED  BY <1>1, <1>2, <1>3, <1>4, <1>5, <1>6 DEF AdmissionNext

--------------------------------------------------------------------------------
(* The theorems.                                                               *)

\* However late, often and in whatever order signed events reach the server, each
\* lets at most one mutation through: an event is remembered for as long as it
\* stays fresh, for every pair of windows with REPLAY_WINDOW_MS at least one second
\* over twice the freshness (nip98-auth.js).
THEOREM UsedOnce == AdmissionSpec => []SingleUse
  <1>1. AdmissionInv => SingleUse
    BY DEF AdmissionInv, Spent, SingleUse
  <1>. QED  BY <1>1, AdmissionInitInv, AdmissionStep, PTL DEF AdmissionSpec

\* Whoever else shares the address, a limiter that counts by person refuses a signed
\* request only once its own signer has used the budget up (server.js: the limiters
\* after the gate; rate-limit.js).
THEOREM OthersDoNotCount == AdmissionSpec => []OthersDoNotSpend
  <1>1. AdmissionInv => OthersDoNotSpend
    BY DEF AdmissionInv, OthersDoNotSpend, OwnFault
  <1>. QED  BY <1>1, AdmissionInitInv, AdmissionStep, PTL DEF AdmissionSpec

-------------------------------------------------------------------------------
(***************************************************************************)
(* Proofs about a ride without an operator, for every set of drivers, any  *)
(* number of messages and all the faults of DirectRide.                    *)
(*                                                                         *)
(* That one driver holds the ride is not inductive.  A driver goes by a    *)
(* match that the relays hold, so what has to be kept is that they hold    *)
(* matches of one driver only, though the set of claimed tasks is lost     *)
(* with the page: a rider's app that could still claim shows a task        *)
(* without a driver, and then no match was ever sent.                      *)
(***************************************************************************)

\* Matches were sent to one driver, and only drivers say how the ride goes on.
Unmatched == \A m \in mail : m.type # "matched"

OneMatch == \A m, n \in mail : m.type = "matched" /\ n.type = "matched" => m.to = n.to

DriversMove == \A m \in mail : m.type = "state" => m.from \in Driver

\* The rider's app: what it has open is of a task it shows and has stored, and while
\* it would still take a driver none was told.
RiderWatches ==
    rider.sub # "none" => rider.view # NoTask /\ rider.stored # NoTask

Claims ==
    rider.sub \in {"rendezvous", "both"} /\ ~rider.claimed
        => rider.view # NoTask /\ rider.view.provider = NoDriver

NotYet ==
    announced = "none" \/ (rider.view # NoTask /\ rider.view.provider = NoDriver)
        => Unmatched

\* A driver's task: its driver was told of the match, its milestone was sent.
Taken(t, d) ==
    t.provider # NoDriver =>
        t.provider = d /\ \E m \in mail : m.type = "matched" /\ m.to = d

Sent(t, d) ==
    t.at > 0 => \E m \in mail : m.type = "state" /\ m.from = d /\ m.at = t.at

\* What the app of driver d goes by, in memory, in storage and in flight.
Own(d, app) ==
    /\ app.view # NoTask => Taken(app.view, d) /\ Sent(app.view, d)
    /\ app.stored # NoTask => Taken(app.stored, d) /\ Sent(app.stored, d)
    /\ app.sub =>
         /\ app.view # NoTask /\ app.view.provider # NoDriver
         /\ app.stored # NoTask /\ app.stored.provider # NoDriver
    /\ app.work # Idle /\ app.work.op = "ask" => ~app.sub
    /\ app.work # Idle /\ app.work.op = "move" =>
         /\ app.work.task # NoTask /\ app.work.task.provider # NoDriver
         /\ Taken(app.work.task, d)
         /\ app.work.acked => Sent(app.work.task, d)

DirectInv ==
    /\ TypeOK
    /\ OneMatch
    /\ DriversMove
    /\ RiderWatches
    /\ Claims
    /\ NotYet
    /\ \A d \in Driver : Own(d, driver[d])

-----------------------------------------------------------------------------
(* The tasks the steps make.                                               *)

LEMMA Named ==
    /\ {"requested", "en_route", "cancelled"} \subseteq State
    /\ "cancelled" \in Terminal
BY DEF State, StatesOf, Ridesharing, Terminal

\* No message was heard yet.
LEMMA Started == 0 \in 0..MaxClock
BY DirectAssumption

LEMMA Tasks ==
    /\ New \in Task /\ New.provider = NoDriver /\ New.at = 0 /\ New # NoTask
    /\ \A d \in Driver : /\ MatchedTo(d) \in Task /\ MatchedTo(d).provider = d
                         /\ MatchedTo(d).at = 0 /\ MatchedTo(d) # NoTask
                         /\ MatchedTo(d).provider # NoDriver
BY Named, DirectAssumption DEF New, MatchedTo, Task

LEMMA StampedTask ==
    ASSUME NEW t \in Task, NEW s \in State, NEW at \in 0..MaxClock
    PROVE  /\ Stamped(t, s, at) \in Task
           /\ Stamped(t, s, at).provider = t.provider
           /\ Stamped(t, s, at).at \in {t.at, at}
           /\ Stamped(t, s, at) # NoTask
<1>1. PICK to \in {t.at, at} : Stamped(t, s, at) = [t EXCEPT !.status = s, !.at = to]
  BY DEF Stamped, Task
<1> QED BY <1>1, DirectAssumption DEF Task

LEMMA AfterTask ==
    ASSUME NEW t \in Task, NEW m \in Message
    PROVE  /\ After(t, m) \in Task /\ After(t, m).provider = t.provider
           /\ After(t, m) # NoTask
           /\ m.type # "state" => After(t, m).at = t.at
<1>1. CASE m.type = "state"
  BY <1>1, StampedTask DEF After, Message
<1>2. CASE m.type = "cancel"
  <2>1. After(t, m) = [t EXCEPT !.status = "cancelled"]
    BY <1>2 DEF After
  <2> QED BY <1>2, <2>1, Named, DirectAssumption DEF Task
<1>3. CASE m.type \notin {"state", "cancel"}
  BY <1>3, DirectAssumption DEF After
<1> QED BY <1>1, <1>2, <1>3

\* A message may be taken by the relays or not, and is if they said so.
LEMMA PostedMail ==
    ASSUME TypeOK, NEW m \in Message, NEW o \in Outcome
    PROVE  /\ mail \subseteq Posted(m, o) /\ Posted(m, o) \subseteq Message
           /\ \A n \in Posted(m, o) : n \in mail \/ n = m
           /\ o = "acked" => m \in Posted(m, o)
BY DEF TypeOK, Posted

-----------------------------------------------------------------------------
(* The steps of a driver's app.                                            *)

\* What is said of an app still holds when the relays hold more.
LEMMA MoreMail ==
    ASSUME NEW d \in Driver, NEW app, Own(d, app), mail \subseteq mail'
    PROVE  Own(d, app)'
<1>1. \A t : Taken(t, d) => Taken(t, d)'
  BY DEF Taken
<1>2. \A t : Sent(t, d) => Sent(t, d)'
  BY DEF Sent
<1> QED BY <1>1, <1>2 DEF Own

\* A driver's step keeps the invariant if it leaves its own app in order.
LEMMA DriverStep ==
    ASSUME DirectInv, NEW d \in Driver, NEW app \in DriverApp, Own(d, app)',
           Updated(d, app), listed' \subseteq Driver, clock' \in 0..MaxClock,
           mail \subseteq mail', mail' \subseteq Message,
           \A m \in mail' : m \in mail \/ (m.type # "matched" /\ m.from \in Driver)
    PROVE  DirectInv'
<1>1. /\ announced' = announced /\ rider' = rider
      /\ driver' = [driver EXCEPT ![d] = app]
  BY DEF Updated
<1>2. /\ driver' \in [Driver -> DriverApp]
      /\ \A e \in Driver : driver'[e] = IF e = d THEN app ELSE driver[e]
  BY <1>1 DEF DirectInv, TypeOK
<1>3. TypeOK'
  BY <1>1, <1>2 DEF DirectInv, TypeOK
<1>4. ASSUME NEW e \in Driver PROVE Own(e, driver[e])'
  <2>1. CASE e = d
    BY <1>2, <2>1 DEF Own
  <2>2. CASE e # d
    <3>1. PICK other : other = driver[e]
      OBVIOUS
    <3>2. Own(e, other)'
      BY <3>1, MoreMail DEF DirectInv
    <3> QED BY <1>2, <2>2, <3>1, <3>2 DEF Own
  <2> QED BY <2>1, <2>2
<1>5. OneMatch' /\ DriversMove' /\ RiderWatches' /\ Claims' /\ NotYet'
  BY <1>1 DEF DirectInv, OneMatch, DriversMove, RiderWatches, Claims, NotYet, Unmatched
<1> QED BY <1>3, <1>4, <1>5 DEF DirectInv

\* acceptDirectTask, up to its answer.
LEMMA AskInv ==
    ASSUME DirectInv, NEW d \in Driver, Ask(d)
    PROVE  DirectInv'
<1>1. driver[d] \in DriverApp /\ Own(d, driver[d])
  BY DEF DirectInv, TypeOK
<1>2. PICK o \in Outcome :
        /\ mail' = Posted(Tell("accept", d, Rider, "requested", 0), o)
        /\ Updated(d, [ driver[d] EXCEPT !.view = New,
                          !.work = [op |-> "ask", task |-> NoTask, acked |-> o = "acked"] ])
  BY DEF Ask
<1>3. PICK w : w = [op |-> "ask", task |-> NoTask, acked |-> o = "acked"]
  OBVIOUS
<1>4. PICK app : app = [driver[d] EXCEPT !.view = New, !.work = w]
  OBVIOUS
<1>5. w \in Work /\ w # Idle /\ w.op = "ask"
  <2>1. w \in Work /\ w.op = "ask"
    BY <1>3 DEF Work
  <2> QED BY <2>1, DirectAssumption
<1>6. /\ app \in DriverApp /\ app.view = New /\ app.work = w /\ app.sub = driver[d].sub
      /\ app.stored = driver[d].stored
  BY <1>1, <1>4, <1>5, Tasks DEF DriverApp
<1>7. ~app.sub
  BY <1>1, <1>6, Tasks DEF Ask, Own
<1>8. Tell("accept", d, Rider, "requested", 0) \in Message
  BY Named, DirectAssumption DEF Tell, Message
<1>9. /\ mail \subseteq mail' /\ mail' \subseteq Message
      /\ \A m \in mail' : m \in mail \/ (m.type # "matched" /\ m.from \in Driver)
  BY <1>2, <1>8, PostedMail DEF DirectInv, Tell
<1>10. Own(d, app)
  BY <1>1, <1>5, <1>6, <1>7, Tasks DEF Own, Taken, Sent
<1>11. Own(d, app)'
  BY <1>9, <1>10, MoreMail
<1>12. Updated(d, app) /\ UNCHANGED <<listed, clock>>
  BY <1>2, <1>3, <1>4 DEF Ask
<1> QED BY <1>6, <1>9, <1>11, <1>12, DriverStep DEF DirectInv, TypeOK

\* A step that says nothing to the rider.
LEMMA SilentStep ==
    ASSUME DirectInv, NEW d \in Driver, NEW app \in DriverApp, Own(d, app),
           Updated(d, app), listed' \subseteq Driver, UNCHANGED <<mail, clock>>
    PROVE  DirectInv'
<1>1. Own(d, app)'
  BY MoreMail
<1> QED BY <1>1, DriverStep DEF DirectInv, TypeOK

LEMMA AnswerInv ==
    ASSUME DirectInv, NEW d \in Driver,
           AskMatched(d) \/ AskFails(d) \/ DriverSaves(d) \/ DriverDone(d)
    PROVE  DirectInv'
<1>1. driver[d] \in DriverApp /\ Own(d, driver[d]) /\ listed \subseteq Driver
  BY DEF DirectInv, TypeOK
<1>2. CASE AskMatched(d)
  <2>1. PICK app : app = [ driver[d] EXCEPT !.view = MatchedTo(d), !.stored = MatchedTo(d),
                                            !.sub = TRUE, !.last = 0, !.work = Idle ]
    OBVIOUS
  <2>2. app \in DriverApp /\ app.view = MatchedTo(d) /\ app.stored = MatchedTo(d)
        /\ app.work = Idle
    BY <1>1, <2>1, Tasks, Started DEF DriverApp
  <2>3. \E m \in mail : m.type = "matched" /\ m.to = d
    BY <1>2 DEF AskMatched
  <2>4. Own(d, app)
    BY <2>2, <2>3, Tasks DEF Own, Taken, Sent
  <2> QED BY <1>1, <1>2, <2>1, <2>2, <2>4, SilentStep DEF AskMatched
<1>3. CASE AskFails(d)
  <2>1. PICK app : app = [driver[d] EXCEPT !.view = NoTask, !.work = Idle]
    OBVIOUS
  <2>2. /\ app \in DriverApp /\ app.view = NoTask /\ app.stored = driver[d].stored
        /\ app.sub = driver[d].sub /\ app.work = Idle
    BY <1>1, <2>1 DEF DriverApp
  <2>3. Own(d, app)
    BY <1>1, <1>3, <2>2 DEF AskFails, Awaits, Own
  <2> QED BY <1>1, <1>3, <2>1, <2>2, <2>3, SilentStep DEF AskFails
<1>4. CASE DriverSaves(d)
  <2>1. PICK app : app = [driver[d] EXCEPT !.stored = driver[d].view]
    OBVIOUS
  <2>2. /\ app \in DriverApp /\ app.view = driver[d].view /\ app.stored = driver[d].view
        /\ app.sub = driver[d].sub /\ app.work = driver[d].work
    BY <1>1, <2>1 DEF DriverApp
  <2>3. Own(d, app)
    BY <1>1, <2>2 DEF Own
  <2> QED BY <1>1, <1>4, <2>1, <2>2, <2>3, SilentStep DEF DriverSaves
<1>5. CASE DriverDone(d)
  <2>1. PICK app : app = Cleared(driver[d], FALSE)
    OBVIOUS
  <2>2. /\ app \in DriverApp /\ app.view = NoTask /\ app.stored = NoTask
        /\ app.sub = FALSE /\ app.work = driver[d].work
    BY <1>1, <2>1 DEF DriverApp, Cleared
  <2>3. Own(d, app)
    BY <1>1, <2>2 DEF Own
  <2> QED BY <1>1, <1>5, <2>1, <2>2, <2>3, SilentStep DEF DriverDone
<1> QED BY <1>2, <1>3, <1>4, <1>5

\* transitionDirectTask makes the next task of the stored one, and shows it when the
\* rider's copy was taken.
LEMMA MoveInv ==
    ASSUME DirectInv, NEW d \in Driver, NEW s \in State, Move(d, s)
    PROVE  DirectInv'
<1>1. driver[d] \in DriverApp /\ Own(d, driver[d]) /\ driver[d].sub
  BY DEF DirectInv, TypeOK, Move, OnRide
<1>2. clock + 1 \in 0..MaxClock
  BY DirectAssumption DEF DirectInv, TypeOK, Move, OnRide
<1>3. PICK told : told = Tell("state", d, Rider, s, clock + 1)
  OBVIOUS
<1>4. PICK t : t = Stamped(driver[d].stored, s, clock + 1)
  OBVIOUS
<1>5. PICK o \in Outcome :
        /\ clock' = clock + 1
        /\ mail' = Posted(told, o)
        /\ Updated(d, [ driver[d] EXCEPT
                          !.work = [op |-> "move", task |-> t, acked |-> o = "acked"] ])
  BY <1>3, <1>4 DEF Move
<1>6. told \in Message /\ told.type = "state" /\ told.from = d /\ told.at = clock + 1
  BY <1>2, <1>3 DEF Tell, Message
<1>7. /\ mail \subseteq mail' /\ mail' \subseteq Message
      /\ \A m \in mail' : m \in mail \/ (m.type # "matched" /\ m.from \in Driver)
      /\ o = "acked" => told \in mail'
  BY <1>5, <1>6, PostedMail DEF DirectInv
<1>8. driver[d].stored \in Task /\ driver[d].stored.provider # NoDriver
  BY <1>1 DEF Own, DriverApp
<1>9. /\ t \in Task /\ t.provider = driver[d].stored.provider /\ t # NoTask
      /\ t.at \in {driver[d].stored.at, clock + 1}
  BY <1>2, <1>4, <1>8, StampedTask
<1>10. PICK w : w = [op |-> "move", task |-> t, acked |-> o = "acked"]
  OBVIOUS
<1>11. w \in Work /\ w.task = t /\ w.op = "move" /\ (w.acked <=> o = "acked")
  BY <1>9, <1>10 DEF Work
<1>12. PICK app : app = [driver[d] EXCEPT !.work = w]
  OBVIOUS
<1>13. /\ app \in DriverApp /\ app.view = driver[d].view /\ app.stored = driver[d].stored
       /\ app.sub = driver[d].sub /\ app.work = w
  BY <1>1, <1>11, <1>12 DEF DriverApp
<1>14. Taken(t, d) /\ Taken(t, d)' /\ (o = "acked" => Sent(t, d)')
  <2>1. Taken(driver[d].stored, d) /\ Sent(driver[d].stored, d)
    BY <1>1, <1>8, DirectAssumption DEF Own
  <2>2. Taken(t, d) /\ Taken(t, d)'
    BY <1>7, <1>9, <2>1 DEF Taken
  <2> QED BY <1>6, <1>7, <1>9, <2>1, <2>2 DEF Sent
<1>15. Own(d, app)'
  <2>1. PICK was : was = driver[d]
    OBVIOUS
  <2>2. Own(d, was)'
    BY <1>1, <1>7, <2>1, MoreMail
  <2> QED BY <1>8, <1>9, <1>11, <1>13, <1>14, <2>1, <2>2 DEF Own
<1> QED BY <1>2, <1>5, <1>7, <1>10, <1>12, <1>13, <1>15, DriverStep
        DEF Move, DirectInv, TypeOK

LEMMA MoveEndsInv ==
    ASSUME DirectInv, NEW d \in Driver, MoveEnds(d)
    PROVE  DirectInv'
<1>1. /\ driver[d] \in DriverApp /\ Own(d, driver[d]) /\ listed \subseteq Driver
      /\ driver[d].work # Idle /\ driver[d].work.op = "move"
  BY DEF DirectInv, TypeOK, MoveEnds, Awaits
<1>2. PICK t : t = driver[d].work.task
  OBVIOUS
<1>3. t \in Task /\ t # NoTask /\ t.provider # NoDriver /\ Taken(t, d)
      /\ (driver[d].work.acked => Sent(t, d))
  BY <1>1, <1>2 DEF Own, DriverApp, Work
<1>4. CASE Delivered(d)
  <2>1. PICK sub \in BOOLEAN : sub = (driver[d].sub /\ t.status \notin Terminal)
    OBVIOUS
  <2>2. PICK app : app = [ driver[d] EXCEPT !.view = t, !.stored = t, !.work = Idle,
                                            !.sub = sub ]
    OBVIOUS
  <2>3. /\ app \in DriverApp /\ app.view = t /\ app.stored = t
        /\ app.work = Idle
    BY <1>1, <1>3, <2>2 DEF DriverApp
  <2>4. Own(d, app)
    BY <1>3, <1>4, <2>3 DEF Own, Delivered
  <2>5. [ driver[d] EXCEPT !.view = driver[d].work.task, !.stored = driver[d].work.task,
                           !.work = Idle, !.sub = @ /\ driver[d].work.task.status \notin Terminal ]
          = app
    BY <1>1, <1>2, <2>1, <2>2 DEF DriverApp
  <2>6. Updated(d, app) /\ UNCHANGED <<listed, mail, clock>>
    BY <1>4, <2>5 DEF MoveEnds
  <2> QED BY <1>1, <2>3, <2>4, <2>6, SilentStep
<1>5. CASE ~Delivered(d)
  <2>1. PICK app : app = [driver[d] EXCEPT !.work = Idle]
    OBVIOUS
  <2>2. /\ app \in DriverApp /\ app.view = driver[d].view /\ app.stored = driver[d].stored
        /\ app.sub = driver[d].sub /\ app.work = Idle
    BY <1>1, <2>1 DEF DriverApp
  <2>3. Own(d, app)
    BY <1>1, <2>2 DEF Own
  <2>4. Updated(d, app) /\ UNCHANGED <<listed, mail, clock>>
    BY <1>5, <2>1 DEF MoveEnds
  <2> QED BY <1>1, <2>2, <2>3, <2>4, SilentStep
<1> QED BY <1>4, <1>5

\* The rider sends no milestone, so what a driver hears stamps none.
LEMMA DriverHearsInv ==
    ASSUME DirectInv, NEW d \in Driver, NEW m \in mail, DriverHears(d, m)
    PROVE  DirectInv'
<1>1. /\ driver[d] \in DriverApp /\ Own(d, driver[d]) /\ listed \subseteq Driver
      /\ driver[d].sub /\ m \in Message /\ m.from = Rider
  BY DEF DirectInv, TypeOK, DriverHears, Passes
<1>2. PICK t : t = After(driver[d].view, m)
  OBVIOUS
<1>3. driver[d].view \in Task /\ driver[d].view # NoTask
  BY <1>1 DEF Own, DriverApp
<1>4. m.type # "state"
  BY <1>1, DirectAssumption DEF DirectInv, DriversMove
<1>5. /\ t \in Task /\ t.provider = driver[d].view.provider /\ t # NoTask
      /\ t.at = driver[d].view.at
  BY <1>1, <1>2, <1>3, <1>4, AfterTask
<1>6. PICK app : app = [ driver[d] EXCEPT !.last = m.at, !.view = t, !.sub = m.type # "cancel" ]
  OBVIOUS
<1>7. /\ app \in DriverApp /\ app.view = t /\ app.stored = driver[d].stored
      /\ app.sub => driver[d].sub
      /\ app.work = driver[d].work
  BY <1>1, <1>5, <1>6 DEF DriverApp, Message
<1>8. Own(d, app)
  BY <1>1, <1>3, <1>5, <1>7 DEF Own, Taken, Sent
<1>9. Updated(d, app) /\ UNCHANGED <<listed, mail, clock>>
  <2>1. [driver[d] EXCEPT !.last = m.at, !.view = After(@, m), !.sub = m.type # "cancel"] = app
    BY <1>1, <1>2, <1>6 DEF DriverApp
  <2> QED BY <2>1 DEF DriverHears
<1> QED BY <1>1, <1>7, <1>8, <1>9, SilentStep

LEMMA DriverCancelInv ==
    ASSUME DirectInv, NEW d \in Driver, DriverCancel(d)
    PROVE  DirectInv'
<1>1. driver[d] \in DriverApp /\ Own(d, driver[d])
  BY DEF DirectInv, TypeOK
<1>2. clock + 1 \in 0..MaxClock
  BY DirectAssumption DEF DirectInv, TypeOK, DriverCancel, OnRide
<1>3. PICK o \in Outcome :
        /\ clock' = clock + 1
        /\ mail' = Posted(Tell("cancel", d, Rider, "cancelled", clock + 1), o)
        /\ Updated(d, [ driver[d] EXCEPT
                          !.work = [op |-> "cancel", task |-> NoTask, acked |-> o = "acked"] ])
  BY DEF DriverCancel
<1>4. Tell("cancel", d, Rider, "cancelled", clock + 1) \in Message
  BY <1>2, Named DEF Tell, Message
<1>5. /\ mail \subseteq mail' /\ mail' \subseteq Message
      /\ \A m \in mail' : m \in mail \/ (m.type # "matched" /\ m.from \in Driver)
  BY <1>3, <1>4, PostedMail DEF DirectInv, Tell
<1>6. PICK w : w = [op |-> "cancel", task |-> NoTask, acked |-> o = "acked"]
  OBVIOUS
<1>7. w \in Work /\ w.op = "cancel"
  BY <1>6 DEF Work
<1>8. PICK app : app = [driver[d] EXCEPT !.work = w]
  OBVIOUS
<1>9. /\ app \in DriverApp /\ app.view = driver[d].view /\ app.stored = driver[d].stored
      /\ app.sub = driver[d].sub /\ app.work = w
  BY <1>1, <1>7, <1>8 DEF DriverApp
<1>10. Own(d, app)'
  <2>1. Own(d, app)
    BY <1>1, <1>7, <1>9 DEF Own
  <2> QED BY <1>5, <2>1, MoreMail
<1> QED BY <1>2, <1>3, <1>5, <1>6, <1>8, <1>9, <1>10, DriverStep
        DEF DriverCancel, DirectInv, TypeOK

LEMMA DriverCancelEndsInv ==
    ASSUME DirectInv, NEW d \in Driver, DriverCancelEnds(d)
    PROVE  DirectInv'
<1>1. driver[d] \in DriverApp /\ Own(d, driver[d]) /\ listed \subseteq Driver
  BY DEF DirectInv, TypeOK
<1>2. PICK to : to = IF Delivered(d) THEN Cleared(driver[d], FALSE) ELSE driver[d]
  OBVIOUS
<1>3. /\ to \in DriverApp
      /\ to = driver[d] \/ (to.view = NoTask /\ to.stored = NoTask /\ to.sub = FALSE)
  BY <1>1, <1>2 DEF DriverApp, Cleared
<1>4. PICK app : app = [to EXCEPT !.work = Idle]
  OBVIOUS
<1>5. /\ app \in DriverApp /\ app.view = to.view /\ app.stored = to.stored
      /\ app.sub = to.sub /\ app.work = Idle
  BY <1>3, <1>4 DEF DriverApp
<1>6. Own(d, app)
  BY <1>1, <1>3, <1>5 DEF Own
<1>7. Updated(d, app) /\ UNCHANGED <<listed, mail, clock>>
  BY <1>2, <1>4 DEF DriverCancelEnds
<1> QED BY <1>1, <1>5, <1>6, <1>7, SilentStep

\* A page that starts again goes by what it stored.
LEMMA DriverStartsInv ==
    ASSUME DirectInv, NEW d \in Driver, DriverReloads(d) \/ DriverRestarts(d)
    PROVE  DirectInv'
<1>1. /\ driver[d] \in DriverApp /\ Own(d, driver[d]) /\ Relisted(d) \subseteq Driver
      /\ driver[d].view # NoTask
  BY DEF DirectInv, TypeOK, Relisted, DriverReloads, DriverRestarts
<1>2. CASE DriverReloads(d)
  <2>1. PICK t : t = driver[d].stored
    OBVIOUS
  <2>2. t \in Task /\ t = driver[d].view
    BY <1>1, <1>2, <2>1 DEF DriverReloads, DriverApp
  <2>3. PICK fresh : fresh = [driver[d] EXCEPT !.work = Idle]
    OBVIOUS
  <2>4. /\ fresh \in DriverApp /\ fresh.view = t /\ fresh.stored = t /\ fresh.work = Idle
    BY <1>1, <2>1, <2>2, <2>3 DEF DriverApp
  <2>5. PICK app : app = IF t.status \in Terminal THEN Cleared(fresh, FALSE)
                         ELSE [fresh EXCEPT !.sub = Live(t), !.last = t.at]
    OBVIOUS
  <2>6. Updated(d, app) /\ listed' = Relisted(d) /\ UNCHANGED <<mail, clock>>
    BY <1>2, <2>1, <2>3, <2>5 DEF DriverReloads
  <2>7. /\ app \in DriverApp /\ app.work = Idle
        /\ \/ app.view = NoTask /\ app.stored = NoTask /\ ~app.sub
           \/ app.view = t /\ app.stored = t /\ (app.sub => Live(t))
    BY <2>2, <2>4, <2>5 DEF DriverApp, Cleared, Task, Live
  <2>8. Own(d, app)
    BY <1>1, <2>1, <2>2, <2>7 DEF Own, Live
  <2> QED BY <1>1, <2>6, <2>7, <2>8, SilentStep
<1>3. CASE DriverRestarts(d)
  <2>1. PICK app : app = [NoDrive EXCEPT !.stored = driver[d].stored]
    OBVIOUS
  <2>2. /\ app \in DriverApp /\ app.view = NoTask /\ app.stored = driver[d].stored
        /\ app.sub = FALSE /\ app.work = Idle
    BY <1>1, <2>1, Started DEF DriverApp, NoDrive
  <2>3. Own(d, app)
    BY <1>1, <2>2 DEF Own
  <2> QED BY <1>1, <1>3, <2>1, <2>2, <2>3, SilentStep DEF DriverRestarts
<1> QED BY <1>2, <1>3

-----------------------------------------------------------------------------
(* The steps of the rider's app.                                           *)

\* A rider's step that leaves what the relays hold to drivers.
LEMMA RiderStep ==
    ASSUME DirectInv, NEW app \in RiderApp, rider' = app, UNCHANGED <<clock, driver>>,
           announced' \in {"none", "open", "closed"}, listed' \subseteq Driver,
           mail \subseteq mail', mail' \subseteq Message,
           \A m \in mail' : m \in mail \/ m.type # "state",
           OneMatch', RiderWatches', Claims', NotYet'
    PROVE  DirectInv'
<1>1. TypeOK'
  BY DEF DirectInv, TypeOK
<1>2. ASSUME NEW d \in Driver PROVE Own(d, driver[d])'
  <2>1. PICK other : other = driver[d]
    OBVIOUS
  <2>2. Own(d, other)'
    BY <2>1, MoreMail DEF DirectInv
  <2> QED BY <2>1, <2>2 DEF Own
<1>3. DriversMove'
  BY DEF DirectInv, DriversMove
<1> QED BY <1>1, <1>2, <1>3 DEF DirectInv

\* One that tells nobody anything and closes nothing.
LEMMA RiderAlone ==
    ASSUME DirectInv, NEW app \in RiderApp, rider' = app,
           UNCHANGED <<announced, listed, mail, clock, driver>>,
           app.sub # "none" => app.view # NoTask /\ app.stored # NoTask,
           app.sub \in {"rendezvous", "both"} /\ ~app.claimed =>
             app.view # NoTask /\ app.view.provider = NoDriver,
           app.view # NoTask /\ app.view.provider = NoDriver =>
             rider.view # NoTask /\ rider.view.provider = NoDriver
    PROVE  DirectInv'
<1>1. OneMatch' /\ RiderWatches' /\ Claims' /\ NotYet'
  BY DEF DirectInv, OneMatch, RiderWatches, Claims, NotYet, Unmatched
<1> QED BY <1>1, RiderStep DEF DirectInv, TypeOK

LEMMA RequestInv ==
    ASSUME DirectInv, Request
    PROVE  DirectInv'
<1>1. rider \in RiderApp /\ mail \subseteq Message /\ Unmatched
  BY DEF DirectInv, TypeOK, Request, NotYet
<1>2. PICK app : app = [rider EXCEPT !.view = New, !.stored = New, !.sub = "rendezvous"]
  OBVIOUS
<1>3. app \in RiderApp /\ app.view = New /\ app.stored = New
  BY <1>1, <1>2, Tasks DEF RiderApp
<1>4. PICK to \in {app, rider} : rider' = to
  BY <1>2 DEF Request
<1>5. /\ to \in RiderApp /\ announced' = "open" /\ listed' = Driver
      /\ UNCHANGED <<mail, clock, driver>>
  BY <1>1, <1>3, <1>4 DEF Request
<1>6. OneMatch' /\ NotYet'
  BY <1>1, <1>5 DEF OneMatch, NotYet, Unmatched
<1>7. RiderWatches' /\ Claims'
  <2>1. CASE to = rider
    BY <1>4, <2>1 DEF DirectInv, RiderWatches, Claims
  <2>2. CASE to = app
    BY <1>3, <1>4, <2>2, Tasks DEF RiderWatches, Claims
  <2> QED BY <2>1, <2>2
<1> QED BY <1>1, <1>4, <1>5, <1>6, <1>7, RiderStep

\* The first accept claims the ride; the drivers told before are none.
LEMMA HearAcceptInv ==
    ASSUME DirectInv, NEW d \in Driver, HearAccept(d)
    PROVE  DirectInv'
<1>1. /\ rider \in RiderApp /\ mail \subseteq Message /\ listed \subseteq Driver
      /\ clock \in 0..MaxClock /\ announced \in {"none", "open", "closed"}
      /\ rider.sub \in {"rendezvous", "both"}
      /\ UNCHANGED <<listed, clock, driver>>
  BY DEF DirectInv, TypeOK, HearAccept
<1>2. CASE Refuses
  <2>1. PICK o \in Outcome :
          /\ mail' = Posted(Tell("rejected", Rider, d, "requested", clock), o)
          /\ UNCHANGED <<announced, rider>>
    BY <1>2 DEF HearAccept
  <2>2. Tell("rejected", Rider, d, "requested", clock) \in Message
    BY <1>1, Named DEF Tell, Message
  <2>3. /\ mail \subseteq mail' /\ mail' \subseteq Message
        /\ \A m \in mail' : m \in mail \/ m.type \notin {"state", "matched"}
    BY <2>1, <2>2, PostedMail DEF DirectInv, Tell
  <2>4. OneMatch' /\ RiderWatches' /\ Claims' /\ NotYet'
    BY <2>1, <2>3 DEF DirectInv, OneMatch, RiderWatches, Claims, NotYet, Unmatched
  <2> QED BY <1>1, <2>1, <2>3, <2>4, RiderStep
<1>3. CASE ~Refuses
  <2>1. PICK o \in Outcome :
          /\ mail' = Posted(Tell("matched", Rider, d, "en_route", clock), o)
          /\ announced' \in {"closed"} \cup Leftover
          /\ rider' = [ rider EXCEPT !.claimed = TRUE, !.view = MatchedTo(d),
                                     !.sub = "both", !.last = 0 ]
    BY <1>3 DEF HearAccept
  <2>2. PICK told : told = Tell("matched", Rider, d, "en_route", clock)
    OBVIOUS
  <2>3. told \in Message /\ told.type = "matched" /\ told.to = d
    BY <1>1, <2>2, Named DEF Tell, Message
  <2>4. /\ mail \subseteq mail' /\ mail' \subseteq Message
        /\ \A m \in mail' : m \in mail \/ m = told
    BY <2>1, <2>2, <2>3, PostedMail DEF DirectInv
  <2>5. Unmatched /\ rider.stored # NoTask
    BY <1>1, <1>3 DEF Refuses, DirectInv, Claims, NotYet, RiderWatches
  <2>6. PICK app : app = [ rider EXCEPT !.claimed = TRUE, !.view = MatchedTo(d),
                                        !.sub = "both", !.last = 0 ]
    OBVIOUS
  <2>7. /\ app \in RiderApp /\ app.claimed = TRUE /\ app.view = MatchedTo(d)
        /\ app.stored = rider.stored
    BY <1>1, <2>6, Tasks, Started DEF RiderApp
  <2>8. announced' \in {"open", "closed"}
    BY <2>1 DEF Leftover
  <2>9. OneMatch'
    BY <2>3, <2>4, <2>5 DEF OneMatch, Unmatched
  <2>10. RiderWatches' /\ Claims' /\ NotYet'
    BY <2>1, <2>5, <2>6, <2>7, <2>8, Tasks DEF RiderWatches, Claims, NotYet
  <2> QED BY <1>1, <2>1, <2>3, <2>4, <2>6, <2>7, <2>8, <2>9, <2>10, RiderStep
<1> QED BY <1>2, <1>3

LEMMA RiderSavesInv ==
    ASSUME DirectInv, RiderSaves \/ Resubscribe \/ RiderDone
    PROVE  DirectInv'
<1>1. rider \in RiderApp /\ UNCHANGED <<announced, listed, mail, clock, driver>>
  BY DEF DirectInv, TypeOK, RiderSaves, Resubscribe, RiderDone
<1>2. CASE RiderSaves
  <2>1. PICK app : app = [rider EXCEPT !.stored = rider.view]
    OBVIOUS
  <2>2. /\ app \in RiderApp /\ app.view = rider.view /\ app.stored = rider.view
        /\ app.sub = rider.sub /\ app.claimed = rider.claimed
    BY <1>1, <2>1 DEF RiderApp
  <2>3. rider' = app
    BY <1>2, <2>1 DEF RiderSaves
  <2> QED BY <1>1, <1>2, <2>2, <2>3, RiderAlone DEF RiderSaves, DirectInv, RiderWatches, Claims
<1>3. CASE Resubscribe
  <2>1. rider.view \in Task /\ rider.sub = "both"
    BY <1>1, <1>3 DEF Resubscribe, DirectInv, RiderWatches, RiderApp
  <2>2. PICK app : app = [rider EXCEPT !.sub = "participant", !.last = rider.view.at]
    OBVIOUS
  <2>3. /\ app \in RiderApp /\ app.view = rider.view /\ app.stored = rider.stored
        /\ app.sub = "participant"
    BY <1>1, <2>1, <2>2 DEF RiderApp, Task
  <2>4. rider' = app
    BY <1>3, <2>2 DEF Resubscribe
  <2>5. rider.view # NoTask /\ rider.stored # NoTask
    BY <2>1 DEF DirectInv, RiderWatches
  <2> QED BY <1>1, <2>3, <2>4, <2>5, RiderAlone
<1>4. CASE RiderDone
  <2>1. PICK app : app = Cleared(rider, "none")
    OBVIOUS
  <2>2. app \in RiderApp /\ app.view = NoTask /\ app.sub = "none"
    BY <1>1, <2>1 DEF RiderApp, Cleared
  <2>3. rider' = app
    BY <1>4, <2>1 DEF RiderDone
  <2> QED BY <1>1, <2>2, <2>3, RiderAlone
<1> QED BY <1>2, <1>3, <1>4

\* What the rider hears changes the task, never its driver.
LEMMA RiderHearsInv ==
    ASSUME DirectInv, NEW m \in mail, RiderHears(m)
    PROVE  DirectInv'
<1>1. /\ rider \in RiderApp /\ m \in Message /\ rider.sub \in {"both", "participant"}
      /\ rider.view # NoTask /\ rider.stored # NoTask /\ rider.view \in Task
      /\ UNCHANGED <<announced, listed, mail, clock, driver>>
  BY DEF DirectInv, TypeOK, RiderHears, RiderWatches, RiderApp
<1>2. PICK t : t = After(rider.view, m)
  OBVIOUS
<1>3. t \in Task /\ t.provider = rider.view.provider /\ t # NoTask
  BY <1>1, <1>2, AfterTask
<1>4. PICK sub \in {"none", rider.sub} :
        rider' = [rider EXCEPT !.view = t, !.last = m.at, !.sub = sub]
  <2>1. rider' = [ rider EXCEPT
                     !.view = t, !.last = m.at,
                     !.sub  = IF t.status \in Terminal \ {"cancelled"} THEN "none" ELSE @ ]
    BY <1>2 DEF RiderHears
  <2> QED BY <1>1, <2>1 DEF RiderApp
<1>5. PICK app : app = [rider EXCEPT !.view = t, !.last = m.at, !.sub = sub]
  OBVIOUS
<1>6. /\ app \in RiderApp /\ app.view = t /\ app.stored = rider.stored
      /\ app.sub = sub /\ app.claimed = rider.claimed
  BY <1>1, <1>3, <1>5 DEF RiderApp, Message
<1>7. rider' = app
  BY <1>4, <1>5
<1> QED BY <1>1, <1>3, <1>6, <1>7, RiderAlone DEF DirectInv, Claims

LEMMA RiderCancelInv ==
    ASSUME DirectInv, RiderCancel
    PROVE  DirectInv'
<1>1. /\ rider \in RiderApp /\ rider.stored \in Task /\ listed \subseteq Driver
      /\ mail \subseteq Message /\ clock \in 0..MaxClock
      /\ announced \in {"none", "open", "closed"}
      /\ UNCHANGED <<listed, driver>>
  BY DEF DirectInv, TypeOK, RiderCancel, RiderWatches, RiderApp
<1>2. PICK o \in Outcome :
        /\ IF rider.stored.provider # NoDriver
           THEN /\ clock < MaxClock
                /\ clock' = clock + 1
                /\ mail' = Posted(Tell("cancel", Rider, rider.stored.provider,
                                       "cancelled", clock + 1), o)
                /\ UNCHANGED announced
           ELSE /\ announced' = IF o = "lost" THEN announced ELSE "closed"
                /\ UNCHANGED <<mail, clock>>
        /\ rider' = [rider EXCEPT !.cancel = [acked |-> o = "acked"]]
  BY DEF RiderCancel
<1>3. PICK app : app = [rider EXCEPT !.cancel = [acked |-> o = "acked"]]
  OBVIOUS
<1>4. /\ app \in RiderApp /\ app.view = rider.view /\ app.stored = rider.stored
      /\ app.sub = rider.sub /\ app.claimed = rider.claimed
  BY <1>1, <1>3 DEF RiderApp
<1>5. rider' = app
  BY <1>2, <1>3
<1>6. /\ announced' \in {"none", "open", "closed"}
      /\ announced' = "none" => announced = "none"
  BY <1>1, <1>2
<1>7. /\ clock' \in 0..MaxClock /\ mail \subseteq mail' /\ mail' \subseteq Message
      /\ \A m \in mail' : m \in mail \/ m.type \notin {"state", "matched"}
  <2>1. CASE rider.stored.provider = NoDriver
    BY <1>1, <1>2, <2>1
  <2>2. CASE rider.stored.provider # NoDriver
    <3>1. clock + 1 \in 0..MaxClock /\ rider.stored.provider \in Driver
      BY <1>1, <1>2, <2>2, DirectAssumption DEF Task
    <3>2. PICK told : told = Tell("cancel", Rider, rider.stored.provider, "cancelled", clock + 1)
      OBVIOUS
    <3>3. told \in Message /\ told.type = "cancel"
      BY <3>1, <3>2, Named DEF Tell, Message
    <3> QED BY <1>2, <2>2, <3>1, <3>2, <3>3, PostedMail DEF DirectInv
  <2> QED BY <2>1, <2>2
<1>8. OneMatch' /\ RiderWatches' /\ Claims' /\ NotYet' /\ DriversMove'
  BY <1>4, <1>5, <1>6, <1>7
     DEF DirectInv, OneMatch, RiderWatches, Claims, NotYet, Unmatched, DriversMove
<1>9. TypeOK'
  BY <1>1, <1>4, <1>5, <1>6, <1>7 DEF DirectInv, TypeOK
<1>10. ASSUME NEW d \in Driver PROVE Own(d, driver[d])'
  <2>1. PICK other : other = driver[d]
    OBVIOUS
  <2>2. Own(d, other)'
    BY <1>7, <2>1, MoreMail DEF DirectInv
  <2> QED BY <1>1, <2>1, <2>2 DEF Own
<1> QED BY <1>8, <1>9, <1>10 DEF DirectInv

LEMMA RiderCancelEndsInv ==
    ASSUME DirectInv, RiderCancelEnds
    PROVE  DirectInv'
<1>1. rider \in RiderApp /\ UNCHANGED <<announced, listed, mail, clock, driver>>
  BY DEF DirectInv, TypeOK, RiderCancelEnds
<1>2. PICK to : to = IF rider.cancel.acked THEN Cleared(rider, "none") ELSE rider
  OBVIOUS
<1>3. to \in RiderApp /\ (to = rider \/ (to.view = NoTask /\ to.sub = "none"))
  BY <1>1, <1>2 DEF RiderApp, Cleared
<1>4. PICK app : app = [to EXCEPT !.cancel = Idle]
  OBVIOUS
<1>5. /\ app \in RiderApp /\ app.view = to.view /\ app.stored = to.stored
      /\ app.sub = to.sub /\ app.claimed = to.claimed
  BY <1>3, <1>4 DEF RiderApp
<1>6. rider' = app
  BY <1>2, <1>4 DEF RiderCancelEnds
<1>7. /\ app.sub # "none" => app.view # NoTask /\ app.stored # NoTask
      /\ app.sub \in {"rendezvous", "both"} /\ ~app.claimed =>
           app.view # NoTask /\ app.view.provider = NoDriver
      /\ app.view # NoTask /\ app.view.provider = NoDriver =>
           rider.view # NoTask /\ rider.view.provider = NoDriver
  BY <1>3, <1>5 DEF DirectInv, RiderWatches, Claims
<1> QED BY <1>1, <1>5, <1>6, <1>7, RiderAlone

\* A reloaded page has forgotten whom it claimed the ride for, but the task it
\* stored has not.
LEMMA RiderStartsInv ==
    ASSUME DirectInv, RiderReloads \/ RiderRestarts
    PROVE  DirectInv'
<1>1. /\ rider \in RiderApp /\ rider.view # NoTask
      /\ UNCHANGED <<announced, listed, mail, clock, driver>>
  BY DEF DirectInv, TypeOK, RiderReloads, RiderRestarts
<1>2. CASE RiderReloads
  <2>1. PICK t : t = rider.stored
    OBVIOUS
  <2>2. t \in Task /\ t = rider.view
    BY <1>1, <1>2, <2>1 DEF RiderReloads, RiderApp
  <2>3. PICK fresh : fresh = [rider EXCEPT !.claimed = FALSE, !.cancel = Idle]
    OBVIOUS
  <2>4. fresh \in RiderApp /\ fresh.view = t /\ fresh.stored = t
    BY <1>1, <2>1, <2>2, <2>3 DEF RiderApp
  <2>5. PICK app :
          app = IF t.status \in Terminal THEN Cleared(fresh, "none")
                ELSE [ fresh EXCEPT !.last = t.at,
                         !.sub = IF t.provider = NoDriver THEN "rendezvous" ELSE "participant" ]
    OBVIOUS
  <2>6. rider' = app
    BY <1>2, <2>1, <2>3, <2>5 DEF RiderReloads
  <2>7. /\ app \in RiderApp
        /\ \/ app.view = NoTask /\ app.sub = "none"
           \/ /\ app.view = t /\ app.stored = t
              /\ app.sub \in {"rendezvous", "both"} => t.provider = NoDriver
    BY <2>2, <2>4, <2>5 DEF RiderApp, Cleared, Task
  <2> QED BY <1>1, <2>1, <2>2, <2>6, <2>7, RiderAlone
<1>3. CASE RiderRestarts
  <2>1. PICK app : app = [NoRider EXCEPT !.stored = rider.stored]
    OBVIOUS
  <2>2. app \in RiderApp /\ app.view = NoTask /\ app.sub = "none"
    BY <1>1, <2>1, Started DEF RiderApp, NoRider
  <2>3. rider' = app
    BY <1>3, <2>1 DEF RiderRestarts
  <2> QED BY <1>1, <2>2, <2>3, RiderAlone
<1> QED BY <1>2, <1>3

-----------------------------------------------------------------------------
(* The invariant, and what follows from it.                                *)

LEMMA DirectInitInv == Init => DirectInv
<1> SUFFICES ASSUME Init PROVE DirectInv
  OBVIOUS
<1>1. rider = NoRider /\ driver = [d \in Driver |-> NoDrive] /\ mail = {}
  BY DEF Init
<1>2. NoRider \in RiderApp /\ NoDrive \in DriverApp
  BY Started DEF NoRider, NoDrive, RiderApp, DriverApp
<1>3. TypeOK
  BY <1>1, <1>2, Started DEF Init, TypeOK
<1>4. \A d \in Driver : Own(d, driver[d])
  BY <1>1 DEF Own, NoDrive
<1> QED
  BY <1>1, <1>3, <1>4
     DEF DirectInv, OneMatch, DriversMove, RiderWatches, Claims, NotYet, Unmatched, NoRider

LEMMA DirectNextInv == DirectInv /\ [Next]_vars => DirectInv'
<1> SUFFICES ASSUME DirectInv, [Next]_vars PROVE DirectInv'
  OBVIOUS
<1>1. CASE RiderNext
  BY <1>1, RequestInv, HearAcceptInv, RiderSavesInv, RiderHearsInv, RiderCancelInv,
     RiderCancelEndsInv, RiderStartsInv DEF RiderNext
<1>2. ASSUME NEW d \in Driver, DriverNext(d) PROVE DirectInv'
  BY <1>2, AskInv, AnswerInv, MoveInv, MoveEndsInv, DriverHearsInv, DriverCancelInv,
     DriverCancelEndsInv, DriverStartsInv DEF DriverNext
<1>3. CASE UNCHANGED vars
  BY <1>3 DEF vars, DirectInv, TypeOK, OneMatch, DriversMove, RiderWatches, Claims, NotYet,
              Unmatched, Own, Taken, Sent
<1> QED BY <1>1, <1>2, <1>3 DEF Next

LEMMA DirectIsSound == Spec => []DirectInv
BY DirectInitInv, DirectNextInv, PTL DEF Spec

\* Every record, message and app is of its type, for any drivers, faults and bound.
THEOREM DirectTypes == Spec => []TypeOK
<1>1. DirectInv => TypeOK
  BY DEF DirectInv
<1> QED BY <1>1, DirectIsSound, PTL

\* However many drivers accept, and whatever is lost, replayed or reloaded, no two of
\* them hold the ride at once (the claim in direct-coordination.ts).
THEOREM OneHoldsIt == Spec => []OneDriver
<1>1. DirectInv => OneDriver
  BY DEF DirectInv, OneDriver, Own, Taken, Live, OneMatch
<1> QED BY <1>1, DirectIsSound, PTL

\* A milestone that a driver's app shows was sent to the rider, whichever deliveries
\* failed (publishMessage and transitionDirectTask).
THEOREM MilestonesAreSent == Spec => []ShownIsSent
<1>1. DirectInv => ShownIsSent
  BY DEF DirectInv, ShownIsSent, Own, Sent
<1> QED BY <1>1, DirectIsSound, PTL

-----------------------------------------------------------------------------
(* What the rider is shown of the ride.                                    *)

\* The subscription in force lets nothing through that is older than what the
\* screen shows.
InOrder == rider.sub \in {"both", "participant"} => rider.last >= rider.view.at

\* The screen does not go back, while the ride goes on.
NotBack == Live(rider.view) /\ Live(rider.view') => rider.view'.at >= rider.view.at

\* A change of the rider's app that leaves the screen as it is, or clears it.
LEMMA ShownAsItWas ==
    ASSUME DirectInv, InOrder, NEW app \in RiderApp, rider' = app,
           \/ app.view = NoTask /\ app.sub = "none"
           \/ /\ app.view = rider.view
              /\ \/ app.sub = rider.sub /\ app.last = rider.last
                 \/ app.sub = "rendezvous"
                 \/ app.view # NoTask /\ app.last = app.view.at
    PROVE  InOrder' /\ NotBack
<1>1. app.view = NoTask \/ (app.view \in Task /\ app.view.at \in Nat)
  BY DirectAssumption DEF RiderApp, Task
<1> QED BY <1>1 DEF InOrder, NotBack, Live

LEMMA HearAcceptInOrder ==
    ASSUME DirectInv, InOrder, NEW d \in Driver, HearAccept(d)
    PROVE  InOrder' /\ NotBack
<1>1. rider \in RiderApp
  BY DEF DirectInv, TypeOK
<1>2. CASE Refuses
  <2>1. rider' = rider
    BY <1>2 DEF HearAccept
  <2> QED BY <1>1, <2>1, ShownAsItWas
<1>3. CASE ~Refuses
  <2>1. PICK app : app = [ rider EXCEPT !.claimed = TRUE, !.view = MatchedTo(d),
                                        !.sub = "both", !.last = 0 ]
    OBVIOUS
  <2>2. rider' = app
    BY <1>3, <2>1 DEF HearAccept
  <2>3. app.last = 0 /\ app.view.at = 0
    BY <1>1, <2>1, Tasks DEF RiderApp
  <2>4. ~Live(rider.view)
    BY <1>3 DEF HearAccept, Refuses, DirectInv, Claims, Live
  <2> QED BY <2>2, <2>3, <2>4 DEF InOrder, NotBack
<1> QED BY <1>2, <1>3

\* What the subscription lets through is newer than what is shown.
LEMMA RiderHearsInOrder ==
    ASSUME DirectInv, InOrder, NEW m \in mail, RiderHears(m)
    PROVE  InOrder' /\ NotBack
<1>1. /\ rider \in RiderApp /\ m \in Message /\ rider.view \in Task
      /\ m.at > rider.last /\ rider.last >= rider.view.at
  BY DEF DirectInv, TypeOK, RiderWatches, RiderApp, RiderHears, Passes, InOrder
<1>2. PICK t : t = After(rider.view, m)
  OBVIOUS
<1>3. t \in Task /\ t.at \in {rider.view.at, m.at}
  <2>1. CASE m.type = "state"
    BY <1>1, <1>2, <2>1, StampedTask DEF After, Message
  <2>2. CASE m.type # "state"
    BY <1>1, <1>2, <2>2, AfterTask
  <2> QED BY <2>1, <2>2
<1>4. PICK app : app = [ rider EXCEPT !.view = t, !.last = m.at,
                           !.sub  = IF t.status \in Terminal \ {"cancelled"}
                                    THEN "none" ELSE @ ]
  OBVIOUS
<1>5. rider' = app /\ app.view = t /\ app.last = m.at
  BY <1>1, <1>2, <1>4 DEF RiderHears, RiderApp
<1>6. rider.view.at \in Nat /\ m.at \in Nat /\ rider.last \in Nat
  BY <1>1, DirectAssumption DEF Task, Message, RiderApp
<1> QED BY <1>1, <1>3, <1>5, <1>6 DEF InOrder, NotBack

LEMMA RiderKeepsOrder ==
    ASSUME DirectInv, InOrder, RiderNext
    PROVE  InOrder' /\ NotBack
<1>1. rider \in RiderApp /\ rider.view \in Task \cup {NoTask}
  BY DEF DirectInv, TypeOK, RiderApp
<1>2. CASE Request
  <2>1. rider' = rider \/ rider' = [rider EXCEPT !.view = New, !.stored = New, !.sub = "rendezvous"]
    BY <1>2 DEF Request
  <2>2. CASE rider' = rider
    BY <1>1, <2>2, ShownAsItWas
  <2>3. CASE rider' = [rider EXCEPT !.view = New, !.stored = New, !.sub = "rendezvous"]
    <3>1. rider'.view = New /\ rider'.sub = "rendezvous"
      BY <1>1, <2>3 DEF RiderApp
    <3> QED BY <3>1, Tasks DEF InOrder, NotBack, Live
  <2> QED BY <2>1, <2>2, <2>3
<1>3. ASSUME NEW d \in Driver, HearAccept(d) PROVE InOrder' /\ NotBack
  BY <1>3, HearAcceptInOrder
<1>4. CASE RiderSaves
  <2>1. PICK app : app = [rider EXCEPT !.stored = rider.view]
    OBVIOUS
  <2>2. /\ app \in RiderApp /\ app.view = rider.view /\ app.sub = rider.sub
        /\ app.last = rider.last /\ rider' = app
    BY <1>1, <1>4, <2>1 DEF RiderApp, RiderSaves
  <2> QED BY <2>2, ShownAsItWas
<1>5. CASE Resubscribe
  <2>1. rider.view \in Task
    BY <1>1, <1>5 DEF Resubscribe, DirectInv, RiderWatches
  <2>2. PICK app : app = [rider EXCEPT !.sub = "participant", !.last = rider.view.at]
    OBVIOUS
  <2>3. /\ app \in RiderApp /\ app.view = rider.view /\ app.last = app.view.at /\ rider' = app
        /\ app.view # NoTask
    BY <1>1, <1>5, <2>1, <2>2, DirectAssumption DEF RiderApp, Resubscribe, Task
  <2> QED BY <2>3, ShownAsItWas
<1>6. ASSUME NEW m \in mail, RiderHears(m) PROVE InOrder' /\ NotBack
  BY <1>6, RiderHearsInOrder
<1>7. CASE RiderCancel
  <2>1. PICK o \in Outcome : rider' = [rider EXCEPT !.cancel = [acked |-> o = "acked"]]
    BY <1>7 DEF RiderCancel
  <2>2. PICK app : app = [rider EXCEPT !.cancel = [acked |-> o = "acked"]]
    OBVIOUS
  <2>3. /\ app \in RiderApp /\ app.view = rider.view /\ app.sub = rider.sub
        /\ app.last = rider.last
    BY <1>1, <2>2 DEF RiderApp
  <2> QED BY <2>1, <2>2, <2>3, ShownAsItWas
<1>8. CASE RiderCancelEnds \/ RiderDone
  <2>1. PICK to : to \in {rider, Cleared(rider, "none")}
                  /\ (rider' = to \/ rider' = [to EXCEPT !.cancel = Idle])
    BY <1>8 DEF RiderCancelEnds, RiderDone
  <2>2. to \in RiderApp /\ (to = rider \/ (to.view = NoTask /\ to.sub = "none"))
    BY <1>1, <2>1 DEF RiderApp, Cleared
  <2>3. PICK app : app \in {to, [to EXCEPT !.cancel = Idle]} /\ rider' = app
    BY <2>1
  <2>4. /\ app \in RiderApp /\ app.view = to.view /\ app.sub = to.sub /\ app.last = to.last
    BY <2>2, <2>3 DEF RiderApp
  <2> QED BY <2>2, <2>3, <2>4, ShownAsItWas
<1>9. CASE RiderReloads
  <2>1. rider.view \in Task /\ rider.stored = rider.view
    BY <1>1, <1>9 DEF RiderReloads
  <2>2. PICK fresh : fresh = [rider EXCEPT !.claimed = FALSE, !.cancel = Idle]
    OBVIOUS
  <2>3. fresh \in RiderApp /\ fresh.view = rider.view
    BY <1>1, <2>2 DEF RiderApp
  <2>4. PICK app :
          app = IF rider.stored.status \in Terminal THEN Cleared(fresh, "none")
                ELSE [ fresh EXCEPT !.last = rider.stored.at,
                         !.sub = IF rider.stored.provider = NoDriver
                                 THEN "rendezvous" ELSE "participant" ]
    OBVIOUS
  <2>5. rider' = app
    BY <1>9, <2>2, <2>4 DEF RiderReloads
  <2>6. /\ app \in RiderApp
        /\ \/ app.view = NoTask /\ app.sub = "none"
           \/ app.view = rider.view /\ app.view # NoTask /\ app.last = app.view.at
    BY <2>1, <2>3, <2>4, DirectAssumption DEF RiderApp, Cleared, Task
  <2> QED BY <2>5, <2>6, ShownAsItWas
<1>10. CASE RiderRestarts
  <2>1. PICK app : app = [NoRider EXCEPT !.stored = rider.stored]
    OBVIOUS
  <2>2. app \in RiderApp /\ app.view = NoTask /\ app.sub = "none" /\ rider' = app
    BY <1>1, <1>10, <2>1, Started DEF RiderApp, NoRider, RiderRestarts
  <2> QED BY <2>2, ShownAsItWas
<1> QED BY <1>2, <1>3, <1>4, <1>5, <1>6, <1>7, <1>8, <1>9, <1>10 DEF RiderNext

\* A driver's step leaves the rider's app alone.
LEMMA NextKeepsOrder == DirectInv /\ InOrder /\ [Next]_vars => InOrder' /\ NotBack
<1> SUFFICES ASSUME DirectInv, InOrder, [Next]_vars PROVE InOrder' /\ NotBack
  OBVIOUS
<1>1. CASE RiderNext
  BY <1>1, RiderKeepsOrder
<1>2. CASE ~RiderNext
  <2>1. rider' = rider
    <3>1. CASE UNCHANGED vars
      BY <3>1 DEF vars
    <3>2. ASSUME NEW d \in Driver, DriverNext(d) PROVE rider' = rider
      <4>1. Ask(d) \/ AskMatched(d) \/ AskFails(d) \/ DriverSaves(d) => rider' = rider
        BY DEF Ask, AskMatched, AskFails, DriverSaves, Updated
      <4>2. (\E s \in State : Move(d, s)) \/ MoveEnds(d) => rider' = rider
        BY DEF Move, MoveEnds, Updated
      <4>3. (\E m \in mail : DriverHears(d, m)) \/ DriverCancel(d) => rider' = rider
        BY DEF DriverHears, DriverCancel, Updated
      <4>4. DriverCancelEnds(d) \/ DriverDone(d) \/ DriverReloads(d) \/ DriverRestarts(d)
                => rider' = rider
        BY DEF DriverCancelEnds, DriverDone, DriverReloads, DriverRestarts, Updated
      <4> QED BY <3>2, <4>1, <4>2, <4>3, <4>4 DEF DriverNext
    <3> QED BY <1>2, <3>1, <3>2 DEF Next
  <2> QED BY <2>1, ShownAsItWas DEF DirectInv, TypeOK
<1> QED BY <1>1, <1>2

\* The milestones the rider is shown of a ride that goes on never step back, whatever
\* the relays replay or reorder and however often a page is reloaded: every
\* subscription starts from the milestone on the screen (lastAt in
\* direct-coordination.ts and in the participant subscription of ActiveTaskPage).
THEOREM NeverStepsBack == Spec => NeverOutdated
<1>1. Init => InOrder
  BY DEF Init, InOrder, NoRider
<1>2. DirectInv /\ InOrder /\ [Next]_vars
        => [Live(rider.view) /\ Live(rider.view') => rider.view'.at >= rider.view.at]_vars
  BY NextKeepsOrder DEF NotBack
<1> QED BY <1>1, <1>2, NextKeepsOrder, DirectIsSound, PTL DEF Spec, NeverOutdated

===============================================================================
