------------------------ MODULE TaskManager_proofs ------------------------
(***************************************************************************)
(* Proofs that the safety properties of TaskManager hold for every set of  *)
(* tasks, parties and domains and for every profile the assumptions admit. *)
(*                                                                         *)
(* IndexSound is not inductive: an index entry is sound when a task is     *)
(* evicted only because whatever indexed it was dropped before, by the     *)
(* cancellation or by the cleanup, and stayed dropped because an ended     *)
(* task is never accepted.  IInv says so.                                  *)
(*                                                                         *)
(* The last section is about the snapshots of a task on the relays: none   *)
(* is forgotten, and once nothing is left to publish some relay has the    *)
(* task as it last was.  SnapshotInv adds that what is in hand is this     *)
(* process's, and is there once.                                           *)
(***************************************************************************)
EXTENDS TaskManager, Snapshots, SequenceTheorems, FiniteSetTheorems, TLAPS

-----------------------------------------------------------------------------
(* The inductive invariant.                                                *)

\* A record is of its manager's domain.
OwnDomain ==
    \A d \in Domain, t \in Task : Has(d, t) => tasks[d][t].domain = d

\* completeTrip sets both timers and the cleanup fires first.
CleanupFirst == \A d \in Domain : cleanup[d] \subseteq eviction[d]

\* A task waiting for its eviction alone is in no index.
EvictedUnindexed ==
    \A d \in Domain : \A t \in eviction[d] \ cleanup[d] : \A p \in Party :
        requesterTasks[d][p] # t /\ providerTasks[d][p] # t

\* A record with a provider has left the initial state.
LeftInitial(r) == r.provider # NoParty => r.status # Profile[r.domain].initial

TakenIsNotInitial ==
    /\ \A d \in Domain, t \in Task : Has(d, t) => LeftInitial(tasks[d][t])
    /\ \A t \in Task : \A r \in saving[t] : LeftInitial(r)
    /\ \A t \in Task : rows[t] # NoTask => LeftInitial(rows[t])

IInv ==
    /\ TypeOK
    /\ OwnDomain
    /\ CleanupFirst
    /\ TimersOnEnded
    /\ EvictedUnindexed
    /\ IndexSound
    /\ TakenIsNotInitial
    /\ RideIndexComplete

-----------------------------------------------------------------------------
(* What the assumptions say, in the form the steps use.                    *)

\* What the table of a valid profile gives: the engine's named states and those the
\* rows lead to are states, and an end leads only to ends.
LEMMA Profiles ==
    ASSUME NEW d \in Domain
    PROVE  /\ Profile[d].initial \in State
           /\ Profile[d].matched \in State
           /\ Profile[d].completed \in State
           /\ Profile[d].cancelled \in State
           /\ Profile[d].completed \in Profile[d].terminal
           /\ Profile[d].cancelled \in Profile[d].terminal
           /\ Profile[d].initial \notin Profile[d].terminal
           /\ \A s \in State : Allowed(Profile[d], s) \subseteq State
           /\ \A s \in State : Profile[d].initial \notin Allowed(Profile[d], s)
           /\ \A s \in Profile[d].terminal :
                  Allowed(Profile[d], s) \subseteq Profile[d].terminal
  BY ProfileAssumption, TableAssumption DEF ValidProfile, Allowed

\* A server that has just started without a store satisfies the invariant.
THEOREM InitIInv == Init => IInv
  BY NullAssumption DEF Init, IInv, TypeOK, OwnDomain, CleanupFirst, TimersOnEnded,
     EvictedUnindexed, IndexSound, TakenIsNotInitial, RideIndexComplete, Has

\* A record written by Put over the record of the same parties.
LEMMA Rewritten ==
    ASSUME IInv, NEW t \in Task, Known(t), NEW r \in TaskRecord,
           r.domain = rideIndex[t],
           r.requester = tasks[rideIndex[t]][t].requester,
           r.provider = tasks[rideIndex[t]][t].provider,
           LeftInitial(r),
           IsTerminal(rideIndex[t], tasks[rideIndex[t]][t].status)
               => IsTerminal(rideIndex[t], r.status),
           Put(rideIndex[t], t, r),
           UNCHANGED <<requesterTasks, providerTasks, cleanup, eviction, rideIndex, rows>>
    PROVE  IInv'
  <1>. DEFINE d == rideIndex[t]
  <1>1. d \in Domain /\ Has(d, t)
    BY DEF IInv, TypeOK, Known
  <1>2. TypeOK'
    BY <1>1 DEF IInv, TypeOK, Put, Persist
  <1>3. \A e \in Domain, u \in Task :
            tasks'[e][u] = IF e = d /\ u = t THEN r ELSE tasks[e][u]
    BY <1>1 DEF IInv, TypeOK, Put
  <1>4. (OwnDomain /\ CleanupFirst /\ RideIndexComplete)'
    BY <1>1, <1>3, NullAssumption DEF IInv, OwnDomain, CleanupFirst, RideIndexComplete, Has
  <1>5. TimersOnEnded'
    BY <1>1, <1>3, NullAssumption DEF IInv, TypeOK, TimersOnEnded, Has, IsTerminal
  <1>6. EvictedUnindexed'
    BY DEF IInv, EvictedUnindexed
  <1>7. IndexSound'
    <2>. SUFFICES ASSUME NEW e \in Domain, NEW p \in Party, NEW u \in Task
                  PROVE  /\ requesterTasks[e][p] = u
                              => Has(e, u)' /\ tasks'[e][u].requester = p
                         /\ providerTasks[e][p] = u
                              => Has(e, u)' /\ tasks'[e][u].provider = p
      BY DEF IInv, TypeOK, IndexSound
    <2>. QED  BY <1>1, <1>3, NullAssumption DEF IInv, IndexSound, Has
  <1>8. TakenIsNotInitial'
    BY <1>1, <1>3 DEF IInv, TypeOK, TakenIsNotInitial, Has, LeftInitial, Put, Persist
  <1>. QED  BY <1>2, <1>4, <1>5, <1>6, <1>7, <1>8 DEF IInv

\* The record under a known id.
LEMMA KnownRecord ==
    ASSUME IInv, NEW t \in Task, Known(t)
    PROVE  /\ rideIndex[t] \in Domain
           /\ tasks[rideIndex[t]][t] \in TaskRecord
           /\ tasks[rideIndex[t]][t].domain = rideIndex[t]
           /\ LeftInitial(tasks[rideIndex[t]][t])
  BY DEF IInv, TypeOK, Known, Has, OwnDomain, TakenIsNotInitial

\* transitionTo, and the handlers that call it, keep the invariant.
LEMMA MoveToIInv ==
    ASSUME IInv, NEW t \in Task, NEW s, MoveTo(t, s)
    PROVE  IInv'
  <1>. DEFINE d == rideIndex[t]
              r == [tasks[d][t] EXCEPT !.status = s]
  <1>1. /\ d \in Domain /\ tasks[d][t] \in TaskRecord
        /\ tasks[d][t].domain = d
    BY KnownRecord DEF MoveTo
  <1>2. /\ s \in State
        /\ s # Profile[d].initial
        /\ IsTerminal(d, tasks[d][t].status) => IsTerminal(d, s)
    BY <1>1, Profiles DEF MoveTo, TaskRecord, IsTerminal
  <1>3. /\ r \in TaskRecord /\ r.domain = d /\ r.status = s
        /\ r.requester = tasks[d][t].requester
        /\ r.provider = tasks[d][t].provider
    BY <1>1, <1>2 DEF TaskRecord
  <1>4. LeftInitial(r)
    BY <1>2, <1>3 DEF LeftInitial
  <1>. HIDE DEF r
  <1>. QED  BY <1>2, <1>3, <1>4, Rewritten DEF MoveTo, r

\* Journey, location and rating updates, which leave the status alone, keep it.
LEMMA SameStatusIInv ==
    ASSUME IInv, NEW t \in Task,
           \/ \E f \in Fare : UpdateJourney(t, f)
           \/ UpdateProviderLocation(t)
           \/ \E role \in Role : RecordRating(t, role)
    PROVE  IInv'
  <1>. DEFINE d == rideIndex[t]
  <1>1. /\ Known(t)
        /\ UNCHANGED <<requesterTasks, providerTasks, cleanup, eviction, rideIndex, rows>>
    BY DEF UpdateJourney, UpdateProviderLocation, RecordRating
  <1>2. PICK r \in TaskRecord :
            /\ Put(d, t, r)
            /\ r.domain = tasks[d][t].domain /\ r.status = tasks[d][t].status
            /\ r.requester = tasks[d][t].requester
            /\ r.provider = tasks[d][t].provider
    <2>. tasks[d][t] \in TaskRecord
      BY <1>1, KnownRecord
    <2>1. CASE \E f \in Fare : UpdateJourney(t, f)
      <3>1. PICK f \in Fare : UpdateJourney(t, f)
        BY <2>1
      <3>2. [tasks[d][t] EXCEPT !.fare = f] \in TaskRecord
        BY DEF TaskRecord
      <3>. QED  BY <3>1, <3>2 DEF UpdateJourney, TaskRecord
    <2>2. CASE UpdateProviderLocation(t)
      BY <2>2 DEF UpdateProviderLocation
    <2>3. CASE \E role \in Role : RecordRating(t, role)
      <3>1. PICK role \in Role : RecordRating(t, role)
        BY <2>3
      <3>2. [tasks[d][t] EXCEPT !.rated = @ \cup {role}] \in TaskRecord
        BY DEF TaskRecord
      <3>. QED  BY <3>1, <3>2 DEF RecordRating, TaskRecord
    <2>. QED  BY <2>1, <2>2, <2>3
  <1>. QED  BY <1>1, <1>2, KnownRecord, Rewritten DEF LeftInitial

\* createTask keeps it, also under an id that was used before.
LEMMA CreateTaskIInv ==
    ASSUME IInv, NEW d \in Domain, NEW t \in Task, NEW p \in Party, NEW f \in Fare,
           CreateTask(d, t, p, f)
    PROVE  IInv'
  <1>. DEFINE r == [ domain |-> d, status |-> Profile[d].initial, requester |-> p,
                     provider |-> NoParty, fare |-> f, rated |-> {} ]
  <1>1. r \in TaskRecord /\ LeftInitial(r)
    BY Profiles DEF TaskRecord, LeftInitial
  <1>2. TypeOK'
    BY <1>1 DEF IInv, TypeOK, CreateTask, Put, Persist
  <1>3. \A e \in Domain, u \in Task :
            tasks'[e][u] = IF e = d /\ u = t THEN r ELSE tasks[e][u]
    BY DEF IInv, TypeOK, CreateTask, Put
  <1>4. ~Has(d, t)
    BY DEF CreateTask
  <1>5. r # NoTask /\ r.domain = d /\ r.requester = p
    BY <1>1, NullAssumption
  <1>6. \A e \in Domain, q \in Party :
            requesterTasks'[e][q] = IF e = d /\ q = p THEN t ELSE requesterTasks[e][q]
    BY DEF IInv, TypeOK, CreateTask
  <1>7. /\ UNCHANGED <<providerTasks, cleanup, eviction, rows>>
        /\ rideIndex' = [rideIndex EXCEPT ![t] = d]
    BY DEF CreateTask
  <1>8. t \notin eviction[d] /\ t \notin cleanup[d]
    BY <1>4 DEF IInv, TimersOnEnded
  <1>. HIDE DEF r
  <1>9. OwnDomain'
    BY <1>3, <1>5 DEF IInv, OwnDomain, Has
  <1>10. CleanupFirst'
    BY <1>7 DEF IInv, CleanupFirst
  <1>11. TimersOnEnded'
    BY <1>3, <1>7, <1>8 DEF IInv, TypeOK, TimersOnEnded, Has, IsTerminal
  <1>12. EvictedUnindexed'
    BY <1>6, <1>7, <1>8 DEF IInv, EvictedUnindexed
  <1>13. IndexSound'
    <2>. SUFFICES ASSUME NEW e \in Domain, NEW q \in Party, NEW u \in Task
                  PROVE  /\ requesterTasks'[e][q] = u
                              => Has(e, u)' /\ tasks'[e][u].requester = q
                         /\ providerTasks'[e][q] = u
                              => Has(e, u)' /\ tasks'[e][u].provider = q
      BY <1>2 DEF TypeOK, IndexSound
    <2>. QED  BY <1>3, <1>4, <1>5, <1>6, <1>7, NullAssumption DEF IInv, IndexSound, Has
  <1>14. TakenIsNotInitial'
    BY <1>1, <1>3, <1>7 DEF IInv, TypeOK, TakenIsNotInitial, Has, LeftInitial, CreateTask,
       Put, Persist, r
  <1>15. RideIndexComplete'
    BY <1>3, <1>7, NullAssumption DEF IInv, TypeOK, RideIndexComplete, Has
  <1>. QED  BY <1>2, <1>9, <1>10, <1>11, <1>12, <1>13, <1>14, <1>15 DEF IInv

\* The initial state is not an end, so no timer waits on the task.
LEMMA AcceptTaskIInv ==
    ASSUME IInv, NEW t \in Task, NEW p \in Party, AcceptTask(t, p)
    PROVE  IInv'
  <1>. DEFINE d == rideIndex[t]
              r == [tasks[d][t] EXCEPT !.status = Profile[d].matched, !.provider = p]
  <1>1. /\ d \in Domain /\ tasks[d][t] \in TaskRecord
        /\ tasks[d][t].domain = d /\ Has(d, t)
    BY KnownRecord DEF AcceptTask, Known
  <1>2. /\ tasks[d][t].status = Profile[d].initial
        /\ Profile[d].matched \in Allowed(Profile[d], Profile[d].initial)
        /\ Put(d, t, r)
        /\ providerTasks' = [providerTasks EXCEPT ![d][p] = t]
        /\ UNCHANGED <<requesterTasks, cleanup, eviction, rideIndex, rows>>
    BY DEF AcceptTask
  <1>3. Profile[d].matched # Profile[d].initial
    BY <1>1, <1>2, Profiles
  <1>4. /\ r \in TaskRecord /\ r.domain = d
        /\ r.requester = tasks[d][t].requester
        /\ r.provider = p
    BY <1>1, Profiles DEF TaskRecord
  <1>5. LeftInitial(r)
    BY <1>1, <1>3, <1>4 DEF LeftInitial, TaskRecord
  <1>6. t \notin eviction[d] /\ t \notin cleanup[d]
    BY <1>1, <1>2, Profiles DEF IInv, TimersOnEnded, IsTerminal
  <1>7. tasks[d][t].provider = NoParty
    BY <1>1, <1>2 DEF IInv, TakenIsNotInitial, LeftInitial
  <1>. HIDE DEF r
  <1>8. \A e \in Domain, u \in Task :
            tasks'[e][u] = IF e = d /\ u = t THEN r ELSE tasks[e][u]
    BY <1>1, <1>2 DEF IInv, TypeOK, Put
  <1>9. \A e \in Domain, q \in Party :
            providerTasks'[e][q] = IF e = d /\ q = p THEN t ELSE providerTasks[e][q]
    BY <1>1, <1>2 DEF IInv, TypeOK
  <1>10. r # NoTask
    BY <1>4, NullAssumption
  <1>11. TypeOK'
    BY <1>1, <1>2, <1>4 DEF IInv, TypeOK, Put, Persist
  <1>12. (OwnDomain /\ CleanupFirst)'
    BY <1>2, <1>4, <1>8, <1>10 DEF IInv, OwnDomain, CleanupFirst, Has
  <1>13. TimersOnEnded'
    BY <1>2, <1>6, <1>8 DEF IInv, TypeOK, TimersOnEnded, Has, IsTerminal
  <1>14. EvictedUnindexed'
    BY <1>2, <1>6, <1>9 DEF IInv, EvictedUnindexed
  <1>15. IndexSound'
    <2>. SUFFICES ASSUME NEW e \in Domain, NEW q \in Party, NEW u \in Task
                  PROVE  /\ requesterTasks'[e][q] = u
                              => Has(e, u)' /\ tasks'[e][u].requester = q
                         /\ providerTasks'[e][q] = u
                              => Has(e, u)' /\ tasks'[e][u].provider = q
      BY <1>11 DEF TypeOK, IndexSound
    <2>. QED  BY <1>1, <1>2, <1>4, <1>7, <1>8, <1>9, <1>10, NullAssumption
              DEF IInv, IndexSound, Has
  <1>16. TakenIsNotInitial'
    BY <1>2, <1>5, <1>8 DEF IInv, TypeOK, TakenIsNotInitial, Has, LeftInitial, Put, Persist
  <1>17. RideIndexComplete'
    BY <1>1, <1>2, <1>8 DEF IInv, RideIndexComplete, Has
  <1>. QED  BY <1>11, <1>12, <1>13, <1>14, <1>15, <1>16, <1>17 DEF IInv

\* completeTrip, with both timers it sets, keeps it.
LEMMA CompleteTripIInv ==
    ASSUME IInv, NEW t \in Task, CompleteTrip(t)
    PROVE  IInv'
  <1>. DEFINE d == rideIndex[t]
              r == [tasks[d][t] EXCEPT !.status = Profile[d].completed]
  <1>1. /\ d \in Domain /\ tasks[d][t] \in TaskRecord
        /\ tasks[d][t].domain = d /\ Has(d, t)
    BY KnownRecord DEF CompleteTrip, Known
  <1>2. /\ Profile[d].completed \in Allowed(Profile[d], tasks[d][t].status)
        /\ Put(d, t, r)
        /\ cleanup' = [cleanup EXCEPT ![d] = @ \cup {t}]
        /\ eviction' = [eviction EXCEPT ![d] = @ \cup {t}]
        /\ UNCHANGED <<requesterTasks, providerTasks, rideIndex, rows>>
    BY DEF CompleteTrip
  <1>3. /\ r \in TaskRecord /\ r.domain = d /\ r.status = Profile[d].completed
        /\ r.requester = tasks[d][t].requester
        /\ r.provider = tasks[d][t].provider
    BY <1>1, Profiles DEF TaskRecord
  <1>4. IsTerminal(d, r.status) /\ LeftInitial(r)
    BY <1>1, <1>3, Profiles DEF LeftInitial, IsTerminal
  <1>. HIDE DEF r
  <1>5. \A e \in Domain, u \in Task :
            tasks'[e][u] = IF e = d /\ u = t THEN r ELSE tasks[e][u]
    BY <1>1, <1>2 DEF IInv, TypeOK, Put
  <1>6. r # NoTask
    BY <1>3, NullAssumption
  <1>7. \A e \in Domain :
            /\ cleanup'[e] = IF e = d THEN cleanup[e] \cup {t} ELSE cleanup[e]
            /\ eviction'[e] = IF e = d THEN eviction[e] \cup {t} ELSE eviction[e]
    BY <1>1, <1>2 DEF IInv, TypeOK
  <1>8. TypeOK'
    BY <1>1, <1>2, <1>3 DEF IInv, TypeOK, Put, Persist
  <1>9. OwnDomain'
    BY <1>3, <1>5 DEF IInv, OwnDomain, Has
  <1>10. CleanupFirst'
    BY <1>7 DEF IInv, CleanupFirst
  <1>11. TimersOnEnded'
    <2>. SUFFICES ASSUME NEW e \in Domain, NEW u \in Task,
                         u \in cleanup'[e] \cup eviction'[e]
                  PROVE  tasks'[e][u] # NoTask /\ tasks'[e][u].status \in Profile[e].terminal
      BY <1>8 DEF TypeOK, TimersOnEnded, Has, IsTerminal
    <2>1. (e = d /\ u = t) \/ u \in cleanup[e] \cup eviction[e]
      BY <1>7
    <2>. QED  BY <2>1, <1>4, <1>5, <1>6 DEF IInv, TimersOnEnded, Has, IsTerminal
  <1>12. EvictedUnindexed'
    <2>. SUFFICES ASSUME NEW e \in Domain, NEW u \in eviction'[e] \ cleanup'[e]
                  PROVE  \A p \in Party :
                             requesterTasks[e][p] # u /\ providerTasks[e][p] # u
      BY <1>2 DEF EvictedUnindexed
    <2>1. u \in eviction[e] \ cleanup[e]
      BY <1>7
    <2>. QED  BY <2>1 DEF IInv, EvictedUnindexed
  <1>13. IndexSound'
    <2>. SUFFICES ASSUME NEW e \in Domain, NEW q \in Party, NEW u \in Task
                  PROVE  /\ requesterTasks[e][q] = u
                              => Has(e, u)' /\ tasks'[e][u].requester = q
                         /\ providerTasks[e][q] = u
                              => Has(e, u)' /\ tasks'[e][u].provider = q
      BY <1>2, <1>8 DEF TypeOK, IndexSound
    <2>. QED  BY <1>3, <1>5, <1>6, NullAssumption DEF IInv, IndexSound, Has
  <1>14. TakenIsNotInitial'
    BY <1>2, <1>4, <1>5 DEF IInv, TypeOK, TakenIsNotInitial, Has, LeftInitial, Put, Persist
  <1>15. RideIndexComplete'
    BY <1>1, <1>2, <1>5 DEF IInv, RideIndexComplete, Has
  <1>. QED  BY <1>8, <1>9, <1>10, <1>11, <1>12, <1>13, <1>14, <1>15 DEF IInv

\* Dropping a party's entry leaves the other entries, and no entry is added.
LEMMA Forgotten ==
    ASSUME NEW index \in [Domain -> [Party -> Task \cup {NoTask}]],
           NEW d \in Domain, NEW p \in Party \cup {NoParty}
    PROVE  /\ Forget(index, d, p) \in [Domain -> [Party -> Task \cup {NoTask}]]
           /\ \A e \in Domain, q \in Party :
                  Forget(index, d, p)[e][q] =
                      IF e = d /\ q = p THEN NoTask ELSE index[e][q]
  BY NullAssumption DEF Forget

\* cancelTask, which drops the index entries at once, keeps it.
LEMMA CancelTaskIInv ==
    ASSUME IInv, NEW t \in Task, CancelTask(t)
    PROVE  IInv'
  <1>. DEFINE d == rideIndex[t]
              was == tasks[d][t]
              r == [was EXCEPT !.status = Profile[d].cancelled]
  <1>1. /\ d \in Domain /\ was \in TaskRecord
        /\ was.domain = d /\ Has(d, t)
    BY KnownRecord DEF CancelTask, Known
  <1>2. /\ ~IsTerminal(d, was.status)
        /\ Put(d, t, r)
        /\ requesterTasks' = Forget(requesterTasks, d, was.requester)
        /\ providerTasks' = Forget(providerTasks, d, was.provider)
        /\ eviction' = [eviction EXCEPT ![d] = @ \cup {t}]
        /\ UNCHANGED <<cleanup, rideIndex, rows>>
    BY DEF CancelTask
  <1>3. /\ r \in TaskRecord /\ r.domain = d /\ r.status = Profile[d].cancelled
        /\ r.requester = was.requester
        /\ r.provider = was.provider
    BY <1>1, Profiles DEF TaskRecord
  <1>4. IsTerminal(d, r.status) /\ LeftInitial(r)
    BY <1>1, <1>3, Profiles DEF LeftInitial, IsTerminal
  <1>5. was.requester \in Party /\ was.provider \in Party \cup {NoParty}
    BY <1>1 DEF TaskRecord
  <1>. HIDE DEF r
  <1>6. \A e \in Domain, u \in Task :
            tasks'[e][u] = IF e = d /\ u = t THEN r ELSE tasks[e][u]
    BY <1>1, <1>2 DEF IInv, TypeOK, Put
  <1>7. r # NoTask
    BY <1>3, NullAssumption
  <1>8. \A e \in Domain : eviction'[e] = IF e = d THEN eviction[e] \cup {t} ELSE eviction[e]
    BY <1>1, <1>2 DEF IInv, TypeOK
  <1>9. /\ requesterTasks' \in [Domain -> [Party -> Task \cup {NoTask}]]
        /\ \A e \in Domain, q \in Party :
               requesterTasks'[e][q] =
                   IF e = d /\ q = was.requester THEN NoTask ELSE requesterTasks[e][q]
    BY <1>1, <1>2, <1>5, Forgotten DEF IInv, TypeOK
  <1>10. /\ providerTasks' \in [Domain -> [Party -> Task \cup {NoTask}]]
         /\ \A e \in Domain, q \in Party :
                providerTasks'[e][q] =
                    IF e = d /\ q = was.provider THEN NoTask ELSE providerTasks[e][q]
    <2>1. providerTasks \in [Domain -> [Party -> Task \cup {NoTask}]]
      BY DEF IInv, TypeOK
    <2>. HIDE DEF was
    <2>. QED  BY <2>1, <1>1, <1>2, <1>5, Forgotten
  <1>. HIDE DEF was
  <1>11. TypeOK'
    BY <1>1, <1>2, <1>3, <1>9, <1>10 DEF IInv, TypeOK, Put, Persist
  <1>12. OwnDomain'
    BY <1>3, <1>6 DEF IInv, OwnDomain, Has
  <1>13. CleanupFirst'
    BY <1>2, <1>8 DEF IInv, CleanupFirst
  <1>14. TimersOnEnded'
    <2>. SUFFICES ASSUME NEW e \in Domain, NEW u \in Task,
                         u \in cleanup'[e] \cup eviction'[e]
                  PROVE  tasks'[e][u] # NoTask /\ tasks'[e][u].status \in Profile[e].terminal
      BY <1>11 DEF TypeOK, TimersOnEnded, Has, IsTerminal
    <2>1. (e = d /\ u = t) \/ u \in cleanup[e] \cup eviction[e]
      BY <1>2, <1>8
    <2>. QED  BY <2>1, <1>4, <1>6, <1>7 DEF IInv, TimersOnEnded, Has, IsTerminal
  <1>15. IndexSound'
    <2>. SUFFICES ASSUME NEW e \in Domain, NEW q \in Party, NEW u \in Task
                  PROVE  /\ requesterTasks'[e][q] = u
                              => Has(e, u)' /\ tasks'[e][u].requester = q
                         /\ providerTasks'[e][q] = u
                              => Has(e, u)' /\ tasks'[e][u].provider = q
      BY <1>11 DEF TypeOK, IndexSound
    <2>. QED  BY <1>3, <1>6, <1>7, <1>9, <1>10, NullAssumption DEF IInv, IndexSound, Has, was
  <1>16. EvictedUnindexed'
    <2>. SUFFICES ASSUME NEW e \in Domain, NEW u \in eviction'[e] \ cleanup'[e], NEW q \in Party
                  PROVE  requesterTasks'[e][q] # u /\ providerTasks'[e][q] # u
      BY DEF EvictedUnindexed
    <2>1. u \in Task
      BY <1>11 DEF TypeOK
    <2>2. CASE e = d /\ u = t
      BY <2>2, <1>1, <1>9, <1>10, NullAssumption DEF IInv, IndexSound, was
    <2>3. CASE u \in eviction[e] \ cleanup[e]
      BY <2>1, <2>3, <1>9, <1>10, NullAssumption DEF IInv, EvictedUnindexed
    <2>. QED  BY <2>2, <2>3, <1>2, <1>8
  <1>17. TakenIsNotInitial'
    BY <1>2, <1>4, <1>6 DEF IInv, TypeOK, TakenIsNotInitial, Has, LeftInitial, Put, Persist
  <1>18. RideIndexComplete'
    BY <1>1, <1>2, <1>6 DEF IInv, RideIndexComplete, Has
  <1>. QED  BY <1>11, <1>12, <1>13, <1>14, <1>15, <1>16, <1>17, <1>18 DEF IInv

\* The five-minute cleanup of the index keeps it.
LEMMA CleanupFiresIInv ==
    ASSUME IInv, NEW d \in Domain, NEW t \in Task, CleanupFires(d, t)
    PROVE  IInv'
  <1>. DEFINE was == tasks[d][t]
  <1>1. /\ t \in cleanup[d]
        /\ cleanup' = [cleanup EXCEPT ![d] = @ \ {t}]
        /\ requesterTasks' = Forget(requesterTasks, d, was.requester)
        /\ providerTasks' = Forget(providerTasks, d, was.provider)
        /\ UNCHANGED <<tasks, eviction, rideIndex, saving, rows>>
    BY DEF CleanupFires
  <1>2. was.requester \in Party \cup {NoParty} /\ was.provider \in Party \cup {NoParty}
    BY <1>1 DEF IInv, TypeOK, TimersOnEnded, Has, TaskRecord
  <1>3. \A e \in Domain : cleanup'[e] = IF e = d THEN cleanup[e] \ {t} ELSE cleanup[e]
    BY <1>1 DEF IInv, TypeOK
  <1>4. /\ requesterTasks \in [Domain -> [Party -> Task \cup {NoTask}]]
        /\ providerTasks \in [Domain -> [Party -> Task \cup {NoTask}]]
    BY DEF IInv, TypeOK
  <1>. HIDE DEF was
  <1>5. /\ requesterTasks' \in [Domain -> [Party -> Task \cup {NoTask}]]
        /\ \A e \in Domain, q \in Party :
               requesterTasks'[e][q] =
                   IF e = d /\ q = was.requester THEN NoTask ELSE requesterTasks[e][q]
    <2>. DEFINE p == was.requester
    <2>1. p \in Party \cup {NoParty} /\ requesterTasks' = Forget(requesterTasks, d, p)
      BY <1>1, <1>2
    <2>. HIDE DEF p
    <2>2. /\ Forget(requesterTasks, d, p) \in [Domain -> [Party -> Task \cup {NoTask}]]
          /\ \A e \in Domain, q \in Party :
                 Forget(requesterTasks, d, p)[e][q] =
                     IF e = d /\ q = p THEN NoTask ELSE requesterTasks[e][q]
      BY <2>1, <1>4, Forgotten
    <2>. QED  BY <2>1, <2>2 DEF p
  <1>6. /\ providerTasks' \in [Domain -> [Party -> Task \cup {NoTask}]]
        /\ \A e \in Domain, q \in Party :
               providerTasks'[e][q] =
                   IF e = d /\ q = was.provider THEN NoTask ELSE providerTasks[e][q]
    BY <1>1, <1>2, <1>4, Forgotten
  <1>7. TypeOK'
    BY <1>1, <1>3, <1>5, <1>6 DEF IInv, TypeOK
  <1>8. (OwnDomain /\ TakenIsNotInitial /\ RideIndexComplete)'
    BY <1>1 DEF IInv, OwnDomain, TakenIsNotInitial, RideIndexComplete, Has
  <1>9. (CleanupFirst /\ TimersOnEnded)'
    BY <1>1, <1>3 DEF IInv, CleanupFirst, TimersOnEnded, Has
  <1>10. IndexSound'
    <2>. SUFFICES ASSUME NEW e \in Domain, NEW q \in Party, NEW u \in Task
                  PROVE  /\ requesterTasks'[e][q] = u
                              => Has(e, u)' /\ tasks'[e][u].requester = q
                         /\ providerTasks'[e][q] = u
                              => Has(e, u)' /\ tasks'[e][u].provider = q
      BY <1>7 DEF TypeOK, IndexSound
    <2>. QED  BY <1>1, <1>5, <1>6, NullAssumption DEF IInv, IndexSound, Has
  <1>11. EvictedUnindexed'
    <2>. SUFFICES ASSUME NEW e \in Domain, NEW u \in eviction'[e] \ cleanup'[e], NEW q \in Party
                  PROVE  requesterTasks'[e][q] # u /\ providerTasks'[e][q] # u
      BY DEF EvictedUnindexed
    <2>1. u \in Task
      BY <1>7 DEF TypeOK
    <2>2. CASE e = d /\ u = t
      BY <2>2, <1>5, <1>6, NullAssumption DEF IInv, IndexSound, was
    <2>3. CASE u \in eviction[e] \ cleanup[e]
      BY <2>1, <2>3, <1>5, <1>6, NullAssumption DEF IInv, EvictedUnindexed
    <2>. QED  BY <2>2, <2>3, <1>1, <1>3
  <1>. QED  BY <1>7, <1>8, <1>9, <1>10, <1>11 DEF IInv

\* The eviction of a task's record keeps it: no entry names the task any more.
LEMMA EvictionFiresIInv ==
    ASSUME IInv, NEW d \in Domain, NEW t \in Task, EvictionFires(d, t)
    PROVE  IInv'
  <1>1. /\ t \in eviction[d] \ cleanup[d]
        /\ eviction' = [eviction EXCEPT ![d] = @ \ {t}]
        /\ tasks' = [tasks EXCEPT ![d][t] = NoTask]
        /\ UNCHANGED <<requesterTasks, providerTasks, cleanup, rideIndex, saving, rows>>
    BY DEF EvictionFires
  <1>2. \A e \in Domain, u \in Task :
            tasks'[e][u] = IF e = d /\ u = t THEN NoTask ELSE tasks[e][u]
    BY <1>1 DEF IInv, TypeOK
  <1>3. \A e \in Domain : eviction'[e] = IF e = d THEN eviction[e] \ {t} ELSE eviction[e]
    BY <1>1 DEF IInv, TypeOK
  <1>4. TypeOK'
    BY <1>1 DEF IInv, TypeOK
  <1>5. (OwnDomain /\ TakenIsNotInitial /\ RideIndexComplete)'
    BY <1>1, <1>2 DEF IInv, OwnDomain, TakenIsNotInitial, RideIndexComplete, Has
  <1>6. CleanupFirst'
    BY <1>1, <1>3 DEF IInv, CleanupFirst
  <1>7. TimersOnEnded'
    BY <1>1, <1>2, <1>3 DEF IInv, TypeOK, CleanupFirst, TimersOnEnded, Has, IsTerminal
  <1>8. EvictedUnindexed'
    BY <1>1, <1>3 DEF IInv, EvictedUnindexed
  <1>9. IndexSound'
    <2>. SUFFICES ASSUME NEW e \in Domain, NEW q \in Party, NEW u \in Task
                  PROVE  /\ requesterTasks[e][q] = u
                              => Has(e, u)' /\ tasks'[e][u].requester = q
                         /\ providerTasks[e][q] = u
                              => Has(e, u)' /\ tasks'[e][u].provider = q
      BY <1>1, <1>4 DEF TypeOK, IndexSound
    <2>. QED  BY <1>1, <1>2, NullAssumption DEF IInv, IndexSound, EvictedUnindexed, Has
  <1>. QED  BY <1>4, <1>5, <1>6, <1>7, <1>8, <1>9 DEF IInv

\* A save that lands or fails changes nothing the invariant speaks of but the rows.
LEMMA SavesIInv ==
    ASSUME IInv, NEW t \in Task, NEW r \in saving[t],
           SaveLands(t, r) \/ SaveFails(t, r)
    PROVE  IInv'
  <1>1. /\ UNCHANGED memory
        /\ saving' = [saving EXCEPT ![t] = @ \ {r}]
        /\ rows' = rows \/ rows' = [rows EXCEPT ![t] = r]
    BY DEF SaveLands, SaveFails
  <1>2. r \in TaskRecord /\ LeftInitial(r)
    BY DEF IInv, TypeOK, TakenIsNotInitial
  <1>3. /\ saving' \in [Task -> SUBSET TaskRecord]
        /\ \A u \in Task : saving'[u] \subseteq saving[u]
    BY <1>1 DEF IInv, TypeOK
  <1>4. /\ rows' \in [Task -> TaskRecord \cup {NoTask}]
        /\ \A u \in Task : rows'[u] = rows[u] \/ rows'[u] = r
    BY <1>1, <1>2 DEF IInv, TypeOK
  <1>5. TypeOK'
    BY <1>1, <1>3, <1>4 DEF IInv, TypeOK, memory
  <1>6. TakenIsNotInitial'
    BY <1>1, <1>2, <1>3, <1>4 DEF IInv, TakenIsNotInitial, LeftInitial, Has, memory
  <1>. QED  BY <1>1, <1>5, <1>6
            DEF IInv, OwnDomain, CleanupFirst, TimersOnEnded, EvictedUnindexed, IndexSound,
                RideIndexComplete, Has, memory

\* A restart keeps it: records come from rows, and the indexes are filled from the
\* tasks of a party found there, the one loaded last winning.
LEMMA RestartIInv ==
    ASSUME IInv, Restart
    PROVE  IInv'
  <1>1. PICK last \in LoadOrder :
            /\ requesterTasks' = [d \in Domain |-> [p \in Party |->
                   last[{t \in Task : /\ Active(t)
                                      /\ rows[t].domain = d
                                      /\ rows[t].requester = p}]]]
            /\ providerTasks' = [d \in Domain |-> [p \in Party |->
                   last[{t \in Task : /\ Active(t)
                                      /\ rows[t].domain = d
                                      /\ rows[t].provider = p}]]]
    BY DEF Restart
  <1>2. /\ tasks' = [d \in Domain |-> [t \in Task |->
               IF Active(t) /\ rows[t].domain = d THEN rows[t] ELSE NoTask]]
        /\ cleanup' = [d \in Domain |-> {}]
        /\ eviction' = [d \in Domain |-> {}]
        /\ rideIndex' = [t \in Task |-> HydratedIndex(t)]
        /\ saving' = [t \in Task |-> {}]
        /\ rows' = rows
    BY DEF Restart
  <1>3. \A t \in Task : Active(t) => rows[t] \in TaskRecord /\ rows[t].domain \in Domain
    BY DEF IInv, TypeOK, Active, TaskRecord
  <1>4. \A set \in SUBSET Task : last[set] \in Task \cup {NoTask}
    BY DEF LoadOrder
  <1>5. \A set \in SUBSET Task : last[set] # NoTask => last[set] \in set
    BY DEF LoadOrder
  <1>6. TypeOK'
    <2>1. /\ requesterTasks' \in [Domain -> [Party -> Task \cup {NoTask}]]
          /\ providerTasks' \in [Domain -> [Party -> Task \cup {NoTask}]]
      BY <1>1, <1>4
    <2>2. tasks' \in [Domain -> [Task -> TaskRecord \cup {NoTask}]]
      BY <1>2, <1>3
    <2>3. rideIndex' \in [Task -> Domain \cup {NoDomain}]
      BY <1>2, <1>3 DEF HydratedIndex
    <2>. QED  BY <1>2, <2>1, <2>2, <2>3 DEF IInv, TypeOK
  <1>7. \A d \in Domain, t \in Task :
            tasks'[d][t] = IF Active(t) /\ rows[t].domain = d THEN rows[t] ELSE NoTask
    BY <1>2
  <1>8. OwnDomain'
    BY <1>7 DEF OwnDomain, Has
  <1>9. (CleanupFirst /\ TimersOnEnded /\ EvictedUnindexed)'
    BY <1>2 DEF CleanupFirst, TimersOnEnded, EvictedUnindexed
  <1>10. TakenIsNotInitial'
    BY <1>2, <1>7 DEF IInv, TakenIsNotInitial, Has, LeftInitial
  <1>11. RideIndexComplete'
    BY <1>2, <1>3, <1>7, NullAssumption DEF RideIndexComplete, Has, HydratedIndex
  <1>12. IndexSound'
    <2>. SUFFICES ASSUME NEW d \in Domain, NEW p \in Party, NEW u \in Task
                  PROVE  /\ requesterTasks'[d][p] = u
                              => Has(d, u)' /\ tasks'[d][u].requester = p
                         /\ providerTasks'[d][p] = u
                              => Has(d, u)' /\ tasks'[d][u].provider = p
      BY <1>6 DEF TypeOK, IndexSound
    <2>. DEFINE asRequester == {t \in Task : /\ Active(t)
                                            /\ rows[t].domain = d
                                            /\ rows[t].requester = p}
                asProvider == {t \in Task : /\ Active(t)
                                           /\ rows[t].domain = d
                                           /\ rows[t].provider = p}
    <2>1. requesterTasks'[d][p] = last[asRequester] /\ providerTasks'[d][p] = last[asProvider]
      BY <1>1
    <2>2. /\ last[asRequester] # NoTask => last[asRequester] \in asRequester
          /\ last[asProvider] # NoTask => last[asProvider] \in asProvider
      BY <1>5
    <2>3. u \in asRequester => Has(d, u)' /\ tasks'[d][u].requester = p
      BY <1>3, <1>7, NullAssumption DEF Has
    <2>4. u \in asProvider => Has(d, u)' /\ tasks'[d][u].provider = p
      BY <1>3, <1>7, NullAssumption DEF Has
    <2>. HIDE DEF asRequester, asProvider
    <2>. QED  BY <2>1, <2>2, <2>3, <2>4, NullAssumption
  <1>. QED  BY <1>6, <1>8, <1>9, <1>10, <1>11, <1>12 DEF IInv

\* Every step of the engine keeps the invariant.
LEMMA NextIInv == IInv /\ [Next]_vars => IInv'
  <1>. SUFFICES ASSUME IInv, [Next]_vars
                PROVE  IInv'
    OBVIOUS
  <1>1. CASE \E d \in Domain, t \in Task, p \in Party, f \in Fare : CreateTask(d, t, p, f)
    BY <1>1, CreateTaskIInv
  <1>2. CASE \E t \in Task, p \in Party : AcceptTask(t, p)
    BY <1>2, AcceptTaskIInv
  <1>3. CASE \E t \in Task : StartEnRoute(t) \/ ArriveAtPickup(t) \/ StartTrip(t)
    BY <1>3, MoveToIInv DEF StartEnRoute, ArriveAtPickup, StartTrip
  <1>4. CASE \E t \in Task, s \in State : TransitionTo(t, s)
    BY <1>4, MoveToIInv DEF TransitionTo
  <1>5. CASE \E t \in Task : CompleteTrip(t)
    BY <1>5, CompleteTripIInv
  <1>6. CASE \E t \in Task : CancelTask(t)
    BY <1>6, CancelTaskIInv
  <1>7. CASE \E t \in Task : \/ \E f \in Fare : UpdateJourney(t, f)
                             \/ UpdateProviderLocation(t)
                             \/ \E role \in Role : RecordRating(t, role)
    BY <1>7, SameStatusIInv
  <1>8. CASE \E d \in Domain, t \in Task : CleanupFires(d, t)
    BY <1>8, CleanupFiresIInv
  <1>9. CASE \E d \in Domain, t \in Task : EvictionFires(d, t)
    BY <1>9, EvictionFiresIInv
  <1>10. CASE \E t \in Task : \E r \in saving[t] : SaveLands(t, r) \/ SaveFails(t, r)
    BY <1>10, SavesIInv
  <1>11. CASE Restart
    BY <1>11, RestartIInv
  <1>12. CASE UNCHANGED vars
    BY <1>12 DEF vars, IInv, TypeOK, OwnDomain, CleanupFirst, TimersOnEnded, EvictedUnindexed,
       IndexSound, TakenIsNotInitial, RideIndexComplete, Has, LeftInitial
  <1>. QED
    BY <1>1, <1>2, <1>3, <1>4, <1>5, <1>6, <1>7, <1>8, <1>9, <1>10, <1>11, <1>12
    DEF Next, Operate

\* The invariant holds whatever the operations, timers, saves and restarts do.
THEOREM Invariance == Spec => []IInv
  <1>. QED  BY InitIInv, NextIInv, PTL DEF Spec

-----------------------------------------------------------------------------
(* The properties.                                                         *)

\* The maps, timers and rows always hold what the code's types say.
THEOREM TypeCorrect == Spec => []TypeOK
  <1>1. IInv => TypeOK
    BY DEF IInv
  <1>. QED  BY <1>1, Invariance, PTL

\* getTaskByRequester and getTaskByProvider never answer with a stranger's or
\* an evicted task, however requests, ends, cleanups, evictions and restarts
\* follow each other.
THEOREM IndexesSound == Spec => []IndexSound
  <1>1. IInv => IndexSound
    BY DEF IInv
  <1>. QED  BY <1>1, Invariance, PTL

\* No retention timer is ever set on a live task.
THEOREM TimersWaitOnEnded == Spec => []TimersOnEnded
  <1>1. IInv => TimersOnEnded
    BY DEF IInv
  <1>. QED  BY <1>1, Invariance, PTL

\* The facade's cache knows every id a manager holds, after a restart too.
THEOREM FacadeComplete == Spec => []RideIndexComplete
  <1>1. IInv => RideIndexComplete
    BY DEF IInv
  <1>. QED  BY <1>1, Invariance, PTL

\* What a step does to the record under an id, other than by Restart.
LEMMA RecordStep ==
    ASSUME IInv, Next, ~Restart, NEW d \in Domain, NEW t \in Task,
           Has(d, t), tasks'[d][t] # NoTask
    PROVE  LET was == tasks[d][t]
               now == tasks'[d][t]
           IN  \/ now.status = was.status /\ now.provider = was.provider
               \/ now.status \in Allowed(Profile[d], was.status) /\ now.provider = was.provider
               \/ now.status = Profile[d].cancelled /\ now.provider = was.provider
               \/ was.status = Profile[d].initial
  <1>. DEFINE was == tasks[d][t]
              now == tasks'[d][t]
              Goal == \/ now.status = was.status /\ now.provider = was.provider
                      \/ now.status \in Allowed(Profile[d], was.status) /\ now.provider = was.provider
                      \/ now.status = Profile[d].cancelled /\ now.provider = was.provider
                      \/ was.status = Profile[d].initial
  <1>. SUFFICES Goal
    OBVIOUS
  <1>1. was \in TaskRecord
    BY DEF IInv, TypeOK, Has
  <1>2. ASSUME NEW u \in Task, NEW r, NEW e \in Domain, Put(e, u, r)
        PROVE  now = IF e = d /\ u = t THEN r ELSE was
    BY <1>2 DEF IInv, TypeOK, Put
  <1>3. ASSUME NEW u \in Task, Known(u)
        PROVE  rideIndex[u] \in Domain
    BY <1>3, KnownRecord
  <1>4. CASE \E e \in Domain, u \in Task, p \in Party, f \in Fare : CreateTask(e, u, p, f)
    BY <1>4, <1>2 DEF CreateTask
  <1>5. CASE \E u \in Task, p \in Party : AcceptTask(u, p)
    BY <1>5, <1>2, <1>3 DEF AcceptTask
  <1>6. ASSUME NEW u \in Task, NEW s, MoveTo(u, s)
        PROVE  Goal
    BY <1>6, <1>1, <1>2, <1>3 DEF MoveTo, TaskRecord
  <1>7. CASE \E u \in Task : StartEnRoute(u) \/ ArriveAtPickup(u) \/ StartTrip(u)
    BY <1>7, <1>6 DEF StartEnRoute, ArriveAtPickup, StartTrip
  <1>8. CASE \E u \in Task, s \in State : TransitionTo(u, s)
    BY <1>8, <1>6 DEF TransitionTo
  <1>9. CASE \E u \in Task : CompleteTrip(u)
    BY <1>9, <1>1, <1>2, <1>3 DEF CompleteTrip, TaskRecord
  <1>10. CASE \E u \in Task : CancelTask(u)
    BY <1>10, <1>1, <1>2, <1>3 DEF CancelTask, TaskRecord
  <1>11. CASE \E u \in Task, f \in Fare : UpdateJourney(u, f)
    BY <1>11, <1>1, <1>2, <1>3 DEF UpdateJourney, TaskRecord
  <1>12. CASE \E u \in Task : UpdateProviderLocation(u)
    BY <1>12, <1>1, <1>2, <1>3 DEF UpdateProviderLocation
  <1>13. CASE \E u \in Task, role \in Role : RecordRating(u, role)
    BY <1>13, <1>1, <1>2, <1>3 DEF RecordRating, TaskRecord
  <1>14. CASE \E e \in Domain, u \in Task : CleanupFires(e, u)
    BY <1>14 DEF CleanupFires
  <1>15. CASE \E e \in Domain, u \in Task : EvictionFires(e, u)
    BY <1>15 DEF IInv, TypeOK, EvictionFires
  <1>16. CASE \E u \in Task : \E r \in saving[u] : SaveLands(u, r) \/ SaveFails(u, r)
    BY <1>16 DEF SaveLands, SaveFails, memory
  <1>. HIDE DEF Goal
  <1>. QED
    BY <1>4, <1>5, <1>7, <1>8, <1>9, <1>10, <1>11, <1>12, <1>13, <1>14, <1>15, <1>16
    DEF Next, Operate

\* An ended task does not come back to life while the process runs.
THEOREM EndIsKept == Spec => EndedStaysEnded
  <1>. DEFINE Step == \A d \in Domain, t \in Task :
                  Has(d, t) /\ IsTerminal(d, tasks[d][t].status) /\ tasks'[d][t] # NoTask
                      => \/ IsTerminal(d, tasks'[d][t].status)
                         \/ Restart
  <1>1. IInv /\ [Next]_vars => [Step]_vars
    <2>. SUFFICES ASSUME IInv, Next, ~Restart, NEW d \in Domain, NEW t \in Task,
                         Has(d, t), IsTerminal(d, tasks[d][t].status), tasks'[d][t] # NoTask
                  PROVE  IsTerminal(d, tasks'[d][t].status)
      OBVIOUS
    <2>. QED  BY RecordStep, Profiles DEF IsTerminal
  <1>. QED  BY <1>1, Invariance, PTL DEF Spec, EndedStaysEnded

\* A provider once on a task stays its provider while the process runs.
THEOREM ProviderIsKept == Spec => ProviderKept
  <1>. DEFINE Step == \A d \in Domain, t \in Task :
                  Has(d, t) /\ tasks[d][t].provider # NoParty /\ tasks'[d][t] # NoTask
                      => \/ tasks'[d][t].provider = tasks[d][t].provider
                         \/ Restart
  <1>1. IInv /\ [Next]_vars => [Step]_vars
    <2>. SUFFICES ASSUME IInv, Next, ~Restart, NEW d \in Domain, NEW t \in Task,
                         Has(d, t), tasks[d][t].provider # NoParty, tasks'[d][t] # NoTask
                  PROVE  tasks'[d][t].provider = tasks[d][t].provider
      OBVIOUS
    <2>1. tasks[d][t].status # Profile[d].initial
      BY DEF IInv, TakenIsNotInitial, OwnDomain, LeftInitial
    <2>. QED  BY <2>1, RecordStep
  <1>. QED  BY <1>1, Invariance, PTL DEF Spec, ProviderKept

-----------------------------------------------------------------------------
(* The snapshots on the relays.                                            *)

\* A list without its i-th entry.
Without(list, i) == SubSeq(list, 1, i - 1) \o SubSeq(list, i + 1, Len(list))

LEMMA WithoutOne ==
    ASSUME NEW S, NEW list \in Seq(S), NEW i \in 1..Len(list)
    PROVE  /\ Without(list, i) \in Seq(S) /\ Len(Without(list, i)) = Len(list) - 1
           /\ DOMAIN Without(list, i) = 1..(Len(list) - 1)
           /\ \A k \in 1..(Len(list) - 1) :
                Without(list, i)[k] = list[IF k < i THEN k ELSE k + 1]
<1>0. PICK rest : rest = Without(list, i)
  OBVIOUS
<1>1. Len(list) \in Nat /\ \A k \in 1..Len(list) : list[k] \in S
  BY LenProperties, ElementOfSeq
<1>2. PICK front, back : /\ front = SubSeq(list, 1, i - 1)
                         /\ back = SubSeq(list, i + 1, Len(list))
  OBVIOUS
<1>3. /\ front \in Seq(S) /\ Len(front) = i - 1
      /\ \A k \in 1..(i - 1) : front[k] = list[k]
  BY <1>1, <1>2, SubSeqProperties
<1>4. /\ back \in Seq(S) /\ Len(back) = Len(list) - i
      /\ \A k \in 1..(Len(list) - i) : back[k] = list[i + k]
  BY <1>1, <1>2, SubSeqProperties
<1>5. /\ rest \in Seq(S) /\ Len(rest) = Len(list) - 1
      /\ \A k \in 1..(Len(list) - 1) :
           rest[k] = IF k <= i - 1 THEN front[k] ELSE back[k - (i - 1)]
  <2>1. /\ front \o back \in Seq(S)
        /\ Len(front \o back) = Len(front) + Len(back)
        /\ \A k \in 1..(Len(front) + Len(back)) :
             (front \o back)[k] = IF k <= Len(front) THEN front[k] ELSE back[k - Len(front)]
    BY <1>3, <1>4, ConcatProperties
  <2>2. rest = front \o back
    BY <1>0, <1>2 DEF Without
  <2>3. Len(front) + Len(back) = Len(list) - 1 /\ Len(front) = i - 1
    BY <1>1, <1>3, <1>4
  <2>4. rest \in Seq(S) /\ Len(rest) = Len(list) - 1
    BY <2>1, <2>2, <2>3
  <2>5. ASSUME NEW k \in 1..(Len(list) - 1)
        PROVE  rest[k] = IF k <= i - 1 THEN front[k] ELSE back[k - (i - 1)]
    BY <2>1, <2>2, <2>3
  <2> QED BY <2>4, <2>5
<1>6. DOMAIN rest = 1..(Len(list) - 1)
  BY <1>5, LenProperties
<1>7. ASSUME NEW k \in 1..(Len(list) - 1)
      PROVE  rest[k] = list[IF k < i THEN k ELSE k + 1]
  <2>1. CASE k < i
    <3>1. k <= i - 1 /\ k \in 1..(i - 1)
      BY <1>1, <2>1
    <3>2. rest[k] = front[k]
      BY <1>5, <3>1
    <3> QED BY <1>3, <2>1, <3>1, <3>2
  <2>2. CASE ~(k < i)
    <3>1. ~(k <= i - 1) /\ k - (i - 1) \in 1..(Len(list) - i) /\ i + (k - (i - 1)) = k + 1
      BY <1>1, <2>2
    <3>2. rest[k] = back[k - (i - 1)]
      BY <1>5, <3>1
    <3>3. back[k - (i - 1)] = list[k + 1]
      BY <1>4, <3>1
    <3> QED BY <2>2, <3>2, <3>3
  <2> QED BY <2>1, <2>2
<1> QED BY <1>0, <1>5, <1>6, <1>7

\* The states the table leads to are states.
LEMMA TableStates ==
    /\ {TaskProfile.initial, TaskProfile.matched, TaskProfile.enRoute} \subseteq Status
    /\ \A s : Allowed(TaskProfile, s) \subseteq Status
BY SnapshotAssumption DEF Status, StatesOf, Allowed

\* What an operator that makes snapshots of the states has then.
LEMMA PublishTypes ==
    ASSUME SnapshotTypeOK, NEW states \in Seq(Status), states # <<>>, Publish(states)
    PROVE  /\ sent' \in Nat /\ sent' > sent /\ sent' <= MaxSnapshots
           /\ inflight' \subseteq Event
           /\ \A e \in inflight' \ inflight : e.made > sent /\ e.made <= sent' /\ e.at = clock
           /\ \A e, f \in inflight' \ inflight : e.made = f.made => e = f
           /\ \A n \in (sent + 1)..sent' : \E e \in inflight' : e.made = n
           /\ inflight \subseteq inflight'
<1>1. /\ Len(states) \in Nat \ {0} /\ DOMAIN states = 1..Len(states)
      /\ \A n \in DOMAIN states : states[n] \in Status
  BY EmptySeq, LenProperties, ElementOfSeq
<1>2. /\ sent + Len(states) <= MaxSnapshots /\ sent' = sent + Len(states)
      /\ inflight' = inflight \cup {Snapshot(n, states[n]) : n \in DOMAIN states}
  BY DEF Publish
<1>3. sent \in Nat /\ MaxSnapshots \in Nat /\ clock \in 0..MaxSecond
  BY SnapshotAssumption DEF SnapshotTypeOK
<1>4. \A n \in DOMAIN states : /\ Snapshot(n, states[n]) \in Event
                               /\ Snapshot(n, states[n]).made = sent + n
                               /\ Snapshot(n, states[n]).at = clock
  BY <1>1, <1>2, <1>3 DEF Snapshot, Event
<1>5. \A e \in inflight' \ inflight : \E n \in DOMAIN states : e = Snapshot(n, states[n])
  BY <1>2
<1>6. \A e, f \in inflight' \ inflight : e.made = f.made => e = f
  <2> SUFFICES ASSUME NEW e \in inflight' \ inflight, NEW f \in inflight' \ inflight,
                      e.made = f.made
               PROVE  e = f
    OBVIOUS
  <2>1. PICK m \in DOMAIN states : e = Snapshot(m, states[m])
    BY <1>5
  <2>2. PICK n \in DOMAIN states : f = Snapshot(n, states[n])
    BY <1>5
  <2>3. m = n
    BY <1>1, <1>3, <1>4, <2>1, <2>2
  <2> QED BY <2>1, <2>2, <2>3
<1>7. \A e \in inflight' \ inflight : e.made > sent /\ e.made <= sent' /\ e.at = clock
  BY <1>1, <1>2, <1>3, <1>4, <1>5
<1>8. ASSUME NEW n \in (sent + 1)..sent' PROVE \E e \in inflight' : e.made = n
  <2>1. n - sent \in DOMAIN states /\ sent + (n - sent) = n
    BY <1>1, <1>2, <1>3
  <2> QED BY <1>2, <1>4, <2>1
<1> QED BY <1>1, <1>2, <1>3, <1>4, <1>6, <1>7, <1>8 DEF SnapshotTypeOK

\* A relay that is offered e keeps what it has, or e.
LEMMA RelaysTake ==
    ASSUME SnapshotTypeOK, NEW e \in Event, NEW up \in SUBSET Relay, relay' = Delivered(e, up)
    PROVE  /\ relay' \in [Relay -> Event \cup {NoEvent}]
           /\ \A r \in Relay : relay[r] # NoEvent =>
                relay'[r] # NoEvent /\ relay'[r].at >= relay[r].at
           /\ \A ok \in Answers(e, up) : ok # {} =>
                \E r \in Relay : relay'[r] # NoEvent /\ relay'[r].at >= e.at
<1>1. e # NoEvent /\ e.at \in Nat
      /\ \A r \in Relay : relay[r] \in Event \cup {NoEvent} /\ (relay[r] # NoEvent => relay[r].at \in Nat)
  BY SnapshotAssumption DEF SnapshotTypeOK, Event
<1>2. \A r \in Relay : relay'[r] = IF r \in up /\ Takes(r, e) THEN e ELSE relay[r]
  BY DEF Delivered
<1>3. relay' \in [Relay -> Event \cup {NoEvent}]
  BY <1>1 DEF Delivered
<1>4. ASSUME NEW r \in Relay, relay[r] # NoEvent
      PROVE  relay'[r] # NoEvent /\ relay'[r].at >= relay[r].at
  BY <1>1, <1>2, <1>4 DEF Takes, Supersedes
<1>5. ASSUME NEW r \in up, Acknowledges(r, e)
      PROVE  relay'[r] # NoEvent /\ relay'[r].at >= e.at
  <2>1. CASE Takes(r, e)
    BY <1>1, <1>2, <2>1
  <2>2. CASE ~Takes(r, e)
    BY <1>1, <1>2, <1>5, <2>2 DEF Takes, Supersedes
  <2> QED BY <2>1, <2>2
<1>6. \A ok \in Answers(e, up) : \A r \in ok : r \in up /\ Acknowledges(r, e)
  BY DEF Answers
<1> QED BY <1>3, <1>4, <1>5, <1>6

\* A publish, and a retry, are of a snapshot among reachable relays.
LEMMA WhoIsReached == \A up \in Reachable : up \in SUBSET Relay
BY DEF Reachable

LEMMA Buffered ==
    ASSUME SnapshotTypeOK, NEW e \in Event
    PROVE  /\ Buffer(e) \in Seq(Event) /\ Len(Buffer(e)) <= OutboxMax
           /\ Len(outbox) < OutboxMax => Buffer(e) = Append(outbox, e)
<1>1. outbox \in Seq(Event) /\ Len(outbox) \in Nat /\ OutboxMax \in Nat \ {0}
      /\ Len(outbox) <= OutboxMax
  BY SnapshotAssumption, LenProperties DEF SnapshotTypeOK
<1>2. CASE Len(outbox) >= OutboxMax
  <2>1. outbox # <<>>
    BY <1>1, <1>2, EmptySeq
  <2>2. Tail(outbox) \in Seq(Event) /\ Len(Tail(outbox)) = Len(outbox) - 1
    BY <1>1, <2>1, HeadTailProperties
  <2>3. PICK rest : rest = Tail(outbox)
    OBVIOUS
  <2>4. Buffer(e) = Append(rest, e)
    BY <1>2, <2>3 DEF Buffer
  <2>5. Append(rest, e) \in Seq(Event) /\ Len(Append(rest, e)) = Len(outbox)
    BY <1>1, <2>2, <2>3
  <2> QED BY <1>1, <1>2, <2>4, <2>5
<1>3. CASE ~(Len(outbox) >= OutboxMax)
  <2>1. Buffer(e) = Append(outbox, e)
    BY <1>3 DEF Buffer
  <2> QED BY <1>1, <1>3, <2>1
<1> QED BY <1>1, <1>2, <1>3

\* A handler leaves the task in one of its states, with its snapshots to publish.
LEMMA HandlerPublishes ==
    ASSUME SnapshotTypeOK,
           \/ Request \/ Accept \/ (\E s \in Status : Move(s)) \/ Touch
    PROVE  /\ status' \in Status
           /\ \E states \in Seq(Status) : states # <<>> /\ Publish(states)
<1>1. CASE Request
  <2>1. <<TaskProfile.initial>> \in Seq(Status) /\ <<TaskProfile.initial>> # <<>>
    BY TableStates
  <2> QED BY <1>1, <2>1, TableStates DEF Request
<1>2. CASE Accept
  <2>1. /\ <<TaskProfile.matched, TaskProfile.enRoute>> \in Seq(Status)
        /\ <<TaskProfile.matched, TaskProfile.enRoute>> # <<>>
    BY TableStates
  <2> QED BY <1>2, <2>1, TableStates DEF Accept
<1>3. CASE \E s \in Status : Move(s)
  <2>1. PICK s \in Status : Move(s)
    BY <1>3
  <2>2. <<s>> \in Seq(Status) /\ <<s>> # <<>>
    OBVIOUS
  <2> QED BY <2>1, <2>2 DEF Move
<1>4. CASE Touch
  <2>1. status \in Status /\ status' = status /\ Publish(<<status>>)
    BY <1>4 DEF Touch, SnapshotTypeOK
  <2>2. <<status>> \in Seq(Status) /\ <<status>> # <<>>
    BY <2>1
  <2> QED BY <2>1, <2>2
<1> QED BY <1>1, <1>2, <1>3, <1>4

\* A snapshot in hand is of this process, and the last one made is of sentAt.
Current(e) ==
    /\ e.made \in (booted + 1)..sent
    /\ e.made = sent => e.at = sentAt

InHand ==
    /\ \A e \in inflight : Current(e)
    /\ \A i \in DOMAIN outbox : Current(outbox[i])

\* No snapshot is in hand twice.
OneEach ==
    /\ \A e, f \in inflight : e.made = f.made => e = f
    /\ \A i, j \in DOMAIN outbox : outbox[i].made = outbox[j].made => i = j
    /\ \A e \in inflight : \A i \in DOMAIN outbox : e.made # outbox[i].made

\* Once the last snapshot has been acknowledged, a relay is as late as it: what
\* a relay has is only ever replaced by something as late.
LatestIsOut ==
    sent > booted /\ sent \in reached =>
        \E r \in Relay : relay[r] # NoEvent /\ relay[r].at >= sentAt

SnapshotInv == SnapshotTypeOK /\ InHand /\ OneEach /\ NothingDropped /\ LatestIsOut

LEMMA SnapshotInitInv == SnapshotInit => SnapshotInv
<1> SUFFICES ASSUME SnapshotInit PROVE SnapshotInv
  OBVIOUS
<1>1. /\ outbox = <<>> /\ outbox \in Seq(Event) /\ Len(outbox) = 0 /\ DOMAIN outbox = {}
  BY DEF SnapshotInit
<1>2. SnapshotTypeOK
  BY <1>1, SnapshotAssumption DEF SnapshotInit, SnapshotTypeOK
<1>3. InHand /\ OneEach
  BY <1>1 DEF SnapshotInit, InHand, OneEach
<1>4. NothingDropped /\ LatestIsOut
  BY DEF SnapshotInit, NothingDropped, LatestIsOut
<1> QED BY <1>2, <1>3, <1>4 DEF SnapshotInv

\* What the variables' types say of the numbers.
LEMMA SnapshotNumbers ==
    ASSUME SnapshotTypeOK
    PROVE  /\ sent \in Nat /\ booted \in Nat /\ booted <= sent /\ sent <= MaxSnapshots
           /\ clock \in Nat /\ sentAt \in Nat /\ sentAt <= clock
           /\ MaxSnapshots \in Nat /\ OutboxMax \in Nat
           /\ \A n \in reached : n \in 1..sent
           /\ Len(outbox) \in Nat /\ DOMAIN outbox = 1..Len(outbox)
           /\ \A i \in DOMAIN outbox : outbox[i] \in Event
           /\ \A e \in Event : e.made \in Nat /\ e.at \in Nat
<1>1. /\ Len(outbox) \in Nat /\ DOMAIN outbox = 1..Len(outbox)
      /\ \A i \in DOMAIN outbox : outbox[i] \in Event
  BY LenProperties, ElementOfSeq DEF SnapshotTypeOK
<1>2. \A e \in Event : e.made \in Nat /\ e.at \in Nat
  BY SnapshotAssumption DEF Event
<1> QED BY <1>1, <1>2, SnapshotAssumption DEF SnapshotTypeOK

\* A handler's snapshots are new, and go out under this process.
LEMMA HandlerKeepsInv ==
    ASSUME SnapshotInv,
           \/ Request \/ Accept \/ (\E s \in Status : Move(s)) \/ Touch
    PROVE  SnapshotInv'
<1>1. PICK states \in Seq(Status) : states # <<>> /\ Publish(states)
  BY HandlerPublishes DEF SnapshotInv
<1>2. /\ sent' \in Nat /\ sent' > sent /\ sent' <= MaxSnapshots
      /\ inflight' \subseteq Event
      /\ \A e \in inflight' \ inflight : e.made > sent /\ e.made <= sent' /\ e.at = clock
      /\ \A e, f \in inflight' \ inflight : e.made = f.made => e = f
      /\ \A n \in (sent + 1)..sent' : \E e \in inflight' : e.made = n
      /\ inflight \subseteq inflight'
  BY <1>1, PublishTypes DEF SnapshotInv
<1>3. /\ UNCHANGED <<clock, outbox, relay, lowerIsNewer, reached, booted, restarts>>
      /\ sentAt' = clock
  BY <1>1 DEF Publish
<1>4. /\ SnapshotTypeOK /\ status' \in Status
  BY HandlerPublishes DEF SnapshotInv
<1>5. SnapshotTypeOK'
  BY <1>2, <1>3, <1>4, SnapshotNumbers, SnapshotAssumption DEF SnapshotTypeOK
<1>6. \A e \in inflight : e.made \in (booted + 1)..sent
  BY DEF SnapshotInv, InHand, Current
<1>7. \A i \in DOMAIN outbox : outbox[i].made \in (booted + 1)..sent
  BY DEF SnapshotInv, InHand, Current
<1>8. InHand'
  <2>1. ASSUME NEW e \in inflight' PROVE Current(e)'
    BY <1>2, <1>3, <1>4, <1>6, SnapshotNumbers DEF Current
  <2>2. ASSUME NEW i \in DOMAIN outbox PROVE Current(outbox[i])'
    BY <1>2, <1>3, <1>4, <1>7, SnapshotNumbers DEF Current
  <2> QED BY <1>3, <2>1, <2>2 DEF InHand
<1>9. OneEach'
  <2>1. ASSUME NEW e \in inflight', NEW f \in inflight', e.made = f.made PROVE e = f
    BY <1>2, <1>4, <1>6, <2>1, SnapshotNumbers DEF SnapshotInv, OneEach
  <2>2. ASSUME NEW e \in inflight', NEW i \in DOMAIN outbox PROVE e.made # outbox[i].made
    BY <1>2, <1>4, <1>7, SnapshotNumbers DEF SnapshotInv, OneEach
  <2> QED BY <1>3, <2>1, <2>2 DEF SnapshotInv, OneEach
<1>10. NothingDropped'
  <2> SUFFICES ASSUME NEW n \in (booted + 1)..sent'
               PROVE  \/ n \in reached \/ \E e \in inflight' : e.made = n
                      \/ \E i \in DOMAIN outbox : outbox[i].made = n
    BY <1>3 DEF NothingDropped
  <2>1. CASE n \in (booted + 1)..sent
    BY <1>2, <2>1 DEF SnapshotInv, NothingDropped
  <2>2. CASE n \notin (booted + 1)..sent
    BY <1>2, <1>4, <2>2, SnapshotNumbers
  <2> QED BY <2>1, <2>2
<1>11. LatestIsOut'
  BY <1>2, <1>3, <1>4, SnapshotNumbers DEF LatestIsOut
<1> QED BY <1>5, <1>8, <1>9, <1>10, <1>11 DEF SnapshotInv

\* There are n numbers from 1 to n.
LEMMA UpTo ==
    ASSUME NEW n \in Nat
    PROVE  IsFiniteSet(1..n) /\ Cardinality(1..n) = n
<1>1. IsFiniteSet(1..n) /\ Cardinality(1..n) = IF 1 > n THEN 0 ELSE n - 1 + 1
  BY FS_Interval, 1 \in Int, n \in Int
<1> QED BY <1>1

\* A publish in flight can be buffered without dropping another.
HasRoom == inflight # {} => Len(outbox) < OutboxMax

\* It can when the outbox holds as many as are ever made.
LEMMA RoomLeft ==
    ASSUME SnapshotInv, MaxSnapshots <= OutboxMax, NEW e \in inflight
    PROVE  Len(outbox) < OutboxMax
<1> DEFINE Other == (1..sent) \ {e.made}
           numbers == [i \in 1..Len(outbox) |-> outbox[i].made]
<1>1. SnapshotTypeOK
  BY DEF SnapshotInv
<1>2. e.made \in 1..sent
  BY <1>1, SnapshotNumbers DEF SnapshotInv, InHand, Current
<1>3. IsFiniteSet(1..sent) /\ Cardinality(1..sent) = sent
  BY <1>1, <1>2, UpTo, SnapshotNumbers
<1>4. IsFiniteSet(Other) /\ Cardinality(Other) = sent - 1
  BY <1>2, <1>3, FS_RemoveElement
<1>5. IsFiniteSet(1..Len(outbox)) /\ Cardinality(1..Len(outbox)) = Len(outbox)
  BY <1>1, UpTo, SnapshotNumbers
<1>6. \A i \in 1..Len(outbox) : outbox[i].made \in Other
  BY <1>1, SnapshotNumbers DEF SnapshotInv, InHand, OneEach, Current
<1>7. numbers \in [1..Len(outbox) -> Other]
  BY <1>6
<1> HIDE DEF Other
<1>8. ASSUME Cardinality(Other) < Cardinality(1..Len(outbox)) PROVE FALSE
  <2>1. \E i, j \in 1..Len(outbox) : i # j /\ numbers[i] = numbers[j]
    <3> HIDE DEF numbers
    <3> QED BY <1>4, <1>5, <1>7, <1>8, FS_PigeonHole, Zenon
  <2> QED BY <1>1, <2>1, SnapshotNumbers DEF SnapshotInv, OneEach
<1> QED BY <1>1, <1>2, <1>4, <1>5, <1>8, SnapshotNumbers
\* The clock moves on.
LEMMA TickKeepsInv ==
    ASSUME SnapshotInv, Tick PROVE SnapshotInv'
<1>1. /\ UNCHANGED <<status, sent, sentAt, inflight, outbox, relay, lowerIsNewer, reached,
                     booted, restarts>>
      /\ clock < MaxSecond /\ clock' = clock + 1
  BY DEF Tick
<1>2. SnapshotTypeOK'
  BY <1>1, SnapshotAssumption DEF SnapshotInv, SnapshotTypeOK
<1>3. InHand'
  BY <1>1 DEF SnapshotInv, InHand, Current
<1>4. OneEach' /\ NothingDropped' /\ LatestIsOut'
  BY <1>1 DEF SnapshotInv, OneEach, NothingDropped, LatestIsOut
<1> QED BY <1>2, <1>3, <1>4 DEF SnapshotInv

\* A relay as late as the last snapshot stays so, and the acknowledged last
\* snapshot left one.
LEMMA StaysOut ==
    ASSUME SnapshotInv, NEW e \in Event, Current(e),
           NEW up \in Reachable, NEW ok \in Answers(e, up),
           relay' = Delivered(e, up),
           UNCHANGED <<sent, sentAt, booted>>,
           reached' = IF ok = {} THEN reached ELSE reached \cup {e.made}
    PROVE  LatestIsOut'
<1> SUFFICES ASSUME sent > booted, sent \in reached'
             PROVE  \E r \in Relay : relay'[r] # NoEvent /\ relay'[r].at >= sentAt
  BY DEF LatestIsOut
<1>1. SnapshotTypeOK /\ up \in SUBSET Relay
  BY WhoIsReached DEF SnapshotInv
<1>2. /\ relay' \in [Relay -> Event \cup {NoEvent}]
      /\ \A r \in Relay : relay[r] # NoEvent =>
           relay'[r] # NoEvent /\ relay'[r].at >= relay[r].at
      /\ ok # {} => \E r \in Relay : relay'[r] # NoEvent /\ relay'[r].at >= e.at
  BY <1>1, RelaysTake
<1>3. CASE sent \in reached
  <2>1. PICK r \in Relay : relay[r] # NoEvent /\ relay[r].at >= sentAt
    BY <1>3 DEF SnapshotInv, LatestIsOut
  <2>2. relay'[r] # NoEvent /\ relay'[r].at >= relay[r].at
    BY <1>2, <2>1
  <2>3. relay[r] \in Event /\ relay'[r] \in Event
    BY <1>1, <1>2, <2>1, <2>2 DEF SnapshotTypeOK
  <2>4. relay'[r].at >= sentAt
    BY <1>1, <2>1, <2>2, <2>3, SnapshotNumbers
  <2> QED BY <2>2, <2>4
<1>4. CASE sent \notin reached
  <2>1. ok # {} /\ e.made = sent
    BY <1>4
  <2> QED BY <1>2, <2>1 DEF Current
<1> QED BY <1>3, <1>4
\* A list with one more entry.
LEMMA WithOneMore ==
    ASSUME NEW S, NEW list \in Seq(S), NEW x \in S, NEW more, more = Append(list, x)
    PROVE  /\ more \in Seq(S) /\ Len(more) = Len(list) + 1
           /\ DOMAIN more = 1..(Len(list) + 1)
           /\ \A k \in 1..Len(list) : more[k] = list[k]
           /\ more[Len(list) + 1] = x
<1>1. more \in Seq(S) /\ Len(more) = Len(list) + 1
  BY AppendProperties
<1>2. \A k \in 1..Len(list) : more[k] = list[k]
  BY AppendProperties
<1>3. more[Len(list) + 1] = x
  BY AppendProperties
<1> QED BY <1>1, <1>2, <1>3, LenProperties

\* A publish that ends has reached a relay, or waits in the outbox.
LEMMA PublishEndsKeepsInv ==
    ASSUME SnapshotInv, HasRoom, NEW e \in inflight, PublishEnds(e)
    PROVE  SnapshotInv'
<1>1. /\ inflight' = inflight \ {e}
      /\ UNCHANGED <<status, clock, sent, sentAt, lowerIsNewer, booted, restarts>>
  BY DEF PublishEnds
<1>2. PICK up \in Reachable : \E ok \in Answers(e, up) :
        /\ relay' = Delivered(e, up)
        /\ IF ok = {} THEN outbox' = Buffer(e) /\ UNCHANGED reached
                      ELSE reached' = reached \cup {e.made} /\ UNCHANGED outbox
  BY DEF PublishEnds
<1>3. PICK ok \in Answers(e, up) :
        /\ relay' = Delivered(e, up)
        /\ IF ok = {} THEN outbox' = Buffer(e) /\ UNCHANGED reached
                      ELSE reached' = reached \cup {e.made} /\ UNCHANGED outbox
  BY <1>2
<1>4. /\ SnapshotTypeOK /\ e \in Event /\ Current(e) /\ InHand /\ OneEach /\ NothingDropped
      /\ up \in SUBSET Relay
  BY WhoIsReached DEF SnapshotInv, SnapshotTypeOK, InHand
<1>5. relay' \in [Relay -> Event \cup {NoEvent}]
  BY <1>3, <1>4, RelaysTake
<1>6. reached' = IF ok = {} THEN reached ELSE reached \cup {e.made}
  BY <1>3
<1>7. LatestIsOut'
  BY <1>1, <1>3, <1>4, <1>6, StaysOut
<1>8. reached' \subseteq 1..sent
  <2>1. e.made \in 1..sent /\ reached \subseteq 1..sent
    BY <1>4, SnapshotNumbers DEF Current, SnapshotTypeOK
  <2> QED BY <1>6, <2>1
<1>9. CASE ok = {}
  <2>1. outbox' = Append(outbox, e) /\ reached' = reached /\ Len(outbox) < OutboxMax
    BY <1>3, <1>4, <1>9, Buffered DEF HasRoom
  <2>2. /\ outbox' \in Seq(Event) /\ Len(outbox') = Len(outbox) + 1
        /\ DOMAIN outbox' = 1..(Len(outbox) + 1)
        /\ \A k \in 1..Len(outbox) : outbox'[k] = outbox[k]
        /\ outbox'[Len(outbox) + 1] = e
    <3>1. outbox \in Seq(Event)
      BY <1>4 DEF SnapshotTypeOK
    <3> QED BY <1>4, <2>1, <3>1, WithOneMore
  <2>3. Len(outbox) \in Nat /\ DOMAIN outbox = 1..Len(outbox) /\ OutboxMax \in Nat
    BY <1>4, SnapshotNumbers
  <2>4. SnapshotTypeOK'
    BY <1>1, <1>4, <1>5, <1>8, <2>1, <2>2, <2>3 DEF SnapshotTypeOK
  <2>5. \A k \in DOMAIN outbox' : k \in DOMAIN outbox \/ k = Len(outbox) + 1
    BY <2>2, <2>3
  <2>6. InHand'
    <3>1. ASSUME NEW k \in DOMAIN outbox' PROVE Current(outbox'[k])
      BY <1>4, <2>2, <2>3, <2>5 DEF InHand
    <3> QED BY <1>1, <1>4, <3>1 DEF InHand, Current
  <2>7. OneEach'
    <3>1. ASSUME NEW i \in DOMAIN outbox', NEW j \in DOMAIN outbox',
                 outbox'[i].made = outbox'[j].made
          PROVE  i = j
      BY <1>4, <2>2, <2>3, <2>5, <3>1 DEF OneEach
    <3>2. ASSUME NEW f \in inflight', NEW i \in DOMAIN outbox' PROVE f.made # outbox'[i].made
      <4>1. f \in inflight /\ f.made # e.made
        BY <1>1, <1>4 DEF OneEach
      <4> QED BY <1>4, <2>2, <2>3, <2>5, <4>1 DEF OneEach
    <3> QED BY <1>1, <1>4, <3>1, <3>2 DEF OneEach
  <2>8. NothingDropped'
    <3> SUFFICES ASSUME NEW n \in (booted + 1)..sent
                 PROVE  \/ n \in reached \/ \E f \in inflight' : f.made = n
                        \/ \E i \in DOMAIN outbox' : outbox'[i].made = n
      BY <1>1, <2>1 DEF NothingDropped
    <3>1. CASE n = e.made
      BY <2>2, <2>3, <3>1
    <3>2. CASE n # e.made /\ \E f \in inflight : f.made = n
      BY <1>1, <3>2
    <3>3. CASE \E i \in DOMAIN outbox : outbox[i].made = n
      BY <2>2, <2>3, <3>3
    <3> QED BY <1>4, <3>1, <3>2, <3>3 DEF NothingDropped
  <2> QED BY <1>7, <2>4, <2>6, <2>7, <2>8 DEF SnapshotInv
<1>10. CASE ok # {}
  <2>1. outbox' = outbox /\ reached' = reached \cup {e.made}
    BY <1>3, <1>10
  <2>2. SnapshotTypeOK'
    BY <1>1, <1>4, <1>5, <1>8, <2>1 DEF SnapshotTypeOK
  <2>3. InHand' /\ OneEach'
    BY <1>1, <1>4, <2>1 DEF InHand, OneEach, Current
  <2>4. NothingDropped'
    BY <1>1, <1>4, <2>1 DEF NothingDropped
  <2> QED BY <1>7, <2>2, <2>3, <2>4 DEF SnapshotInv
<1> QED BY <1>9, <1>10

\* A retry leaves the entry where it is, or has reached a relay with it.
LEMMA RetryKeepsInv ==
    ASSUME SnapshotInv, NEW i \in DOMAIN outbox, Retry(i)
    PROVE  SnapshotInv'
<1>1. PICK up \in Reachable : \E ok \in Answers(outbox[i], up) : RetryAt(i, up, ok)
  BY DEF Retry
<1>2. PICK ok \in Answers(outbox[i], up) : RetryAt(i, up, ok)
  BY <1>1
<1>3. PICK e \in Event : e = outbox[i]
  BY SnapshotNumbers DEF SnapshotInv
<1>4. /\ relay' = Delivered(e, up) /\ ok \in Answers(e, up)
      /\ outbox' = IF ok = {} THEN outbox ELSE Unbuffer(i)
      /\ reached' = IF ok = {} THEN reached ELSE reached \cup {e.made}
      /\ UNCHANGED <<status, clock, sent, sentAt, inflight, lowerIsNewer, booted, restarts>>
  BY <1>2, <1>3 DEF RetryAt
<1>5. /\ SnapshotTypeOK /\ Current(e) /\ InHand /\ OneEach /\ NothingDropped
      /\ up \in SUBSET Relay
  BY <1>3, WhoIsReached DEF SnapshotInv, InHand
<1>6. relay' \in [Relay -> Event \cup {NoEvent}]
  BY <1>4, <1>5, RelaysTake
<1>7. LatestIsOut'
  BY <1>4, <1>5, StaysOut
<1>8. reached' \subseteq 1..sent
  BY <1>4, <1>5, SnapshotNumbers DEF Current, SnapshotTypeOK
<1>9. CASE ok = {}
  <2>1. outbox' = outbox /\ reached' = reached
    BY <1>4, <1>9
  <2>2. SnapshotTypeOK'
    BY <1>4, <1>5, <1>6, <2>1 DEF SnapshotTypeOK
  <2>3. InHand' /\ OneEach' /\ NothingDropped'
    BY <1>4, <1>5, <2>1 DEF InHand, OneEach, Current, NothingDropped
  <2> QED BY <1>7, <2>2, <2>3 DEF SnapshotInv
<1>10. CASE ok # {}
  <2>1. outbox' = Unbuffer(i) /\ reached' = reached \cup {e.made}
    BY <1>4, <1>10
  <2>2. /\ Len(outbox) \in Nat /\ DOMAIN outbox = 1..Len(outbox)
        /\ OutboxMax \in Nat /\ Len(outbox) <= OutboxMax
        /\ outbox \in Seq(Event)
    BY <1>5, SnapshotNumbers DEF SnapshotTypeOK
  <2>3. /\ outbox' \in Seq(Event) /\ Len(outbox') = Len(outbox) - 1
        /\ DOMAIN outbox' = 1..(Len(outbox) - 1)
        /\ \A k \in DOMAIN outbox' : outbox'[k] = outbox[IF k < i THEN k ELSE k + 1]
    <3>1. outbox' = Without(outbox, i)
      BY <2>1 DEF Unbuffer, Without
    <3>2. i \in 1..Len(outbox)
      BY <2>2
    <3> QED BY <2>2, <3>1, <3>2, WithoutOne
  <2>4. \A k \in DOMAIN outbox' :
          /\ (IF k < i THEN k ELSE k + 1) \in DOMAIN outbox
          /\ (IF k < i THEN k ELSE k + 1) # i
    BY <2>2, <2>3
  <2>5. SnapshotTypeOK'
    <3>1. outbox' \in Seq(Event) /\ Len(outbox') <= OutboxMax
      BY <2>2, <2>3
    <3> QED BY <1>4, <1>5, <1>6, <1>8, <3>1 DEF SnapshotTypeOK
  <2>6. InHand'
    <3>1. ASSUME NEW k \in DOMAIN outbox' PROVE Current(outbox'[k])
      BY <1>5, <2>3, <2>4 DEF InHand
    <3> QED BY <1>4, <1>5, <3>1 DEF InHand, Current
  <2>7. OneEach'
    <3>1. ASSUME NEW j \in DOMAIN outbox', NEW k \in DOMAIN outbox',
                 outbox'[j].made = outbox'[k].made
          PROVE  j = k
      <4>1. (IF j < i THEN j ELSE j + 1) = (IF k < i THEN k ELSE k + 1)
        BY <1>5, <2>3, <2>4, <3>1 DEF OneEach
      <4> QED BY <2>2, <2>3, <4>1
    <3>2. ASSUME NEW f \in inflight', NEW k \in DOMAIN outbox' PROVE f.made # outbox'[k].made
      BY <1>4, <1>5, <2>3, <2>4 DEF OneEach
    <3> QED BY <1>4, <1>5, <3>1, <3>2 DEF OneEach
  <2>8. NothingDropped'
    <3> SUFFICES ASSUME NEW n \in (booted + 1)..sent, n # e.made
                 PROVE  \/ n \in reached \/ \E f \in inflight : f.made = n
                        \/ \E k \in DOMAIN outbox' : outbox'[k].made = n
      BY <1>4, <2>1 DEF NothingDropped
    <3>1. CASE \E j \in DOMAIN outbox : outbox[j].made = n
      <4>1. PICK j \in DOMAIN outbox : outbox[j].made = n
        BY <3>1
      <4>2. j # i
        BY <1>3, <4>1
      <4>3. CASE j < i
        <5>1. j \in DOMAIN outbox' /\ outbox'[j] = outbox[j]
          BY <2>2, <2>3, <4>3
        <5> QED BY <4>1, <5>1
      <4>4. CASE j > i
        <5>1. j - 1 \in DOMAIN outbox' /\ ~(j - 1 < i) /\ j - 1 + 1 = j
          BY <2>2, <2>3, <4>4
        <5>2. outbox'[j - 1] = outbox[j]
          BY <2>3, <5>1
        <5> QED BY <4>1, <5>1, <5>2
      <4> QED BY <2>2, <4>2, <4>3, <4>4
    <3> QED BY <1>5, <3>1 DEF NothingDropped
  <2> QED BY <1>7, <2>5, <2>6, <2>7, <2>8 DEF SnapshotInv
<1> QED BY <1>9, <1>10

\* A process that starts has nothing in hand, and a task a relay remembers.
LEMMA RebootKeepsInv ==
    ASSUME SnapshotInv, NEW answering \in Reachable, Reboot(answering)
    PROVE  SnapshotInv'
<1>1. /\ restarts < MaxRestarts /\ restarts' = restarts + 1
      /\ status' \in Restored(answering)
      /\ inflight' = {} /\ outbox' = <<>> /\ booted' = sent
      /\ UNCHANGED <<clock, sent, sentAt, relay, lowerIsNewer, reached>>
  BY DEF Reboot
<1>2. SnapshotTypeOK /\ answering \in SUBSET Relay
  BY WhoIsReached DEF SnapshotInv
<1>3. \A r \in Relay : relay[r] # NoEvent => relay[r].status \in Status
  BY <1>2 DEF SnapshotTypeOK, Event
<1>4. status' \in Status \cup {NoRecord}
  BY <1>1, <1>2, <1>3 DEF Restored
<1>5. outbox' \in Seq(Event) /\ Len(outbox') = 0 /\ DOMAIN outbox' = {}
  BY <1>1
<1>6. SnapshotTypeOK'
  BY <1>1, <1>2, <1>4, <1>5, SnapshotNumbers, SnapshotAssumption DEF SnapshotTypeOK
<1>7. InHand' /\ OneEach'
  BY <1>1, <1>5 DEF InHand, OneEach
<1>8. NothingDropped' /\ LatestIsOut'
  BY <1>1, <1>2, SnapshotNumbers DEF NothingDropped, LatestIsOut
<1> QED BY <1>6, <1>7, <1>8 DEF SnapshotInv

LEMMA SnapshotNextInv ==
    ASSUME SnapshotInv, HasRoom, [SnapshotNext]_snapshotVars
    PROVE  SnapshotInv'
<1>1. CASE Request \/ Accept \/ (\E s \in Status : Move(s)) \/ Touch
  BY <1>1, HandlerKeepsInv
<1>2. CASE Tick
  BY <1>2, TickKeepsInv
<1>3. CASE \E e \in inflight : PublishEnds(e)
  BY <1>3, PublishEndsKeepsInv
<1>4. CASE \E i \in DOMAIN outbox : Retry(i)
  BY <1>4, RetryKeepsInv
<1>5. CASE \E answering \in Reachable : Reboot(answering)
  BY <1>5, RebootKeepsInv
<1>6. CASE UNCHANGED snapshotVars
  BY <1>6 DEF snapshotVars, SnapshotInv, SnapshotTypeOK, InHand, OneEach, Current,
              NothingDropped, LatestIsOut
<1> QED BY <1>1, <1>2, <1>3, <1>4, <1>5, <1>6 DEF SnapshotNext

\* With no snapshot in hand, the last one made has reached a relay.
LEMMA NothingInHand == SnapshotInv => QuietIsSaved
<1> SUFFICES ASSUME SnapshotInv, inflight = {}, outbox = <<>>, sent > booted
             PROVE  \E r \in Relay : relay[r] # NoEvent /\ relay[r].at >= sentAt
  BY DEF QuietIsSaved
<1>1. sent \in (booted + 1)..sent
  BY SnapshotNumbers DEF SnapshotInv
<1>2. DOMAIN outbox = {}
  OBVIOUS
<1>3. sent \in reached
  BY <1>1, <1>2 DEF SnapshotInv, NothingDropped
<1> QED BY <1>3 DEF SnapshotInv, LatestIsOut

\* Every snapshot a process makes (publishTaskSnapshot, publishWithOutbox) is being
\* published, waits to be retried or has reached a relay, whatever the relays do,
\* whatever profile the task has and however often the process restarts, in every
\* behaviour in which the outbox is never full when a publish is under way.
THEOREM SnapshotsAreKept ==
    SnapshotSpec /\ []HasRoom => [](SnapshotTypeOK /\ NothingDropped)
<1>1. SnapshotInv => SnapshotTypeOK /\ NothingDropped
  BY DEF SnapshotInv
<1>2. SnapshotInv /\ HasRoom /\ [SnapshotNext]_snapshotVars => SnapshotInv'
  BY SnapshotNextInv
<1> QED BY SnapshotInitInv, <1>1, <1>2, PTL DEF SnapshotSpec

\* With nothing left to publish or to retry, a relay has the task as it last was
\* (to the second), for any number of relays that each miss what they miss.
THEOREM QuietTaskIsSaved ==
    SnapshotSpec /\ []HasRoom => []QuietIsSaved
<1>1. SnapshotInv /\ HasRoom /\ [SnapshotNext]_snapshotVars => SnapshotInv'
  BY SnapshotNextInv
<1> QED BY SnapshotInitInv, NothingInHand, <1>1, PTL DEF SnapshotSpec

\* There is room for every publish as long as no more snapshots are made than the
\* outbox can hold (500): both theorems above then need nothing else.
THEOREM RoomForAll ==
    ASSUME MaxSnapshots <= OutboxMax
    PROVE  SnapshotSpec => []HasRoom
<1>1. SnapshotInv => HasRoom
  BY RoomLeft DEF HasRoom
<1>2. SnapshotInv /\ [SnapshotNext]_snapshotVars => SnapshotInv'
  BY <1>1, SnapshotNextInv
<1> QED BY SnapshotInitInv, <1>1, <1>2, PTL DEF SnapshotSpec

=============================================================================
