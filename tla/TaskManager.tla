--------------------------- MODULE TaskManager ---------------------------
(***************************************************************************)
(* The operator's task engine: one TaskManager per domain                  *)
(* (src/task-manager.js), the rideManager facade that routes an operation  *)
(* to the manager owning the id (server.js), and the optional PostgreSQL   *)
(* store behind both (src/storage/task-store.js).                          *)
(*                                                                         *)
(* A Node process runs one callback at a time and none of the manager's    *)
(* operations awaits, so each is one action.  What does interleave with    *)
(* them is what they start and do not wait for: the saves handed to the    *)
(* connection pool, the timers of a finished task, and the end of the      *)
(* process itself.                                                         *)
(*                                                                         *)
(* A party's pubkey and npub are indexed together and never apart, so one  *)
(* Party stands for both keys.  Coordinates, names, timestamps and history *)
(* are data no guard reads; fare stands for everything updatePickup and    *)
(* updateDropoff rewrite.                                                  *)
(***************************************************************************)
EXTENDS DomainProfiles, Naturals, FiniteSets

CONSTANTS
    Task,        \* task ids
    Party,       \* identities of requesters and providers
    Domain,      \* domain ids, each with its manager
    Profile,     \* Profile[d]: the validated profile of domain d
    State,       \* every state of every profile
    Fare,        \* the fares a task is priced at
    Role,        \* the roles that may rate
    HasStore,    \* whether DATABASE_URL configures a store (the default has none)
    Outages,     \* whether the store may reject a save
    MaxSaving,   \* bound: saves of one task in flight at a time
    NoTask,      \* no record under this id / no task indexed
    NoParty,     \* provider: null
    NoDomain     \* id not in _rideIndex

VARIABLES
    tasks,          \* tasks[d][t]: manager d's tasks Map
    requesterTasks, \* requesterTasks[d][p]: manager d's requester index
    providerTasks,  \* providerTasks[d][p]: manager d's provider index
    cleanup,        \* cleanup[d]: tasks whose 5-minute cleanupTimer is set
    eviction,       \* eviction[d]: tasks whose retention timer is set
    rideIndex,      \* _rideIndex of the facade
    saving,         \* saving[t]: rows of t handed to the pool, not yet answered
    rows            \* rows[t]: the row of the tasks table

memory == <<tasks, requesterTasks, providerTasks, cleanup, eviction, rideIndex>>
vars   == <<tasks, requesterTasks, providerTasks, cleanup, eviction, rideIndex,
            saving, rows>>

TaskRecord ==
    [ domain : Domain, status : State, requester : Party,
      provider : Party \cup {NoParty}, fare : Fare, rated : SUBSET Role ]

ASSUME NullAssumption ==
    /\ NoTask \notin Task
    /\ NoTask \notin TaskRecord
    /\ NoParty \notin Party
    /\ NoDomain \notin Domain

\* What validateProfile has checked of every profile a manager is built from,
\* and that the states the engine names are values of the profile.
ASSUME ProfileAssumption ==
    \A d \in Domain :
        /\ ValidProfile(Profile[d], State)
        /\ {Profile[d].matched, Profile[d].enRoute, Profile[d].arrived,
            Profile[d].active, Profile[d].completed, Profile[d].cancelled}
                \subseteq State

\* Not checked by validateProfile, and true of all nine profiles: no row leads
\* back to the initial state, the initial state is not an end, the two ends the
\* engine moves to by name are, and an end only leads to another end.
ASSUME TableAssumption ==
    \A d \in Domain :
        /\ \A s \in State : Profile[d].initial \notin Allowed(Profile[d], s)
        /\ Profile[d].initial \notin Profile[d].terminal
        /\ Profile[d].completed \in Profile[d].terminal
        /\ Profile[d].cancelled \in Profile[d].terminal
        /\ \A s \in Profile[d].terminal :
               Allowed(Profile[d], s) \subseteq Profile[d].terminal

-----------------------------------------------------------------------------
(* What the operations read.                                               *)

IsTerminal(d, s) == s \in Profile[d].terminal

\* The facade's isTerminal: any domain's manager may answer.
IsTerminalAnywhere(s) == \E d \in Domain : IsTerminal(d, s)

Has(d, t) == tasks[d][t] # NoTask

\* _getManagerForRide: the cached domain; an id the cache does not know is in
\* no manager (see RideIndexComplete) and every operation on it throws.
Known(t) == /\ rideIndex[t] # NoDomain
            /\ Has(rideIndex[t], t)

TypeOK ==
    /\ tasks \in [Domain -> [Task -> TaskRecord \cup {NoTask}]]
    /\ requesterTasks \in [Domain -> [Party -> Task \cup {NoTask}]]
    /\ providerTasks \in [Domain -> [Party -> Task \cup {NoTask}]]
    /\ cleanup \in [Domain -> SUBSET Task]
    /\ eviction \in [Domain -> SUBSET Task]
    /\ rideIndex \in [Task -> Domain \cup {NoDomain}]
    /\ saving \in [Task -> SUBSET TaskRecord]
    /\ rows \in [Task -> TaskRecord \cup {NoTask}]

Init ==
    /\ tasks = [d \in Domain |-> [t \in Task |-> NoTask]]
    /\ requesterTasks = [d \in Domain |-> [p \in Party |-> NoTask]]
    /\ providerTasks = [d \in Domain |-> [p \in Party |-> NoTask]]
    /\ cleanup = [d \in Domain |-> {}]
    /\ eviction = [d \in Domain |-> {}]
    /\ rideIndex = [t \in Task |-> NoDomain]
    /\ saving = [t \in Task |-> {}]
    /\ rows = [t \in Task |-> NoTask]

\* _persist: serialises the record now and hands it to the pool without
\* waiting.  Two saves of the same row in flight count as one.
Persist(t, record) ==
    /\ HasStore => Cardinality(saving[t] \cup {record}) <= MaxSaving
    /\ saving' = IF HasStore THEN [saving EXCEPT ![t] = @ \cup {record}] ELSE saving

\* The record is replaced and persisted; indexes and timers stay.
Put(d, t, record) ==
    /\ tasks' = [tasks EXCEPT ![d][t] = record]
    /\ Persist(t, record)

\* Mutant of Forget.
Forget_Nothing(index, d, p) == index

\* identityKeys(...).forEach(key => index.delete(key)): the entry goes
\* whichever task it names.
Forget(index, d, p) ==
    IF p = NoParty THEN index ELSE [index EXCEPT ![d][p] = NoTask]

-----------------------------------------------------------------------------
(* The operations of the manager, reached through the facade.              *)

\* The id may come from the request body; only the domain's own manager is
\* asked whether it is taken.
CreateTask(d, t, p, f) ==
    LET record == [ domain |-> d, status |-> Profile[d].initial, requester |-> p,
                    provider |-> NoParty, fare |-> f, rated |-> {} ]
    IN  /\ ~Has(d, t)
        /\ Put(d, t, record)
        /\ requesterTasks' = [requesterTasks EXCEPT ![d][p] = t]
        /\ rideIndex' = [rideIndex EXCEPT ![t] = d]
        /\ UNCHANGED <<providerTasks, cleanup, eviction, rows>>

AcceptTask(t, p) ==
    /\ Known(t)
    /\ LET d == rideIndex[t]
           record == tasks[d][t]
       IN  /\ record.status = Profile[d].initial
           /\ Profile[d].matched \in Allowed(Profile[d], record.status)
           /\ Put(d, t, [record EXCEPT !.status = Profile[d].matched, !.provider = p])
           /\ providerTasks' = [providerTasks EXCEPT ![d][p] = t]
    /\ UNCHANGED <<requesterTasks, cleanup, eviction, rideIndex, rows>>

\* Mutant of MoveTo: no validateTransition.
MoveTo_Unvalidated(t, s) ==
    /\ Known(t)
    /\ Put(rideIndex[t], t, [tasks[rideIndex[t]][t] EXCEPT !.status = s])
    /\ UNCHANGED <<requesterTasks, providerTasks, cleanup, eviction, rideIndex, rows>>

\* validateTransition, then the new status: the shape startEnRoute,
\* arriveAtPickup, startTrip and transitionTo share.
MoveTo(t, s) ==
    /\ Known(t)
    /\ LET d == rideIndex[t]
           record == tasks[d][t]
       IN  /\ s \in Allowed(Profile[d], record.status)
           /\ Put(d, t, [record EXCEPT !.status = s])
    /\ UNCHANGED <<requesterTasks, providerTasks, cleanup, eviction, rideIndex, rows>>

StartEnRoute(t) == rideIndex[t] # NoDomain /\ MoveTo(t, Profile[rideIndex[t]].enRoute)

ArriveAtPickup(t) == rideIndex[t] # NoDomain /\ MoveTo(t, Profile[rideIndex[t]].arrived)

StartTrip(t) == rideIndex[t] # NoDomain /\ MoveTo(t, Profile[rideIndex[t]].active)

\* Any state the table allows, ends included: no index entry is dropped and no
\* timer set, whatever the target.
TransitionTo(t, s) == MoveTo(t, s)

CompleteTrip(t) ==
    /\ Known(t)
    /\ LET d == rideIndex[t]
           record == tasks[d][t]
       IN  /\ Profile[d].completed \in Allowed(Profile[d], record.status)
           /\ Put(d, t, [record EXCEPT !.status = Profile[d].completed])
           /\ cleanup' = [cleanup EXCEPT ![d] = @ \cup {t}]
           /\ eviction' = [eviction EXCEPT ![d] = @ \cup {t}]
    /\ UNCHANGED <<requesterTasks, providerTasks, rideIndex, rows>>

CancelTask(t) ==
    /\ Known(t)
    /\ LET d == rideIndex[t]
           record == tasks[d][t]
       IN  /\ ~IsTerminal(d, record.status)
           /\ Put(d, t, [record EXCEPT !.status = Profile[d].cancelled])
           /\ requesterTasks' = Forget(requesterTasks, d, record.requester)
           /\ providerTasks' = Forget(providerTasks, d, record.provider)
           /\ eviction' = [eviction EXCEPT ![d] = @ \cup {t}]
    /\ UNCHANGED <<cleanup, rideIndex, rows>>

\* updatePickup and updateDropoff: no guard on the status; the policy is the
\* caller's.
UpdateJourney(t, f) ==
    /\ Known(t)
    /\ Put(rideIndex[t], t, [tasks[rideIndex[t]][t] EXCEPT !.fare = f])
    /\ UNCHANGED <<requesterTasks, providerTasks, cleanup, eviction, rideIndex, rows>>

\* The location and eta are not modelled; the save is.
UpdateProviderLocation(t) ==
    /\ Known(t)
    /\ tasks[rideIndex[t]][t].provider # NoParty
    /\ Put(rideIndex[t], t, tasks[rideIndex[t]][t])
    /\ UNCHANGED <<requesterTasks, providerTasks, cleanup, eviction, rideIndex, rows>>

RecordRating(t, role) ==
    /\ Known(t)
    /\ role \notin tasks[rideIndex[t]][t].rated
    /\ Put(rideIndex[t], t, [tasks[rideIndex[t]][t] EXCEPT !.rated = @ \cup {role}])
    /\ UNCHANGED <<requesterTasks, providerTasks, cleanup, eviction, rideIndex, rows>>

-----------------------------------------------------------------------------
(* What runs later: timers, the store, the process.                        *)

\* completeTrip's 5-minute timer.  It keeps the record it was set for, and
\* drops the parties' entries whichever task they name by then.
CleanupFires(d, t) ==
    /\ t \in cleanup[d]
    /\ cleanup' = [cleanup EXCEPT ![d] = @ \ {t}]
    /\ requesterTasks' = Forget(requesterTasks, d, tasks[d][t].requester)
    /\ providerTasks' = Forget(providerTasks, d, tasks[d][t].provider)
    /\ UNCHANGED <<tasks, eviction, rideIndex, saving, rows>>

\* _scheduleEviction's timer, by default 6 hours: long after the cleanup and
\* after every save of the task was answered.
EvictionFires(d, t) ==
    /\ t \in eviction[d]
    /\ t \notin cleanup[d]
    /\ saving[t] = {}
    /\ eviction' = [eviction EXCEPT ![d] = @ \ {t}]
    /\ tasks' = [tasks EXCEPT ![d][t] = NoTask]
    /\ UNCHANGED <<requesterTasks, providerTasks, cleanup, rideIndex, saving, rows>>

\* saveTask's upsert commits.  The pool runs saves on several connections, so
\* those in flight commit in any order.
SaveLands(t, record) ==
    /\ record \in saving[t]
    /\ saving' = [saving EXCEPT ![t] = @ \ {record}]
    /\ rows' = [rows EXCEPT ![t] = record]
    /\ UNCHANGED memory

\* ... or is rejected, which _persist logs and forgets.
SaveFails(t, record) ==
    /\ Outages
    /\ record \in saving[t]
    /\ saving' = [saving EXCEPT ![t] = @ \ {record}]
    /\ UNCHANGED <<memory, rows>>

\* The rows loadActiveTasks returns: the terminal column is the one the save
\* computed from the row's own status.
Active(t) ==
    /\ rows[t] # NoTask
    /\ ~IsTerminal(rows[t].domain, rows[t].status)

\* _rideIndex.set(task.id, task.domain) for every hydrated task (and its mutant).
HydratedIndex_Unset(t) == NoDomain
HydratedIndex(t) == IF Active(t) THEN rows[t].domain ELSE NoDomain

\* The order loadActiveTasks returns rows in: of a set of tasks, the last.
LoadOrder ==
    {last \in [SUBSET Task -> Task \cup {NoTask}] :
        \A set \in SUBSET Task :
            IF set = {} THEN last[set] = NoTask ELSE last[set] \in set}

\* The process ends and starts again: memory, timers and unanswered saves are
\* gone, initializeTaskStore hydrates every active row.  hydrateTask overwrites
\* index entries, so of a party's several tasks the last loaded stays indexed.
Restart ==
    /\ \E last \in LoadOrder :
        /\ requesterTasks' = [d \in Domain |-> [p \in Party |->
               last[{t \in Task : /\ Active(t)
                                  /\ rows[t].domain = d
                                  /\ rows[t].requester = p}]]]
        /\ providerTasks' = [d \in Domain |-> [p \in Party |->
               last[{t \in Task : /\ Active(t)
                                  /\ rows[t].domain = d
                                  /\ rows[t].provider = p}]]]
    /\ tasks' = [d \in Domain |-> [t \in Task |->
           IF Active(t) /\ rows[t].domain = d THEN rows[t] ELSE NoTask]]
    /\ cleanup' = [d \in Domain |-> {}]
    /\ eviction' = [d \in Domain |-> {}]
    /\ rideIndex' = [t \in Task |-> HydratedIndex(t)]
    /\ saving' = [t \in Task |-> {}]
    /\ UNCHANGED rows

\* One operation of the running process.
Operate ==
    \/ \E d \in Domain, t \in Task, p \in Party, f \in Fare : CreateTask(d, t, p, f)
    \/ \E t \in Task, p \in Party : AcceptTask(t, p)
    \/ \E t \in Task : StartEnRoute(t)
    \/ \E t \in Task : ArriveAtPickup(t)
    \/ \E t \in Task : StartTrip(t)
    \/ \E t \in Task, s \in State : TransitionTo(t, s)
    \/ \E t \in Task : CompleteTrip(t)
    \/ \E t \in Task : CancelTask(t)
    \/ \E t \in Task, f \in Fare : UpdateJourney(t, f)
    \/ \E t \in Task : UpdateProviderLocation(t)
    \/ \E t \in Task, role \in Role : RecordRating(t, role)
    \/ \E d \in Domain, t \in Task : CleanupFires(d, t)
    \/ \E d \in Domain, t \in Task : EvictionFires(d, t)

Next ==
    \/ Operate
    \/ \E t \in Task : \E record \in saving[t] : SaveLands(t, record)
    \/ \E t \in Task : \E record \in saving[t] : SaveFails(t, record)
    \/ Restart

Spec == Init /\ [][Next]_vars

-----------------------------------------------------------------------------
(* Properties.                                                             *)

\* An index entry of requesterTasks or providerTasks names a task the same
\* manager holds and on which that party has that role: getTaskByRequester
\* and getTaskByProvider never answer with a stranger's task or with an
\* evicted one, whatever the order of re-requests, cleanups and evictions.
IndexSound ==
    \A d \in Domain, p \in Party :
        /\ LET t == requesterTasks[d][p]
           IN  t # NoTask => Has(d, t) /\ tasks[d][t].requester = p
        /\ LET t == providerTasks[d][p]
           IN  t # NoTask => Has(d, t) /\ tasks[d][t].provider = p

\* The facade can route every id some manager holds: _rideIndex knows it, so
\* the linear search of _getManagerForRide never finds anything the cache
\* lacks.
RideIndexComplete ==
    \A d \in Domain, t \in Task : Has(d, t) => rideIndex[t] # NoDomain

\* The facade's isTerminal "uses the ride's own domain": asking every manager
\* gives the answer of the task's own profile, because no profile uses another
\* profile's ending as a live state.
TerminalIsOwnDomains ==
    \A d \in Domain, t \in Task :
        Has(d, t) => (IsTerminalAnywhere(tasks[d][t].status)
                          <=> IsTerminal(d, tasks[d][t].status))

\* A retention timer only ever waits on a task that has ended: when it fires,
\* minutes or hours after it was set, the record it deletes is not a live one
\* (also when the id was evicted and requested again).
TimersOnEnded ==
    \A d \in Domain : \A t \in cleanup[d] \cup eviction[d] :
        Has(d, t) /\ IsTerminal(d, tasks[d][t].status)

\* While the process runs, a provider once on a task stays its provider: a
\* second accept finds the task taken, and no path of the table leads back to
\* a state in which it would not be.
ProviderKept ==
    [][\A d \in Domain, t \in Task :
          Has(d, t) /\ tasks[d][t].provider # NoParty /\ tasks'[d][t] # NoTask
              => \/ tasks'[d][t].provider = tasks[d][t].provider
                 \/ Restart]_vars

\* A task that has ended does not come back to life while the process runs:
\* its status stays one of the profile's terminal states until eviction.
EndedStaysEnded ==
    [][\A d \in Domain, t \in Task :
          Has(d, t) /\ IsTerminal(d, tasks[d][t].status) /\ tasks'[d][t] # NoTask
              => \/ IsTerminal(d, tasks'[d][t].status)
                 \/ Restart]_vars
=============================================================================
