---------------------------- MODULE Snapshots ----------------------------
(***************************************************************************)
(* The default operator has no database: every mutation of a task is       *)
(* published as a sealed kind 30078 snapshot, and a process that starts    *)
(* restores the live tasks from what the relays answer (server.js,         *)
(* src/nostr/operator-announce.js, src/nostr/reputation.js).               *)
(*                                                                         *)
(* One task and the relays the operator names.  A handler mutates the task *)
(* and goes on; the publish it started ends later, after an outcome per    *)
(* relay.  A snapshot no relay took is buffered and retried every minute.  *)
(* What a snapshot carries is reduced to the status; created_at is in      *)
(* seconds, so several snapshots can share it.                             *)
(*                                                                         *)
(* Relays are external: one event per d tag, the newest created_at, the    *)
(* lower id on a tie (NIP-01).                                             *)
(***************************************************************************)
EXTENDS DomainProfiles, Naturals, Sequences, FiniteSets

CONSTANTS
    Relay,          \* relays the operator publishes to and queries
    TaskProfile,        \* the profile of the task's domain
    RelayOutages,   \* whether relays may miss a publish or an answer get lost
    RefuseReplaced, \* whether a relay answers "OK false" to an older event
    OutboxMax,      \* MEMORY_OUTBOX_MAX (500 in the code)
    RetryBatch,     \* entries a retry round looks at (50 in the code)
    MaxSnapshots,   \* bound: snapshots made
    MaxSecond,      \* bound: the clock
    MaxRestarts,    \* bound: restarts
    NoEvent,        \* a relay without a snapshot of the task
    NoRecord        \* the task is not in memory

VARIABLES
    status,    \* of the task in memory
    clock,     \* seconds
    sent,      \* number of snapshots made, over all processes
    sentAt,    \* history: the second of the latest snapshot
    inflight,  \* snapshots whose publish has not ended
    outbox,    \* memoryOutbox, in insertion order
    relay,     \* relay[r]: the snapshot relay r holds
    lowerIsNewer, \* whether the later of two ids is the lower (ids are hashes)
    reached,   \* history: snapshots some relay acknowledged
    booted,    \* history: value of sent when this process started
    restarts

snapshotVars == <<status, clock, sent, sentAt, inflight, outbox, relay, lowerIsNewer,
                  reached, booted, restarts>>

Status == StatesOf(TaskProfile)
Event == [ made : 1..MaxSnapshots, at : 0..MaxSecond, status : Status ]

ASSUME SnapshotAssumption ==
    /\ IsFiniteSet(Relay)
    /\ {RelayOutages, RefuseReplaced} \subseteq BOOLEAN
    /\ {OutboxMax, RetryBatch} \subseteq Nat \ {0}
    /\ {MaxSnapshots, MaxSecond, MaxRestarts} \subseteq Nat
    /\ {TaskProfile.matched, TaskProfile.enRoute} \subseteq Status
    /\ NoRecord \notin Status /\ NoEvent \notin Event

Terminal(s) == s \in TaskProfile.terminal

SnapshotTypeOK ==
    /\ status \in Status \cup {NoRecord}
    /\ clock \in 0..MaxSecond
    /\ sent \in 0..MaxSnapshots
    /\ sentAt \in 0..clock
    /\ inflight \subseteq Event
    /\ outbox \in Seq(Event) /\ Len(outbox) <= OutboxMax
    /\ relay \in [Relay -> Event \cup {NoEvent}]
    /\ lowerIsNewer \in BOOLEAN
    /\ reached \subseteq 1..sent
    /\ booted \in 0..sent
    /\ restarts \in 0..MaxRestarts

SnapshotInit ==
    /\ status = NoRecord
    /\ clock = 0
    /\ sent = 0
    /\ sentAt = 0
    /\ inflight = {}
    /\ outbox = <<>>
    /\ relay = [r \in Relay |-> NoEvent]
    /\ lowerIsNewer \in BOOLEAN
    /\ reached = {}
    /\ booted = 0
    /\ restarts = 0

-----------------------------------------------------------------------------
(* Relays.                                                                 *)

Supersedes(e, f) ==
    \/ e.at > f.at
    \/ e.at = f.at /\ IF lowerIsNewer THEN e.made > f.made ELSE e.made < f.made

Takes(r, e) == relay[r] = NoEvent \/ Supersedes(e, relay[r])

Acknowledges(r, e) == Takes(r, e) \/ relay[r] = e \/ ~RefuseReplaced

Delivered(e, up) == [r \in Relay |-> IF r \in up /\ Takes(r, e) THEN e ELSE relay[r]]

\* Which relays a publish can reach.
Reachable == IF RelayOutages THEN SUBSET Relay ELSE {Relay}

\* Of those reached, which answers come back within the timeout.
Answers(e, up) ==
    LET ok == {r \in up : Acknowledges(r, e)}
    IN  IF RelayOutages THEN SUBSET ok ELSE {ok}

-----------------------------------------------------------------------------
(* The task: one or two snapshots per handler, all of the same second.     *)

Snapshot(n, s) == [made |-> sent + n, at |-> clock, status |-> s]

\* buildTaskSnapshot and publishTaskSnapshot for each state in turn.
Publish(states) ==
    /\ sent + Len(states) <= MaxSnapshots
    /\ sent' = sent + Len(states)
    /\ sentAt' = clock
    /\ inflight' = inflight \cup {Snapshot(n, states[n]) : n \in DOMAIN states}
    /\ UNCHANGED <<clock, outbox, relay, lowerIsNewer, reached, booted, restarts>>

Request ==
    /\ sent = 0
    /\ status' = TaskProfile.initial
    /\ Publish(<<TaskProfile.initial>>)

\* acceptRide, then startEnRoute in the same turn: two snapshots at once.
Accept ==
    /\ status = TaskProfile.initial
    /\ status' = TaskProfile.enRoute
    /\ Publish(<<TaskProfile.matched, TaskProfile.enRoute>>)

\* Every other move along the table: arrive, start, complete, cancel, and the
\* raw /transition.
Move(s) ==
    /\ status # NoRecord
    /\ s \in Allowed(TaskProfile, status)
    /\ status' = s
    /\ Publish(<<s>>)

\* A mutation that leaves the status alone: location, fare, rating.
Touch ==
    /\ status # NoRecord
    /\ UNCHANGED status
    /\ Publish(<<status>>)

Tick ==
    /\ clock < MaxSecond
    /\ clock' = clock + 1
    /\ UNCHANGED <<status, sent, sentAt, inflight, outbox, relay, lowerIsNewer, reached,
                   booted, restarts>>

-----------------------------------------------------------------------------
(* Publishing.                                                             *)

\* Mutant of Buffer: a failed publish is logged and forgotten.
Buffer_Nothing(e) == outbox

\* bufferOutbox: at the limit the oldest entry goes.
Buffer(e) ==
    Append(IF Len(outbox) >= OutboxMax THEN Tail(outbox) ELSE outbox, e)

\* publishWithOutbox returns: some relay acknowledged, or the event is buffered.
PublishEnds(e) ==
    /\ e \in inflight
    /\ inflight' = inflight \ {e}
    /\ \E up \in Reachable : \E ok \in Answers(e, up) :
        /\ relay' = Delivered(e, up)
        /\ IF ok = {}
             THEN outbox' = Buffer(e) /\ UNCHANGED reached
             ELSE reached' = reached \cup {e.made} /\ UNCHANGED outbox
    /\ UNCHANGED <<status, clock, sent, sentAt, lowerIsNewer, booted, restarts>>

Unbuffer(i) == SubSeq(outbox, 1, i - 1) \o SubSeq(outbox, i + 1, Len(outbox))

\* The retry round publishes entry i of the outbox again: the relays in up are
\* reached, the answers of those in ok come back.
RetryAt(i, up, ok) ==
    /\ i \in 1..RetryBatch
    /\ i <= Len(outbox)
    /\ relay' = Delivered(outbox[i], up)
    /\ outbox' = IF ok = {} THEN outbox ELSE Unbuffer(i)
    /\ reached' = IF ok = {} THEN reached ELSE reached \cup {outbox[i].made}
    /\ UNCHANGED <<status, clock, sent, sentAt, inflight, lowerIsNewer, booted, restarts>>

Retry(i) == \E up \in Reachable : \E ok \in Answers(outbox[i], up) : RetryAt(i, up, ok)

-----------------------------------------------------------------------------
(* Reboot: memory, publishes in flight and the outbox are gone.           *)

\* rehydrateFromNostr walks the events in the order they arrived.  A terminal
\* one is skipped and not remembered; the first live one is hydrated and every
\* later one finds the task in memory.
Restored(answering) ==
    LET live == {r \in answering : relay[r] # NoEvent /\ ~Terminal(relay[r].status)}
    IN  IF live = {} THEN {NoRecord} ELSE {relay[r].status : r \in live}

Reboot(answering) ==
    /\ restarts < MaxRestarts
    /\ restarts' = restarts + 1
    /\ status' \in Restored(answering)
    /\ inflight' = {}
    /\ outbox' = <<>>
    /\ booted' = sent
    /\ UNCHANGED <<clock, sent, sentAt, relay, lowerIsNewer, reached>>

SnapshotNext ==
    \/ Request
    \/ Accept
    \/ \E s \in Status : Move(s)
    \/ Touch
    \/ Tick
    \/ \E e \in inflight : PublishEnds(e)
    \/ \E i \in DOMAIN outbox : Retry(i)
    \/ \E answering \in Reachable : Reboot(answering)

SnapshotSpec == SnapshotInit /\ [][SnapshotNext]_snapshotVars

\* Publishes end because each relay has a timeout; the retry timer keeps
\* firing, and an entry it keeps reaching is in the end retried while every
\* relay can be reached.  What users do, and restarts, are left unfair.
RetryOf(n) ==
    \E i \in DOMAIN outbox :
        /\ outbox[i].made = n
        /\ RetryAt(i, Relay, {r \in Relay : Acknowledges(r, outbox[i])})

SnapshotFairness ==
    /\ WF_snapshotVars(\E e \in inflight : PublishEnds(e))
    /\ \A n \in 1..MaxSnapshots : WF_snapshotVars(RetryOf(n))

SnapshotLiveSpec == SnapshotSpec /\ SnapshotFairness

-----------------------------------------------------------------------------
(* Properties.                                                             *)

\* Every snapshot this process made is still being published, waits in the
\* outbox or reached a relay ("buffered and retried, never silently dropped"),
\* whatever ends in whatever order.  Holds while no more than OutboxMax wait.
NothingDropped ==
    \A n \in (booted + 1)..sent :
        \/ n \in reached
        \/ \E e \in inflight : e.made = n
        \/ \E i \in DOMAIN outbox : outbox[i].made = n

\* When nothing is left to publish, the task's latest change is on a relay, to the
\* second: whichever relays missed which snapshot, whichever answers were lost, and in
\* whatever order publishes and retries ended (publishWithOutbox, and the retry timer of
\* startServer).  Holds as NothingDropped does.
QuietIsSaved ==
    inflight = {} /\ outbox = <<>> /\ sent > booted =>
        \E r \in Relay : relay[r] # NoEvent /\ relay[r].at >= sentAt

\* The task's latest change is in the end on a relay, to the second: some relay
\* holds a snapshot made in the second of the latest, or a later one (or the
\* process has restarted and made none yet).
LatestReachesRelay ==
    []<>(sent = booted \/ \E r \in Relay : relay[r] # NoEvent /\ relay[r].at >= sentAt)

=============================================================================
