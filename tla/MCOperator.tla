------------------------------ MODULE MCOperator -------------------------------
(***************************************************************************)
(* Instances for TLC of the ridesharing engine, of the snapshots it leaves *)
(* with two relays, and of the socket a page follows a task by.  A         *)
(* behaviour is of one of the three.                                       *)
(***************************************************************************)
EXTENDS MCTaskManager, Snapshots, TaskSocket

CONSTANTS s1, s2, r1, r2

MCSockets == {s1, s2}
MCRelays  == {r1, r2}

VARIABLE part

mcVars == <<vars, snapshotVars, socketVars, part>>

MCInit ==
    /\ Init /\ SnapshotInit /\ SocketInit
    /\ part \in {"tasks", "snapshots", "socket"}
    /\ part # "socket" => ~keyed
    /\ part # "snapshots" => lowerIsNewer

\* Relays are alike: the second is never the first to differ from the other.
RelayBound == relay[r1] = relay[r2] => relay'[r2] \in {relay[r2], relay'[r1]}

\* Tasks are alike, and so are sockets: the first of each is used first.
SocketBound ==
    /\ page'.task = t2 => pages' > 1
    /\ page'.socket = s2 /\ page.socket # s2 => ~Is(s1, "gone")

MCNext ==
    \/ part = "tasks"     /\ Next         /\ UNCHANGED <<snapshotVars, socketVars, part>>
    \/ part = "snapshots" /\ SnapshotNext /\ RelayBound
                              /\ UNCHANGED <<vars, socketVars, part>>
    \/ part = "socket"    /\ SocketNext   /\ SocketBound
                              /\ UNCHANGED <<vars, snapshotVars, part>>

\* What is fair of one part is never enabled in a behaviour of another.
MCSpec == MCInit /\ [][MCNext]_mcVars /\ SnapshotFairness /\ SocketFairness
================================================================================
