------------------------------ MODULE TaskSocket -------------------------------
(***************************************************************************)
(* The socket a page follows its task by: TaskWebSocket of websocket.ts,   *)
(* which useWebSocket.ts opens and closes, and the operator's hub          *)
(* (server.js), which answers its frames and drops what does not answer.   *)
(*                                                                         *)
(* One object serves every socket it ever opened: a handler of an older    *)
(* socket, or a signature asked for by one, acts on the fields of now.     *)
(***************************************************************************)
EXTENDS Naturals, Sequences, FiniteSets

CONSTANTS
    Trip,      \* tasks a page can be open on
    NoTrip,
    Socket,    \* names of sockets, used again when one is gone
    NoSocket,
    MaxPages,  \* bound: pages opened
    MaxFaults  \* bound: sockets lost

ASSUME SocketAssumption ==
    /\ NoTrip \notin Trip /\ NoSocket \notin Socket /\ IsFiniteSet(Socket)
    /\ MaxPages \in Nat /\ MaxFaults \in Nat

VARIABLES
    enforced, \* the operator asks for a signed frame first
    keyed,    \* the app has an identity to sign with
    page,     \* the fields of TaskWebSocket
    line,     \* each socket: its two directions, and what the hub knows of it
    pages,    \* pages opened so far
    faults,   \* sockets lost so far
    slipped,  \* bound: one signature has failed
    crossed   \* history: a socket was opened over one that was not gone

socketVars == <<enforced, keyed, page, line, pages, faults, slipped, crossed>>

Gone == [ state |-> "gone", task |-> NoTrip, signing |-> "no",
          up |-> <<>>, down |-> <<>>, authed |-> FALSE, room |-> NoTrip ]

Idle == [ task |-> NoTrip, socket |-> NoSocket, again |-> FALSE, awaiting |-> FALSE,
          retried |-> FALSE, timer |-> FALSE, queue |-> <<>>, reconnect |-> FALSE ]

SocketInit ==
    /\ enforced \in BOOLEAN /\ keyed \in BOOLEAN /\ (enforced => keyed)
    /\ page = Idle /\ line = [s \in Socket |-> Gone]
    /\ pages = 0 /\ faults = 0 /\ slipped = FALSE /\ crossed = FALSE

Is(s, state) == line[s].state = state
Live == {s \in Socket : ~Is(s, "gone")}

--------------------------------------------------------------------------------
(* Opening and closing.                                                        *)

\* close() of the current socket, whose close event comes later.
Closing(l, s) == IF s = NoSocket \/ l[s].state = "gone" THEN l
                 ELSE [l EXCEPT ![s].state = "closing"]

\* disconnect, and then a new socket for t.
Connects(t) ==
    \E s \in Socket :
        /\ Is(s, "gone")
        /\ page' = [Idle EXCEPT !.task = t, !.socket = s, !.again = TRUE]
        /\ line' = [Closing(line, page.socket) EXCEPT ![s].state = "opening", ![s].task = t]
        /\ crossed' = (crossed \/ Live # {})

\* A page mounts, or its task or operator changes.
Open(t) ==
    /\ pages < MaxPages
    /\ pages' = pages + 1
    /\ Connects(t)
    /\ UNCHANGED <<enforced, keyed, faults, slipped>>

Leave ==
    /\ page.task # NoTrip
    /\ page' = Idle
    /\ line' = Closing(line, page.socket)
    /\ UNCHANGED <<enforced, keyed, pages, faults, slipped, crossed>>

\* Three seconds after a close event that was to be followed by another socket.
ReconnectDue ==
    /\ page.reconnect /\ page.task # NoTrip
    /\ Connects(page.task)
    /\ UNCHANGED <<enforced, keyed, pages, faults, slipped>>

\* onclose, of whichever socket.  A timer set over another counts as that one.
CloseEvent(s) ==
    /\ line' = [line EXCEPT ![s] = Gone]
    /\ page' = [page EXCEPT !.reconnect = @ \/ (page.again /\ page.task # NoTrip)]
    /\ UNCHANGED <<enforced, keyed, pages, slipped, crossed>>

Closes(s) == Is(s, "closing") /\ CloseEvent(s) /\ UNCHANGED faults

\* The network, or the hub's heartbeat that had no answer.
Drops(s) ==
    /\ line[s].state \in {"opening", "open"} /\ faults < MaxFaults
    /\ faults' = faults + 1
    /\ CloseEvent(s)

--------------------------------------------------------------------------------
(* The handshake.                                                              *)

Subscribe(t) == [type |-> "subscribe_ride", task |-> t]
Auth == [type |-> "auth", task |-> NoTrip]

\* rawSend goes to the socket of now, if that is open.
Sent(l, s, frames) ==
    IF s # NoSocket /\ l[s].state = "open"
      THEN [l EXCEPT ![s].up = @ \o frames] ELSE l

\* onopen: with an identity, the socket's signature comes first.
Opens(s) ==
    /\ Is(s, "opening")
    /\ IF keyed
         THEN /\ page' = [page EXCEPT !.awaiting = TRUE]
              /\ line' = [line EXCEPT ![s].state = "open", ![s].signing = "open"]
         ELSE /\ line' = [line EXCEPT ![s].state = "open", ![s].up = <<Subscribe(line[s].task)>>]
              /\ UNCHANGED page
    /\ UNCHANGED <<enforced, keyed, pages, faults, slipped, crossed>>

\* The signature asked for by s is there: the rest of its onopen, or of the retry.
Signed(s) ==
    LET t == line[s].task
        sent == Sent(line, page.socket, <<Auth>>) IN
    /\ line[s].signing # "no"
    /\ IF line[s].signing = "retry"
         THEN line' = [sent EXCEPT ![s].signing = "no"] /\ UNCHANGED page
         ELSE /\ page' = [page EXCEPT !.timer = TRUE,
                                      !.queue = IF page.awaiting THEN Append(@, Subscribe(t))
                                                ELSE @]
              /\ line' = [(IF page.awaiting THEN sent
                           ELSE Sent(sent, page.socket, <<Subscribe(t)>>))
                            EXCEPT ![s].signing = "no"]
    /\ UNCHANGED <<enforced, keyed, pages, faults, slipped, crossed>>

SignFails(s) ==
    /\ line[s].signing # "no" /\ ~slipped
    /\ slipped' = TRUE
    /\ page' = [page EXCEPT !.awaiting = FALSE]
    /\ line' = IF line[s].signing = "retry" THEN [line EXCEPT ![s].signing = "no"]
               ELSE [Sent(line, page.socket, <<Subscribe(line[s].task)>>)
                       EXCEPT ![s].signing = "no"]
    /\ UNCHANGED <<enforced, keyed, pages, faults, crossed>>

Flushed(p) == [p EXCEPT !.awaiting = FALSE, !.queue = <<>>]

\* An operator that knows no such frame never answers one.
AuthTimeout ==
    /\ page.timer
    /\ page' = [(IF page.awaiting THEN Flushed(page) ELSE page) EXCEPT !.timer = FALSE]
    /\ line' = IF page.awaiting THEN Sent(line, page.socket, page.queue) ELSE line
    /\ UNCHANGED <<enforced, keyed, pages, faults, slipped, crossed>>

--------------------------------------------------------------------------------
(* The hub.                                                                    *)

Handled(l, s, frame) ==
    CASE frame.type = "auth" ->
            [l EXCEPT ![s].authed = TRUE, ![s].down = Append(@, "auth_ok")]
      [] frame.type = "subscribe_ride" /\ enforced /\ ~l[s].authed ->
            [l EXCEPT ![s].down = Append(@, "auth_required")]
      [] OTHER -> [l EXCEPT ![s].room = frame.task]

HubHandles(s) ==
    /\ line[s].up # <<>>
    /\ line' = [Handled(line, s, Head(line[s].up)) EXCEPT ![s].up = Tail(@)]
    /\ UNCHANGED <<enforced, keyed, page, pages, faults, slipped, crossed>>

--------------------------------------------------------------------------------
(* The hub's answers, on whichever socket they come.                           *)

Retried_AuthOnly(p) == [p EXCEPT !.retried = TRUE, !.awaiting = TRUE]

\* The subscription is held back until the answer to the signature.
Retried(p) ==
    [p EXCEPT !.retried = TRUE, !.awaiting = TRUE,
              !.queue = IF p.task = NoTrip THEN @ ELSE Append(@, Subscribe(p.task))]

Hears(s) ==
    LET rest == [line EXCEPT ![s].down = Tail(@)] IN
    /\ line[s].down # <<>>
    /\ CASE Head(line[s].down) = "auth_ok" ->
              /\ page' = [Flushed(page) EXCEPT !.timer = FALSE, !.retried = FALSE]
              /\ line' = Sent(rest, page.socket, page.queue)
         [] Head(line[s].down) = "auth_required" /\ ~page.retried ->
              /\ page' = Retried(page)
              /\ line' = [rest EXCEPT ![s].signing = "retry"]
         [] OTHER -> line' = rest /\ UNCHANGED page
    /\ UNCHANGED <<enforced, keyed, pages, faults, slipped, crossed>>

SocketNext ==
    \/ \E t \in Trip : Open(t)
    \/ Leave \/ ReconnectDue \/ AuthTimeout
    \/ \E s \in Socket :
         \/ Closes(s) \/ Drops(s) \/ Opens(s) \/ Signed(s) \/ SignFails(s)
         \/ HubHandles(s) \/ Hears(s)

\* Frames arrive, timers fire, close events and signatures come.
SocketFairness ==
    /\ WF_socketVars(ReconnectDue) /\ WF_socketVars(AuthTimeout)
    /\ \A s \in Socket :
         WF_socketVars(Closes(s) \/ Opens(s) \/ Signed(s) \/ HubHandles(s) \/ Hears(s))

SocketSpec == SocketInit /\ [][SocketNext]_socketVars /\ SocketFairness

--------------------------------------------------------------------------------
(* Properties.                                                                 *)

Following == page.socket # NoSocket /\ line[page.socket].room = page.task

\* A page that stays comes to hear of its task again: after any socket lost, a signature
\* that failed, an answer that came late or an operator that never asks for one, the
\* hub has a socket of the page subscribed to its task, unless one was opened before
\* another was gone (connect, onclose and the handshake of TaskWebSocket).
FollowsInTheEnd == <>[](page.task # NoTrip /\ ~crossed => Following)
================================================================================
