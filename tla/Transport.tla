------------------------------ MODULE Transport ------------------------------
(***************************************************************************)
(* transport.ts: the page's connection to the gateway, with the Shell that *)
(* starts and ends it (Shell.tsx) and the gateway's side of its            *)
(* authentication (handle_socket of ws.rs).                                *)
(*                                                                         *)
(* The variables of transport.ts are of the page, its handlers of one      *)
(* socket each: the events of a socket that was given up still arrive.     *)
(* What is sent on channels is ChannelMux's subject.                       *)
(***************************************************************************)
EXTENDS HostCommand

CONSTANTS
    WebSocket,  \* sockets of the page; used again when they are closed
    NoSocket,
    MaxFaults   \* bound: lost connections, logouts and ended sessions in a behaviour

ASSUME TransportAssumption == NoSocket \notin WebSocket /\ MaxFaults \in Nat

VARIABLES
    session,  \* session_id: "none", "valid", or "ended" at the gateway
    socket,   \* socket[s]: where it is; "closing" until its onclose
    old,      \* the sockets that authenticated for a session that ended
    ws,       \* ws
    promise,  \* the socket connectPromise is about
    timer,    \* reconnectTimer is set
    connected,    \* the page shows that it is connected
    faults

transportState == <<session, socket, old, ws, promise, timer, connected, faults>>
transportVars  == <<reply, transportState>>

Phase == {"none", "connecting", "open", "sent", "authed", "closing"}

TransportTypeOK ==
    /\ session \in {"none", "valid", "ended"}
    /\ socket \in [WebSocket -> Phase]
    /\ old \subseteq WebSocket
    /\ {ws, promise} \subseteq WebSocket \cup {NoSocket}
    /\ {timer, connected} \subseteq BOOLEAN
    /\ faults \in 0..MaxFaults

TransportInit ==
    /\ reply = NoReply
    /\ session = "none"
    /\ socket = [s \in WebSocket |-> "none"]
    /\ old = {}
    /\ ws = NoSocket /\ promise = NoSocket
    /\ timer = FALSE /\ connected = FALSE
    /\ faults = 0

Fault == faults < MaxFaults /\ faults' = faults + 1

\* The sockets in S are closed, by the page or under it.
Closed(S) == [s \in WebSocket |-> IF s \in S THEN "closing" ELSE socket[s]]

\* A new socket, where connect() finds no promise.
Dials == \E s \in WebSocket :
    /\ socket[s] = "none"
    /\ socket' = [socket EXCEPT ![s] = "connecting"]
    /\ ws' = s /\ promise' = s

\* What was authenticated for the session no longer is.
EndsSession == old' = old \cup {s \in WebSocket : socket[s] \in {"sent", "authed"}}

-----------------------------------------------------------------------------
(* The page. *)

\* Shell mounts and calls connect().
Login ==
    /\ session = "none" /\ promise = NoSocket
    /\ session' = "valid"
    /\ Dials
    /\ UNCHANGED <<old, timer, connected, faults>>

\* handleLogout, and disconnect(), after which nothing tells the old socket's onclose that the
\* close was intended.
Logout ==
    /\ session # "none" /\ Fault
    /\ session' = "none"
    /\ EndsSession
    /\ socket' = Closed({ws})
    /\ ws' = NoSocket /\ promise' = NoSocket
    /\ timer' = FALSE /\ connected' = FALSE

\* onopen sends the token on the page's socket of the moment, which need not be s: on another it
\* fails or is ignored.
Opens(s) ==
    /\ socket[s] = "connecting"
    /\ socket' = [socket EXCEPT ![s] = IF ws = s THEN "sent" ELSE "open"]
    /\ old' = IF ws = s /\ session # "valid" THEN old \cup {s} ELSE old
    /\ UNCHANGED <<session, ws, promise, timer, connected, faults>>

\* Mutant: connectPromise outlives its socket.
OnCloseKept(s) ==
    /\ socket[s] = "closing"
    /\ socket' = [socket EXCEPT ![s] = "none"]
    /\ old' = old \ {s}
    /\ ws' = NoSocket
    /\ timer' = TRUE /\ connected' = (timer /\ connected)
    /\ UNCHANGED <<session, promise, faults>>

\* onclose clears the page's connection, whichever socket closed, and schedules a reconnect,
\* which is announced unless one was scheduled.
OnClose(s) ==
    /\ socket[s] = "closing"
    /\ socket' = [socket EXCEPT ![s] = "none"]
    /\ old' = old \ {s}
    /\ ws' = NoSocket /\ promise' = NoSocket
    /\ timer' = TRUE /\ connected' = (timer /\ connected)
    /\ UNCHANGED <<session, faults>>

\* The reconnect timer: connect() makes a socket, or hands out the promise there is, which may
\* be kept, pending, or of a socket that is closing and so broken or kept.
TimerFires ==
    /\ timer
    /\ IF session = "none"
       THEN timer' = FALSE /\ connected' = FALSE /\ UNCHANGED <<socket, ws, promise>>
       ELSE IF promise = NoSocket
       THEN timer' = FALSE /\ Dials /\ UNCHANGED connected
       ELSE /\ CASE socket[promise] = "authed" -> timer' = FALSE /\ connected' = TRUE
                 [] socket[promise] = "closing" -> timer' \in BOOLEAN /\ connected' \in {connected, ~timer'}
                 [] OTHER -> timer' = FALSE /\ UNCHANGED connected
            /\ UNCHANGED <<socket, ws, promise>>
    /\ UNCHANGED <<session, old, faults>>

-----------------------------------------------------------------------------
(* The gateway and the network. *)

\* AuthResult with success keeps the promise of s, be it the page's socket or not.
Accepted(s) ==
    /\ socket[s] = "sent" /\ s \notin old
    /\ socket' = [socket EXCEPT ![s] = "authed"]
    /\ connected' = TRUE
    /\ UNCHANGED <<session, old, ws, promise, timer, faults>>

\* No socket but s is on its way.
Alone(s) == \A t \in WebSocket \ {s} : socket[t] \in {"none", "open", "authed"}

\* AuthResult without: for an ended session, or when no token came in 10 s, which is longer than
\* the sockets made before need to open, be answered or close.  The page closes its socket of the
\* moment, the gateway this one.  Who made s is told: the timer schedules again, a Shell that is
\* there shows it.
Rejected(s) ==
    /\ (socket[s] = "open" /\ Alone(s)) \/ (socket[s] = "sent" /\ s \in old)
    /\ socket' = Closed({s, ws})
    /\ \/ timer' = TRUE /\ connected' = (timer /\ connected)
       \/ UNCHANGED timer /\ connected' \in {connected, FALSE}
    /\ UNCHANGED <<session, old, ws, promise, faults>>

\* The session check of an authenticated socket.
Invalidated(s) ==
    /\ socket[s] = "authed" /\ s \in old
    /\ socket' = Closed({s})
    /\ UNCHANGED <<session, old, ws, promise, timer, connected, faults>>

Dropped(s) ==
    /\ socket[s] \notin {"none", "closing"} /\ Fault
    /\ socket' = Closed({s})
    /\ UNCHANGED <<session, old, ws, promise, timer, connected>>

SessionExpires ==
    /\ session = "valid" /\ Fault
    /\ session' = "ended"
    /\ EndsSession
    /\ UNCHANGED <<socket, ws, promise, timer, connected>>

TransportNext ==
    /\ \/ Login \/ Logout \/ TimerFires \/ SessionExpires
       \/ \E s \in WebSocket : \/ Opens(s) \/ OnClose(s)
                               \/ Accepted(s) \/ Rejected(s) \/ Invalidated(s) \/ Dropped(s)
    /\ reply' = reply

\* The browser delivers events, the timer fires, the gateway answers and gives up waiting.  The
\* timer's delay is random and does not end before the last close every time.
TransportFairness ==
    /\ WF_transportState(TimerFires)
    /\ \A s \in WebSocket :
        /\ WF_transportState(Opens(s)) /\ WF_transportState(OnClose(s))
        /\ WF_transportState(Accepted(s) \/ Rejected(s) \/ Invalidated(s))
        /\ SF_transportState(timer /\ Alone(s) /\ OnClose(s))

-----------------------------------------------------------------------------
(* Properties. *)

\* However often connections were lost and users left and came back, and although an old
\* socket's end takes the page's newer one along, a page with a session comes to be connected
\* for good: it says so, and its socket is one the gateway has accepted (scheduleReconnect,
\* onclose and disconnect).
PageComesBack ==
    <>[](session = "valid" => connected /\ ws # NoSocket /\ socket[ws] = "authed")
=============================================================================
