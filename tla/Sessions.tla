------------------------------ MODULE Sessions ------------------------------
(***************************************************************************)
(* Login sessions: the store (session.rs), its reaper, the REST extractor  *)
(* and logout (auth.rs), and the way a browser socket's handler uses its   *)
(* session (ws.rs).                                                        *)
(*                                                                         *)
(* Time is discrete and relative: a session has its age and the time since *)
(* its last activity, a periodic task the time to its next tick, and Tick  *)
(* moves them all by one.  A task that is due runs before time moves on,   *)
(* but a handler in the middle of a frame may take any time over it.       *)
(***************************************************************************)
EXTENDS Naturals

CONSTANTS
    Session,      \* session ids; Uuid::new_v4 draws each once
    Socket,       \* browser WebSockets, each used once
    IdleTimeout,  \* idle_timeout_secs
    MaxLifetime,  \* DEFAULT_MAX_LIFETIME_SECS
    ReapPeriod,   \* the reaper's interval
    CheckPeriod,  \* the interval of a socket's session_check
    NoSession     \* a socket that has not authenticated

ASSUME SessionAssumption == NoSession \notin Session

ASSUME TimeAssumption ==
    /\ IdleTimeout \in Nat
    /\ MaxLifetime \in Nat
    /\ ReapPeriod \in Nat \ {0}
    /\ CheckPeriod \in Nat \ {0}

VARIABLES
    made,     \* the sessions login has created so far
    store,    \* SessionStore.inner: the ids it holds
    age,      \* age[s]: created_at.elapsed() of a stored session
    idle,     \* idle[s]: last_activity.elapsed() of a stored session
    reapIn,   \* time to the reaper's next tick
    sock,     \* sock[w]: where the handler of w is
    sid,      \* sid[w]: the session id w authenticated with
    checkIn   \* checkIn[w]: time to w's next session_check tick

storeVars  == <<made, store, age, idle>>
socketVars == <<sock, sid, checkIn>>
vars == <<made, store, age, idle, reapIn, sock, sid, checkIn>>

\* "checked": get_valid has answered, touch is still to come; "busy": inside a frame.
SocketPhase == {"new", "checked", "waiting", "busy", "closed"}
Serving == {"checked", "waiting", "busy"}

TypeOK ==
    /\ made \subseteq Session
    /\ store \subseteq made
    /\ age \in [Session -> Nat]
    /\ idle \in [Session -> Nat]
    /\ reapIn \in 0..ReapPeriod
    /\ sock \in [Socket -> SocketPhase]
    /\ sid \in [Socket -> Session \cup {NoSession}]
    /\ checkIn \in [Socket -> 0..CheckPeriod]
    /\ \A w \in Socket : sock[w] \in Serving => sid[w] \in made

Init ==
    /\ made = {} /\ store = {}
    /\ age = [s \in Session |-> 0]
    /\ idle = [s \in Session |-> 0]
    /\ reapIn = 0
    /\ sock = [w \in Socket |-> "new"]
    /\ sid = [w \in Socket |-> NoSession]
    /\ checkIn = [w \in Socket |-> 0]

-----------------------------------------------------------------------------
(* The store. *)

\* idle_ok && age_ok.
ValidIdleOnly(s) == idle[s] <= IdleTimeout  \* mutant: the lifetime cap forgotten

Valid(s) == idle[s] <= IdleTimeout /\ age[s] <= MaxLifetime

\* touch: a session that is no longer stored is left alone.
Insert(s) ==  \* mutant: an insert where the code updates in place
    /\ store' = store \cup {s}
    /\ idle' = [idle EXCEPT ![s] = 0]

Touch(s) ==
    /\ idle' = IF s \in store THEN [idle EXCEPT ![s] = 0] ELSE idle
    /\ store' = store

\* get_valid answers Some and refreshes the session ...
Accepts(s) ==
    /\ s \in store /\ Valid(s)
    /\ idle' = [idle EXCEPT ![s] = 0]
    /\ UNCHANGED <<made, store, age>>

\* ... or None, removing a session that has expired.
Rejects(s) ==
    /\ s \notin store \/ ~Valid(s)
    /\ store' = store \ {s}
    /\ UNCHANGED <<made, age, idle>>

\* login, once PAM has accepted the password.
Login(s) ==
    /\ s \notin made
    /\ made' = made \cup {s}
    /\ store' = store \cup {s}
    /\ age' = [age EXCEPT ![s] = 0]
    /\ idle' = [idle EXCEPT ![s] = 0]
    /\ UNCHANGED <<reapIn, socketVars>>

\* A REST request with the bearer token s passes the extractor, or is turned away.
RestAccepted(s) == Accepts(s) /\ UNCHANGED <<reapIn, socketVars>>
RestRejected(s) == s \in made /\ Rejects(s) /\ UNCHANGED <<reapIn, socketVars>>

\* logout removes whatever session the token names, expired or not.
Logout(s) ==
    /\ s \in store
    /\ store' = store \ {s}
    /\ UNCHANGED <<made, age, idle, reapIn, socketVars>>

\* reap_expired, once the interval has elapsed.
Reap ==
    /\ reapIn = 0
    /\ store' = {s \in store : Valid(s)}
    /\ reapIn' = ReapPeriod
    /\ UNCHANGED <<made, age, idle, socketVars>>

-----------------------------------------------------------------------------
(* A browser socket. *)

\* The Auth frame names a session that get_valid accepts.  Its second look at
\* last_activity follows at once and cannot fail.
SocketAuthenticates(w, s) ==
    /\ sock[w] = "new"
    /\ Accepts(s)
    /\ sock' = [sock EXCEPT ![w] = "checked"]
    /\ sid' = [sid EXCEPT ![w] = s]
    /\ UNCHANGED <<reapIn, checkIn>>

\* Mutant: the handler goes on after a failed lookup.
SocketGoesOn(w, s) ==
    /\ sock[w] = "new"
    /\ s \in made
    /\ Rejects(s)
    /\ sock' = [sock EXCEPT ![w] = "checked"]
    /\ UNCHANGED <<reapIn, sid, checkIn>>

\* ... or one it rejects: AuthResult "invalid-session", and the handler returns.
SocketRefused(w, s) ==
    /\ sock[w] = "new"
    /\ s \in made
    /\ Rejects(s)
    /\ sock' = [sock EXCEPT ![w] = "closed"]
    /\ UNCHANGED <<reapIn, sid, checkIn>>

\* touch, AuthResult and the start of the frame loop with its check interval.
SocketStarts(w) ==
    /\ sock[w] = "checked"
    /\ Touch(sid[w])
    /\ sock' = [sock EXCEPT ![w] = "waiting"]
    /\ checkIn' = [checkIn EXCEPT ![w] = CheckPeriod]
    /\ UNCHANGED <<made, age, reapIn, sid>>

\* A text frame: the session is touched, not validated, and the frame is served ...
SocketFrame(w) ==
    /\ sock[w] = "waiting"
    /\ Touch(sid[w])
    /\ sock' = [sock EXCEPT ![w] = "busy"]
    /\ UNCHANGED <<made, age, reapIn, sid, checkIn>>

\* ... until its last await is over.
SocketServed(w) ==
    /\ sock[w] = "busy"
    /\ sock' = [sock EXCEPT ![w] = "waiting"]
    /\ UNCHANGED <<storeVars, reapIn, sid, checkIn>>

\* Mutant: only the answer is dropped, the socket stays.
SocketStays(w) ==
    /\ sock[w] = "waiting" /\ checkIn[w] = 0
    /\ checkIn' = [checkIn EXCEPT ![w] = CheckPeriod]
    /\ UNCHANGED <<storeVars, reapIn, sock, sid>>

\* session_check finds the session (get: stored, valid or not).  Ticks missed while busy
\* are made up for at once, so the next one may be nearer than a whole period.
SocketChecked(w) ==
    /\ sock[w] = "waiting" /\ checkIn[w] = 0
    /\ sid[w] \in store
    /\ \E n \in 1..CheckPeriod : checkIn' = [checkIn EXCEPT ![w] = n]
    /\ UNCHANGED <<storeVars, reapIn, sock, sid>>

\* session_check finds no session and closes the socket.
SocketInvalidated(w) ==
    /\ sock[w] = "waiting" /\ checkIn[w] = 0
    /\ sid[w] \notin store
    /\ sock' = [sock EXCEPT ![w] = "closed"]
    /\ UNCHANGED <<storeVars, reapIn, sid, checkIn>>

\* The browser closes the socket, or the connection is lost.
SocketLeaves(w) ==
    /\ sock[w] = "waiting"
    /\ sock' = [sock EXCEPT ![w] = "closed"]
    /\ UNCHANGED <<storeVars, reapIn, sid, checkIn>>

-----------------------------------------------------------------------------

\* Time passes, unless the reaper or a handler has something due.
Tick ==
    /\ reapIn > 0
    /\ \A w \in Socket : sock[w] # "checked"
    /\ \A w \in Socket : sock[w] = "waiting" => checkIn[w] > 0
    /\ reapIn' = reapIn - 1
    /\ age' = [s \in Session |-> IF s \in store THEN age[s] + 1 ELSE age[s]]
    /\ idle' = [s \in Session |-> IF s \in store THEN idle[s] + 1 ELSE idle[s]]
    /\ checkIn' = [w \in Socket |-> IF checkIn[w] > 0 THEN checkIn[w] - 1 ELSE 0]
    /\ UNCHANGED <<made, store, sock, sid>>

StoreNext(s) == Login(s) \/ RestAccepted(s) \/ RestRejected(s) \/ Logout(s)

SocketNext(w) ==
    \/ \E s \in Session : SocketAuthenticates(w, s) \/ SocketRefused(w, s)
    \/ SocketStarts(w) \/ SocketFrame(w) \/ SocketServed(w)
    \/ SocketChecked(w) \/ SocketInvalidated(w) \/ SocketLeaves(w)

Next ==
    \/ \E s \in Session : StoreNext(s)
    \/ \E w \in Socket : SocketNext(w)
    \/ Reap
    \/ Tick

Spec == Init /\ [][Next]_vars

\* Time passes, the reaper runs, a frame is served sooner or later, and select! takes a
\* branch that is ready again and again.
Fairness ==
    /\ WF_vars(Tick)
    /\ WF_vars(Reap)
    /\ \A w \in Socket :
        /\ WF_vars(SocketStarts(w))
        /\ WF_vars(SocketServed(w))
        /\ SF_vars(SocketChecked(w))
        /\ SF_vars(SocketInvalidated(w))

FairSpec == Spec /\ Fairness

-----------------------------------------------------------------------------
(* Properties. *)

\* A stored session is never older, nor longer inactive, than its limit and one period of
\* the reaper, whatever requests and frames use it: spawn_reaper and reap_expired.
ExpiredIsReaped ==
    \A s \in store : age[s] <= MaxLifetime + ReapPeriod /\ idle[s] <= IdleTimeout + ReapPeriod

\* A session that was logged out, reaped or found expired stays away: no touch of a socket
\* that outlives it brings it back.
RemovedStaysRemoved == [][\A s \in made \ store : s \notin store']_vars

\* Every session ends, and every socket authenticated with it is closed, however busy the
\* browser keeps it: the absolute lifetime and the session_check of ws.rs.
SessionsEnd ==
    \A s \in Session : s \in made ~>
        /\ s \notin store
        /\ \A w \in Socket : sid[w] = s => sock[w] \notin Serving

\* An expired session is not used again before the reaper removes it: "a session is never
\* accepted in the window between its expiry and the next reaper pass" (session.rs, get_valid).
ExpiredStaysExpired == [][\A s \in store \cap store' : ~Valid(s) => ~Valid(s)']_vars
=============================================================================
