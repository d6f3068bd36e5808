---------------------------- MODULE AgentRegistry ----------------------------
(***************************************************************************)
(* The gateway's registry of connected agents (agent_registry.rs), the     *)
(* tail of the agent connection handler that fills and empties it          *)
(* (agent_ws.rs), the cache of agent senders each browser socket keeps     *)
(* (ws.rs), and the one-shot calls the REST handlers make through an agent *)
(* (execute_rpc).                                                          *)
(*                                                                         *)
(* Every lock acquisition that another task can get between is a step      *)
(* boundary.  An Arc<AgentConn> is kept alive by the registry and by every *)
(* task that cloned it out of the registry and has not finished with it.   *)
(***************************************************************************)
EXTENDS FiniteSets, Naturals

CONSTANTS
    Host,             \* enrolled hosts, by id
    Conn,             \* agent WebSocket connections, each used once
    HostOf,           \* the host a connection authenticates as
    ReEnrolling,      \* the connections that present a re_enroll token
    Socket,           \* browser WebSockets, each used once
    Prefix,           \* channel id prefixes of browser sessions
    PrefixOf,         \* session_prefix of the session a socket authenticated with
    Rpc,              \* execute_rpc calls; each draws a random prefix of its own
    MaxRemoteAgents,  \* MAX_REMOTE_AGENTS: cached agent senders per socket
    NoConn,           \* no connection
    NoSub             \* no subscriber

ASSUME ConnAssumption ==
    /\ NoConn \notin Conn
    /\ HostOf \in [Conn -> Host]
    /\ ReEnrolling \subseteq Conn

ASSUME SubscriberAssumption ==
    /\ PrefixOf \in [Socket -> Prefix]
    /\ Prefix \cap Rpc = {}
    /\ NoSub \notin Socket \cup Rpc

ASSUME LimitAssumption ==
    /\ IsFiniteSet(Host)
    /\ MaxRemoteAgents \in Nat \ {0}

VARIABLES
    wire,      \* wire[c]: the agent's end of connection c is up
    phase,     \* phase[c]: where the gateway's handler of c is
    registry,  \* AgentRegistry.inner: the AgentConn a host is reached through
    subs,      \* subs[c]: the subscribers map of c's AgentConn
    sock,      \* sock[w]: whether the browser socket's handler runs
    joining,   \* joining[w]: the AgentConn w's connect_session has cloned
    cache,     \* cache[w]: remote_senders, by host
    rpc,       \* rpc[r]: where the execute_rpc call is
    rpcConn    \* rpcConn[r]: the AgentConn the call has cloned

agentVars   == <<wire, phase>>
browserVars == <<sock, joining, cache>>
rpcVars     == <<rpc, rpcConn>>
vars == <<wire, phase, registry, subs, sock, joining, cache, rpc, rpcConn>>

Phase    == {"idle", "acked", "failed", "serving", "leaving", "gone"}
RpcPhase == {"idle", "cloned", "awaitReady", "awaitData", "answered", "timedOut"}
SubKey   == Prefix \cup Rpc

TypeOK ==
    /\ wire \in [Conn -> BOOLEAN]
    /\ phase \in [Conn -> Phase]
    /\ registry \in [Host -> Conn \cup {NoConn}]
    /\ subs \in [Conn -> [SubKey -> Socket \cup Rpc \cup {NoSub}]]
    /\ sock \in [Socket -> {"new", "open", "closed"}]
    /\ joining \in [Socket -> Conn \cup {NoConn}]
    /\ cache \in [Socket -> [Host -> Conn \cup {NoConn}]]
    /\ rpc \in [Rpc -> RpcPhase]
    /\ rpcConn \in [Rpc -> Conn \cup {NoConn}]

Init ==
    /\ wire = [c \in Conn |-> FALSE]
    /\ phase = [c \in Conn |-> "idle"]
    /\ registry = [h \in Host |-> NoConn]
    /\ subs = [c \in Conn |-> [k \in SubKey |-> NoSub]]
    /\ sock = [w \in Socket |-> "new"]
    /\ joining = [w \in Socket |-> NoConn]
    /\ cache = [w \in Socket |-> [h \in Host |-> NoConn]]
    /\ rpc = [r \in Rpc |-> "idle"]
    /\ rpcConn = [r \in Rpc |-> NoConn]

-----------------------------------------------------------------------------
(* Helpers *)

\* The AgentConn of c still exists, so a Weak to its token still upgrades.
TokenAlive(c) ==
    \/ registry[HostOf[c]] = c
    \/ \E w \in Socket : joining[w] = c
    \/ \E r \in Rpc : rpcConn[r] = c

\* Messages queued for c are still being written to the agent.
WriterAlive(c) == phase[c] = "serving" /\ wire[c]

\* w handles its client's frames: it is open and not inside connect_session.
Ready(w) == sock[w] = "open" /\ joining[w] = NoConn

\* The sender w has cached for h may be used: its token upgrades.
ValidCached(w, h) == cache[w][h] # NoConn /\ TokenAlive(cache[w][h])

Evict(w, h) == [cache EXCEPT ![w][h] = NoConn]

\* The connections whose handler has been past register.
Registered == {c \in Conn : phase[c] \in {"serving", "leaving", "gone"}}

CachedHosts(w) == {h \in Host : cache[w][h] # NoConn}

-----------------------------------------------------------------------------
(* Agent connections *)

\* The handshake of c succeeds and HelloAck is sent (Enrollment models how).  One agent
\* process dials again only when its previous connection is down at its own end.
Authenticate(c) ==
    /\ c \notin ReEnrolling
    /\ phase[c] = "idle"
    /\ \A d \in Conn : HostOf[d] = HostOf[c] => ~wire[d]
    /\ wire' = [wire EXCEPT ![c] = TRUE]
    /\ phase' = [phase EXCEPT ![c] = "acked"]
    /\ UNCHANGED <<registry, subs, browserVars, rpcVars>>

\* c presents a new key with a re_enroll token: the host's entry is removed as
\* well.  The old key's agent may well be connected.
ReEnroll(c) ==
    /\ c \in ReEnrolling
    /\ phase[c] = "idle"
    /\ wire' = [wire EXCEPT ![c] = TRUE]
    /\ phase' = [phase EXCEPT ![c] = "acked"]
    /\ registry' = [registry EXCEPT ![HostOf[c]] = NoConn]
    /\ UNCHANGED <<subs, browserVars, rpcVars>>

\* Mutant of Register: a serving connection may register again.
RegisterAgain(c) ==
    /\ phase[c] \in {"acked", "serving"}
    /\ phase' = [phase EXCEPT ![c] = "serving"]
    /\ registry' = [registry EXCEPT ![HostOf[c]] = c]
    /\ UNCHANGED <<wire, subs, browserVars, rpcVars>>

\* register: a new AgentConn replaces whatever the host had.
Register(c) ==
    /\ phase[c] = "acked"
    /\ phase' = [phase EXCEPT ![c] = "serving"]
    /\ registry' = [registry EXCEPT ![HostOf[c]] = c]
    /\ UNCHANGED <<wire, subs, browserVars, rpcVars>>

\* The HelloAck cannot be written: the handler returns before register.
AckFails(c) ==
    /\ phase[c] = "acked"
    /\ ~wire[c]
    /\ phase' = [phase EXCEPT ![c] = "failed"]
    /\ UNCHANGED <<wire, registry, subs, browserVars, rpcVars>>

\* The agent exits, closes or loses the connection; the gateway has not noticed.
WireDrops(c) ==
    /\ wire[c]
    /\ wire' = [wire EXCEPT ![c] = FALSE]
    /\ UNCHANGED <<phase, registry, subs, browserVars, rpcVars>>

\* Mutant of ReaderEnds: the handler returns from its loop, past the cleanup.
ReaderReturns(c) ==
    /\ phase[c] = "serving"
    /\ ~wire[c]
    /\ phase' = [phase EXCEPT ![c] = "gone"]
    /\ UNCHANGED <<wire, registry, subs, browserVars, rpcVars>>

\* The reader loop sees Close, an error or the end of the stream, however late,
\* and goes on to update_last_seen.
ReaderEnds(c) ==
    /\ phase[c] = "serving"
    /\ ~wire[c]
    /\ phase' = [phase EXCEPT ![c] = "leaving"]
    /\ UNCHANGED <<wire, registry, subs, browserVars, rpcVars>>

\* unregister removes the entry of the host, whichever connection holds it.
Unregister(c) ==
    /\ phase[c] = "leaving"
    /\ phase' = [phase EXCEPT ![c] = "gone"]
    /\ registry' = [registry EXCEPT ![HostOf[c]] = NoConn]
    /\ UNCHANGED <<wire, subs, browserVars, rpcVars>>

-----------------------------------------------------------------------------
(* Browser sockets *)

SocketOpens(w) ==
    /\ sock[w] = "new"
    /\ sock' = [sock EXCEPT ![w] = "open"]
    /\ UNCHANGED <<agentVars, registry, subs, joining, cache, rpcVars>>

\* The handler ends between two frames; the maps are dropped, the subscribers
\* entries it made at the agents stay.
SocketCloses(w) ==
    /\ Ready(w)
    /\ sock' = [sock EXCEPT ![w] = "closed"]
    /\ cache' = [cache EXCEPT ![w] = [h \in Host |-> NoConn]]
    /\ UNCHANGED <<agentVars, registry, subs, joining, rpcVars>>

\* An Open for h finds no usable sender and the socket at its limit once the
\* stale entry is gone.
OpenRefused(w, h) ==
    /\ Ready(w)
    /\ ~ValidCached(w, h)
    /\ cache' = Evict(w, h)
    /\ Cardinality(CachedHosts(w) \ {h}) >= MaxRemoteAgents
    /\ UNCHANGED <<agentVars, registry, subs, sock, joining, rpcVars>>

\* connect_session finds no AgentConn for h: the client is told host-offline.
OpenOffline(w, h) ==
    /\ Ready(w)
    /\ ~ValidCached(w, h)
    /\ Cardinality(CachedHosts(w) \ {h}) < MaxRemoteAgents
    /\ registry[h] = NoConn
    /\ cache' = Evict(w, h)
    /\ UNCHANGED <<agentVars, registry, subs, sock, joining, rpcVars>>

\* Mutant of OpenLooksUp: the limit is off by one.
OpenLooksUpOffByOne(w, h) ==
    /\ Ready(w)
    /\ ~ValidCached(w, h)
    /\ Cardinality(CachedHosts(w) \ {h}) <= MaxRemoteAgents
    /\ registry[h] # NoConn
    /\ cache' = Evict(w, h)
    /\ joining' = [joining EXCEPT ![w] = registry[h]]
    /\ UNCHANGED <<agentVars, registry, subs, sock, rpcVars>>

\* connect_session clones h's AgentConn, then waits for its subscribers lock, which
\* the agent's reader may hold while it waits for a full subscriber
\* (agent_ws.rs:304-306): nothing here says how long.
OpenLooksUp(w, h) ==
    /\ Ready(w)
    /\ ~ValidCached(w, h)
    /\ Cardinality(CachedHosts(w) \ {h}) < MaxRemoteAgents
    /\ registry[h] # NoConn
    /\ cache' = Evict(w, h)
    /\ joining' = [joining EXCEPT ![w] = registry[h]]
    /\ UNCHANGED <<agentVars, registry, subs, sock, rpcVars>>

\* Mutant of OpenSubscribes: the sender is cached without a subscription.
OpenCachesOnly(w) ==
    /\ sock[w] = "open"
    /\ joining[w] # NoConn
    /\ cache' = [cache EXCEPT ![w][HostOf[joining[w]]] = joining[w]]
    /\ joining' = [joining EXCEPT ![w] = NoConn]
    /\ UNCHANGED <<agentVars, registry, subs, sock, rpcVars>>

\* The subscription is made, overwriting the session's previous one, and the
\* sender is cached with the connection's token.
OpenSubscribes(w) ==
    /\ sock[w] = "open"
    /\ joining[w] # NoConn
    /\ LET c == joining[w] IN
        /\ subs' = [subs EXCEPT ![c][PrefixOf[w]] = w]
        /\ cache' = [cache EXCEPT ![w][HostOf[c]] = c]
    /\ joining' = [joining EXCEPT ![w] = NoConn]
    /\ UNCHANGED <<agentVars, registry, sock, rpcVars>>

\* An Open on a cached sender fails because the proxy task behind it has ended:
\* the sender is evicted although its token is alive.
OpenEvicts(w, h) ==
    /\ Ready(w)
    /\ ValidCached(w, h)
    /\ ~WriterAlive(cache[w][h])
    /\ cache' = Evict(w, h)
    /\ UNCHANGED <<agentVars, registry, subs, sock, joining, rpcVars>>

-----------------------------------------------------------------------------
(* One-shot calls *)

RpcMoves(r, to) == rpc' = [rpc EXCEPT ![r] = to]

\* The call waits for the agent's Ready or for its answer.
Waiting(r) == rpc[r] \in {"awaitReady", "awaitData"}

\* The call is over: its clone of the AgentConn is dropped.
RpcEnds(r, how) ==
    /\ RpcMoves(r, how)
    /\ rpcConn' = [rpcConn EXCEPT ![r] = NoConn]

RpcLooksUp(r, h) ==
    /\ rpc[r] = "idle"
    /\ registry[h] # NoConn
    /\ RpcMoves(r, "cloned")
    /\ rpcConn' = [rpcConn EXCEPT ![r] = registry[h]]
    /\ UNCHANGED <<agentVars, registry, subs, browserVars>>

\* Mutant of RpcSubscribes: the connection is stored in place of the call's channel.
RpcSubscribesConn(r) ==
    /\ rpc[r] = "cloned"
    /\ RpcMoves(r, "awaitReady")
    /\ subs' = [subs EXCEPT ![rpcConn[r]][r] = rpcConn[r]]
    /\ UNCHANGED <<agentVars, registry, browserVars, rpcConn>>

\* Subscribes under the call's own prefix and queues the Open.
RpcSubscribes(r) ==
    /\ rpc[r] = "cloned"
    /\ RpcMoves(r, "awaitReady")
    /\ subs' = [subs EXCEPT ![rpcConn[r]][r] = r]
    /\ UNCHANGED <<agentVars, registry, browserVars, rpcConn>>

\* The agent answers Ready; the request data is queued.
RpcReady(r) ==
    /\ rpc[r] = "awaitReady"
    /\ WriterAlive(rpcConn[r])
    /\ subs[rpcConn[r]][r] = r
    /\ RpcMoves(r, "awaitData")
    /\ UNCHANGED <<agentVars, registry, subs, browserVars, rpcConn>>

\* Mutant of RpcAnswered: a Close instead of Ready returns without the removal.
RpcAnsweredLeaves(r) ==
    /\ Waiting(r)
    /\ WriterAlive(rpcConn[r])
    /\ subs[rpcConn[r]][r] = r
    /\ subs' = IF rpc[r] = "awaitReady" THEN subs
               ELSE [subs EXCEPT ![rpcConn[r]][r] = NoSub]
    /\ RpcEnds(r, "answered")
    /\ UNCHANGED <<agentVars, registry, browserVars>>

\* The agent's answer arrives, or a Close instead of Ready: the subscription is removed.
RpcAnswered(r) ==
    /\ Waiting(r)
    /\ WriterAlive(rpcConn[r])
    /\ subs[rpcConn[r]][r] = r
    /\ subs' = [subs EXCEPT ![rpcConn[r]][r] = NoSub]
    /\ RpcEnds(r, "answered")
    /\ UNCHANGED <<agentVars, registry, browserVars>>

\* A five-second wait expires: the call returns and the subscription stays.
RpcTimesOut(r) ==
    /\ Waiting(r)
    /\ RpcEnds(r, "timedOut")
    /\ UNCHANGED <<agentVars, registry, subs, browserVars>>

-----------------------------------------------------------------------------

AgentNext(c) ==
    \/ Authenticate(c) \/ ReEnroll(c) \/ Register(c) \/ AckFails(c)
    \/ WireDrops(c) \/ ReaderEnds(c) \/ Unregister(c)

SocketNext(w) ==
    \/ SocketOpens(w) \/ SocketCloses(w) \/ OpenSubscribes(w)
    \/ \E h \in Host :
        OpenRefused(w, h) \/ OpenOffline(w, h) \/ OpenLooksUp(w, h) \/ OpenEvicts(w, h)

RpcNext(r) ==
    \/ RpcSubscribes(r) \/ RpcReady(r) \/ RpcAnswered(r) \/ RpcTimesOut(r)
    \/ \E h \in Host : RpcLooksUp(r, h)

Next ==
    \/ \E c \in Conn : AgentNext(c)
    \/ \E w \in Socket : SocketNext(w)
    \/ \E r \in Rpc : RpcNext(r)

Spec == Init /\ [][Next]_vars
-----------------------------------------------------------------------------
(* Properties *)

\* The registry never holds a connection whose handler has finished, nor one of
\* another host: every exit of a registered handler's read loop reaches unregister (agent_ws.rs:315-317),
\* so hosts_list reports no dead host as online.
RegisteredIsServed ==
    \A h \in Host : registry[h] # NoConn =>
        /\ HostOf[registry[h]] = h
        /\ phase[registry[h]] \in {"serving", "leaving"}

\* A socket that would send on a cached sender is the one the agent's answers
\* are delivered to, if no other socket belongs to its session: the
\* subscription is made before the sender is cached and outlives it
\* (agent_registry.rs:185-188, ws.rs:285-310).
CachedIsSubscribed ==
    \A w \in Socket, h \in Host :
        ( /\ ValidCached(w, h)
          /\ \A v \in Socket \ {w} : PrefixOf[v] # PrefixOf[w] )
        => subs[cache[w][h]][PrefixOf[w]] = w

\* A socket never caches senders for more hosts than the limit, also when
\* connections are replaced under it (ws.rs:290-303).
CacheBounded == \A w \in Socket : Cardinality(CachedHosts(w)) <= MaxRemoteAgents

\* A call that waits is the subscriber of its prefix on the connection it cloned,
\* whichever connection its host is reached through by then, and the only calls
\* that leave a subscription behind are those that timed out: an answer, and a
\* Close in its place, removes it (agent_registry.rs:105-153).
CallsUnsubscribe ==
    \A r \in Rpc :
        /\ Waiting(r) => subs[rpcConn[r]][r] = r
        /\ rpc[r] # "timedOut" =>
              \A c \in Conn : subs[c][r] # NoSub => Waiting(r) /\ rpcConn[r] = c

\* The registry implements the abstract contract: a connection that has been
\* replaced, kicked or unregistered is never current again.
Presence == INSTANCE HostPresence WITH
    current <- registry,
    retired <- {c \in Registered : registry[HostOf[c]] # c}
ImplementsHostPresence == Presence!Spec

\* DOCS.md:549, "A host appears offline in the UI until it reconnects": a
\* connected, registered agent whose earlier connections are all over is the
\* one its host is reached through.
ReconnectedIsOnline ==
    \A c \in Conn :
        ( /\ phase[c] = "serving"
          /\ wire[c]
          /\ \A d \in Conn \ {c} : HostOf[d] = HostOf[c] => phase[d] \in {"idle", "failed", "gone"} )
        => registry[HostOf[c]] = c
=============================================================================
