----------------------------- MODULE ChannelMux -----------------------------
(***************************************************************************)
(* Channels multiplexed over one agent connection, end to end and while    *)
(* that connection lasts: the browser's transport (transport.ts), the      *)
(* gateway's per-socket loop and forwarder (ws.rs), the session prefix and *)
(* its proxy task (agent_registry.rs), the reader that hands answers to    *)
(* subscribers (agent_ws.rs), the agent's router and its streaming tasks   *)
(* (router.rs and the four streaming handlers).                            *)
(*                                                                         *)
(* Queues joined by a task that only moves messages are one queue here:    *)
(* proxy channel, proxy task, to_agent channel and the agent's socket are  *)
(* toAgent; the agent's out channel and its socket are fromAgent; a        *)
(* subscriber's channel and the browser's socket are sub.  Every queue is  *)
(* bounded by Cap and its producer waits for room; close_notify is the one *)
(* unbounded channel.  A message names the channel by the socket and id    *)
(* that opened it; what the agent sees of that name is AgentChan.          *)
(***************************************************************************)
EXTENDS FiniteSets, Naturals, Sequences

CONSTANTS
    Socket,       \* browser WebSockets, each used once; a page reload is a new one
    Prefix,       \* session prefixes
    PrefixOf,     \* the prefix of the session a socket belongs to
    Channel,      \* <<socket, id>>: the channels the pages may open
    Payload,      \* Payload[i]: the kind of handler channel i asks for
    MaxChannels,  \* MAX_CHANNELS_PER_SESSION
    Cap,          \* room in each bounded queue (256 or 512 in the code)
    NoSocket      \* no socket

ASSUME MuxAssumption ==
    /\ PrefixOf \in [Socket -> Prefix]
    /\ \A i \in Channel : i = <<i[1], i[2]>> /\ i[1] \in Socket
    /\ Payload \in [Channel -> {"stream", "scan", "oneshot", "interactive"}]
    /\ MaxChannels \in Nat \ {0}
    /\ Cap \in Nat \ {0}
    /\ NoSocket \notin Socket

VARIABLES
    page,        \* page[w]: the browser side of socket w
    client,      \* client[i]: whether the page has a listener for channel i
    got,         \* got[i]: the last answer the page saw on channel i
    inbox,       \* inbox[w]: frames from the page the gateway has not handled
    handler,     \* handler[w]: the gateway's loop for w
    routes,      \* channel_routes of all sockets
    joined,      \* sockets that have called connect_session
    notify,      \* close_notify of all sockets, unread
    subscriber,  \* subscriber[p]: whose queue the reader fills for prefix p
    sub,         \* sub[w]: that queue, as far as the page
    forwarder,   \* forwarder[w]: the task that empties it
    toAgent,     \* frames on their way to the agent
    fromAgent,   \* frames on their way from the agent
    pending,     \* responses of the router's current call, not yet queued
    active,      \* active_channels: whose shutdown sender the router holds
    handlers,    \* channel_handlers
    options,     \* channel_options
    stream,      \* stream[i]: the streaming task of channel i
    shutdown     \* shutdown[i]: the watch that task selects on

pageVars    == <<page, client, got>>
gatewayVars == <<handler, routes, joined, notify>>
relayVars   == <<subscriber, sub, forwarder>>
routerVars  == <<pending, active, handlers, options>>
taskVars    == <<stream, shutdown>>
vars == <<pageVars, inbox, gatewayVars, relayVars,
          toAgent, fromAgent, routerVars, taskVars>>

\* Mutant of AgentChan: every session gets the same prefix.
OnePrefix(i) == <<PrefixOf[CHOOSE w \in Socket : TRUE], i[2]>>

\* The id channel i has at the agent: the session's prefix and the page's id.
AgentChan(i) == <<PrefixOf[i[1]], i[2]>>
AgentChans   == {AgentChan(i) : i \in Channel}

Streaming == {i \in Channel : Payload[i] \in {"stream", "scan"}}

Down == [type : {"Open", "Data", "Close"}, by : Channel]
Up   == [type : {"Ready", "Data", "Close"}, by : Channel]
Msg(t, i) == [type |-> t, by |-> i]

TypeOK ==
    /\ page \in [Socket -> {"new", "open", "left"}]
    /\ client \in [Channel -> {"idle", "open", "closed"}]
    /\ got \in [Channel -> {"nothing", "ready", "closed"}]
    /\ inbox \in [Socket -> Seq(Down)]
    /\ handler \in [Socket -> {"new", "running", "ended"}]
    /\ routes \subseteq Channel
    /\ joined \subseteq Socket
    /\ notify \subseteq Socket \X {i[2] : i \in Channel}
    /\ subscriber \in [Prefix -> Socket \cup {NoSocket}]
    /\ sub \in [Socket -> Seq(Up)]
    /\ forwarder \in [Socket -> {"none", "running", "ended"}]
    /\ toAgent \in Seq(Down)
    /\ fromAgent \in Seq(Up)
    /\ pending \in Seq(Up)
    /\ active \in [AgentChans -> Socket \cup {NoSocket}]
    /\ handlers \subseteq AgentChans
    /\ options \subseteq AgentChans
    /\ stream \in [Streaming -> {"none", "starting", "running", "reporting",
                                 "closing", "ended", "timedOut"}]
    /\ shutdown \in [Streaming -> {"open", "signalled", "dropped"}]

Init ==
    /\ page = [w \in Socket |-> "new"]
    /\ client = [i \in Channel |-> "idle"]
    /\ got = [i \in Channel |-> "nothing"]
    /\ inbox = [w \in Socket |-> <<>>]
    /\ handler = [w \in Socket |-> "new"]
    /\ routes = {} /\ joined = {} /\ notify = {}
    /\ subscriber = [p \in Prefix |-> NoSocket]
    /\ sub = [w \in Socket |-> <<>>]
    /\ forwarder = [w \in Socket |-> "none"]
    /\ toAgent = <<>> /\ fromAgent = <<>> /\ pending = <<>>
    /\ active = [k \in AgentChans |-> NoSocket]
    /\ handlers = {} /\ options = {}
    /\ stream = [i \in Streaming |-> "none"]
    /\ shutdown = [i \in Streaming |-> "open"]

-----------------------------------------------------------------------------
(* Helpers *)

Room(q) == Len(q) < Cap
Of(w, S) == {i \in S : i[1] = w}

\* The page writes a frame to its socket.
Sends(i, t) == inbox' = [inbox EXCEPT ![i[1]] = Append(@, Msg(t, i))]

\* The page's listener of channel i, if there is one, handles a frame of type t.
\* request() answers Close with a Close of its own, queued after the frames q.
Hears(i, t, q) ==
    LET heard == i \in Channel /\ client[i] = "open"
        answers == heard /\ t = "Close" /\ Payload[i] = "oneshot"
    IN /\ got' = IF heard
                 THEN [got EXCEPT ![i] = IF t = "Close" THEN "closed" ELSE "ready"]
                 ELSE got
       /\ client' = IF answers THEN [client EXCEPT ![i] = "closed"] ELSE client
       /\ inbox' = [inbox EXCEPT ![i[1]] = IF answers THEN Append(q, Msg("Close", i)) ELSE q]

-----------------------------------------------------------------------------
(* The page *)

\* A page of the session opens its socket; a reload has ended the page before.
OpenPage(w) ==
    /\ page[w] = "new"
    /\ \A v \in Socket : PrefixOf[v] = PrefixOf[w] => page[v] # "open"
    /\ page' = [page EXCEPT ![w] = "open"]
    /\ handler' = [handler EXCEPT ![w] = "running"]
    /\ UNCHANGED <<client, got, inbox, routes, joined, notify, relayVars, toAgent, fromAgent,
                   routerVars, taskVars>>

\* The page goes away without closing its channels; they are only in its memory.
LeavePage(w) ==
    /\ page[w] = "open"
    /\ page' = [page EXCEPT ![w] = "left"]
    /\ client' = [i \in Channel |-> IF i[1] = w THEN "closed" ELSE client[i]]
    /\ UNCHANGED <<got, inbox, gatewayVars, relayVars, toAgent, fromAgent,
                   routerVars, taskVars>>

ClientOpens(i) ==
    /\ page[i[1]] = "open"
    /\ client[i] = "idle"
    /\ client' = [client EXCEPT ![i] = "open"]
    /\ Sends(i, "Open")
    /\ UNCHANGED <<page, got, gatewayVars, relayVars, toAgent, fromAgent,
                   routerVars, taskVars>>

\* A command; how much may wait in the browser is bounded by Cap.  A terminal's
\* input is left out: the router answers nothing to it.
ClientSends(i) ==
    /\ client[i] = "open"
    /\ Payload[i] = "interactive"
    /\ Room(inbox[i[1]])
    /\ Sends(i, "Data")
    /\ UNCHANGED <<pageVars, gatewayVars, relayVars, toAgent, fromAgent,
                   routerVars, taskVars>>

\* The component goes away, or request() times out.
ClientCloses(i) ==
    /\ client[i] = "open"
    /\ client' = [client EXCEPT ![i] = "closed"]
    /\ Sends(i, "Close")
    /\ UNCHANGED <<page, got, gatewayVars, relayVars, toAgent, fromAgent,
                   routerVars, taskVars>>

-----------------------------------------------------------------------------
(* The gateway's loop for a browser socket *)

\* The loop takes the next frame of w, one of these types.
NextFrame(w, types) ==
    /\ handler[w] = "running"
    /\ inbox[w] # <<>>
    /\ Head(inbox[w]).type \in types

\* Too many channels, or the id is in use: answered with Close.
GwRefuses(w) ==
    /\ NextFrame(w, {"Open"})
    /\ LET i == Head(inbox[w]).by IN
        /\ i \in routes \/ Cardinality(Of(w, routes)) >= MaxChannels
        /\ Hears(i, "Close", Tail(inbox[w]))
    /\ UNCHANGED <<page, gatewayVars, relayVars, toAgent, fromAgent, routerVars, taskVars>>

\* Mutant of GwOpens: what is connected is kept by session prefix.
GwOpensByPrefix(w) ==
    /\ NextFrame(w, {"Open"})
    /\ LET i == Head(inbox[w]).by IN
        /\ i \notin routes
        /\ Cardinality(Of(w, routes)) < MaxChannels
        /\ Room(toAgent)
        /\ routes' = routes \cup {i}
        /\ toAgent' = Append(toAgent, Head(inbox[w]))
    /\ inbox' = [inbox EXCEPT ![w] = Tail(@)]
    /\ joined' = joined \cup {PrefixOf[w]}
    /\ subscriber' = [subscriber EXCEPT ![PrefixOf[w]] = w]
    /\ forwarder' = [forwarder EXCEPT ![w] = "running"]
    /\ UNCHANGED <<pageVars, handler, notify, sub, fromAgent, routerVars, taskVars>>

\* The route is made, then the Open is queued for the agent.  The socket's first
\* Open subscribes, which takes the prefix over from an earlier socket.
GwOpens(w) ==
    /\ NextFrame(w, {"Open"})
    /\ LET i == Head(inbox[w]).by IN
        /\ i \notin routes
        /\ Cardinality(Of(w, routes)) < MaxChannels
        /\ Room(toAgent)
        /\ routes' = routes \cup {i}
        /\ toAgent' = Append(toAgent, Head(inbox[w]))
    /\ inbox' = [inbox EXCEPT ![w] = Tail(@)]
    /\ joined' = joined \cup {w}
    /\ IF w \in joined THEN UNCHANGED <<subscriber, forwarder>>
       ELSE /\ subscriber' = [subscriber EXCEPT ![PrefixOf[w]] = w]
            /\ forwarder' = [forwarder EXCEPT ![w] = "running"]
    /\ UNCHANGED <<pageVars, handler, notify, sub, fromAgent, routerVars, taskVars>>

\* Mutant of GwForwards: a Close leaves its route.
GwForwardsKeeping(w) ==
    /\ NextFrame(w, {"Data", "Close"})
    /\ Head(inbox[w]).by \in routes
    /\ Room(toAgent)
    /\ toAgent' = Append(toAgent, Head(inbox[w]))
    /\ inbox' = [inbox EXCEPT ![w] = Tail(@)]
    /\ UNCHANGED <<pageVars, gatewayVars, relayVars, fromAgent, routerVars, taskVars>>

\* Data and Close follow the route; Close also removes it.
GwForwards(w) ==
    /\ NextFrame(w, {"Data", "Close"})
    /\ LET m == Head(inbox[w]) IN
        /\ m.by \in routes
        /\ Room(toAgent)
        /\ toAgent' = Append(toAgent, m)
        /\ routes' = IF m.type = "Close" THEN routes \ {m.by} ELSE routes
    /\ inbox' = [inbox EXCEPT ![w] = Tail(@)]
    /\ UNCHANGED <<pageVars, handler, joined, notify, relayVars, fromAgent, routerVars, taskVars>>

\* Without a route a frame is dropped.
GwDrops(w) ==
    /\ NextFrame(w, {"Data", "Close"})
    /\ Head(inbox[w]).by \notin routes
    /\ inbox' = [inbox EXCEPT ![w] = Tail(@)]
    /\ UNCHANGED <<pageVars, gatewayVars, relayVars, toAgent, fromAgent, routerVars, taskVars>>

\* close_notify: the forwarder has passed the agent's Close on.
GwRemovesRoute(w) ==
    /\ handler[w] = "running"
    /\ \E i \in Of(w, notify) :
        /\ routes' = routes \ {i}
        /\ notify' = notify \ {i}
    /\ UNCHANGED <<pageVars, inbox, handler, joined, relayVars, toAgent, fromAgent,
                   routerVars, taskVars>>

\* The page is gone: the loop ends and its maps are dropped.  Nothing is sent to
\* the agent for the channels that were open.
GwEnds(w) ==
    /\ handler[w] = "running"
    /\ page[w] = "left"
    /\ handler' = [handler EXCEPT ![w] = "ended"]
    /\ inbox' = [inbox EXCEPT ![w] = <<>>]
    /\ routes' = routes \ Of(w, routes)
    /\ notify' = notify \ Of(w, notify)
    /\ UNCHANGED <<pageVars, joined, relayVars, toAgent, fromAgent, routerVars, taskVars>>

-----------------------------------------------------------------------------
(* From the agent to a page *)

\* Mutant of ReaderRoutes: an answer is dropped when the queue is full.
ReaderTriesOnce ==
    /\ fromAgent # <<>>
    /\ LET m == Head(fromAgent)
           w == subscriber[AgentChan(m.by)[1]]
       IN IF w # NoSocket /\ forwarder[w] = "running" /\ Room(sub[w])
          THEN sub' = [sub EXCEPT ![w] = Append(@, m)]
          ELSE UNCHANGED sub
    /\ fromAgent' = Tail(fromAgent)
    /\ UNCHANGED <<pageVars, inbox, gatewayVars, subscriber, forwarder, toAgent, routerVars, taskVars>>

\* The reader of the agent's socket hands an answer to the prefix's subscriber
\* and waits for room in its queue; an answer to a finished forwarder is dropped.
ReaderRoutes ==
    /\ fromAgent # <<>>
    /\ LET m == Head(fromAgent)
           w == subscriber[AgentChan(m.by)[1]]
       IN IF w # NoSocket /\ forwarder[w] = "running"
          THEN Room(sub[w]) /\ sub' = [sub EXCEPT ![w] = Append(@, m)]
          ELSE UNCHANGED sub
    /\ fromAgent' = Tail(fromAgent)
    /\ UNCHANGED <<pageVars, inbox, gatewayVars, subscriber, forwarder,
                   toAgent, routerVars, taskVars>>

\* Mutant of ForwarderSends: the loop is not told of a Close.
ForwarderOnlySends(w) ==
    /\ forwarder[w] = "running"
    /\ sub[w] # <<>>
    /\ page[w] = "open"
    /\ Hears(<<w, Head(sub[w]).by[2]>>, Head(sub[w]).type, inbox[w])
    /\ sub' = [sub EXCEPT ![w] = Tail(@)]
    /\ UNCHANGED <<page, gatewayVars, subscriber, forwarder, toAgent, fromAgent, routerVars, taskVars>>

\* The forwarder writes an answer to the page; a Close is then reported to the loop.
ForwarderSends(w) ==
    /\ forwarder[w] = "running"
    /\ sub[w] # <<>>
    /\ page[w] = "open"
    /\ LET m == Head(sub[w])
           i == <<w, m.by[2]>>
       IN /\ Hears(i, m.type, inbox[w])
          /\ notify' = IF m.type = "Close" THEN notify \cup {i} ELSE notify
    /\ sub' = [sub EXCEPT ![w] = Tail(@)]
    /\ UNCHANGED <<page, handler, routes, joined, subscriber, forwarder, toAgent, fromAgent,
                   routerVars, taskVars>>

\* The sink fails; or nothing is left to send and the subscription has been replaced.
ForwarderEnds(w) ==
    /\ forwarder[w] = "running"
    /\ IF sub[w] # <<>> THEN page[w] = "left" ELSE subscriber[PrefixOf[w]] # w
    /\ forwarder' = [forwarder EXCEPT ![w] = "ended"]
    /\ sub' = [sub EXCEPT ![w] = <<>>]
    /\ UNCHANGED <<pageVars, inbox, gatewayVars, subscriber, toAgent, fromAgent,
                   routerVars, taskVars>>

-----------------------------------------------------------------------------
(* The agent's router: one message at a time, its responses queued before the next *)

RouterTakes(type) ==
    /\ pending = <<>>
    /\ toAgent # <<>>
    /\ Head(toAgent).type = type
    /\ toAgent' = Tail(toAgent)

\* Mutant of RouterOpensStream: the task streams without sending Ready.
RouterOpensUnready ==
    /\ RouterTakes("Open")
    /\ LET i == Head(toAgent).by IN
        /\ i \in Streaming
        /\ active' = [active EXCEPT ![AgentChan(i)] = i[1]]
        /\ options' = options \cup {AgentChan(i)}
        /\ stream' = [stream EXCEPT ![i] = "running"]
    /\ UNCHANGED <<pageVars, inbox, gatewayVars, relayVars, fromAgent, pending, handlers, shutdown>>

\* A streaming payload: the task is spawned; a shutdown sender already held for
\* the id is dropped.
RouterOpensStream ==
    /\ RouterTakes("Open")
    /\ LET i == Head(toAgent).by
           k == AgentChan(i)
       IN /\ i \in Streaming
          /\ active' = [active EXCEPT ![k] = i[1]]
          /\ shutdown' = IF active[k] = NoSocket THEN shutdown
                         ELSE [shutdown EXCEPT ![<<active[k], i[2]>>] = "dropped"]
          /\ options' = options \cup {k}
          /\ stream' = [stream EXCEPT ![i] = "starting"]
    /\ UNCHANGED <<pageVars, inbox, gatewayVars, relayVars, fromAgent,
                   pending, handlers>>

\* A one-shot payload, or one nobody handles: it ends in Close, so nothing stays tracked.
RouterAnswers ==
    /\ RouterTakes("Open")
    /\ LET i == Head(toAgent).by
           k == AgentChan(i)
       IN /\ Payload[i] = "oneshot"
          /\ \/ pending' = <<Msg("Ready", i), Msg("Data", i), Msg("Close", i)>>
             \/ pending' = <<Msg("Close", i)>>
          /\ handlers' = handlers \ {k}
          /\ options' = options \ {k}
    /\ UNCHANGED <<pageVars, inbox, gatewayVars, relayVars, fromAgent,
                   active, taskVars>>

\* A payload served by data(): tracked until a Close comes.
RouterOpensInteractive ==
    /\ RouterTakes("Open")
    /\ LET i == Head(toAgent).by
           k == AgentChan(i)
       IN /\ Payload[i] = "interactive"
          /\ pending' = <<Msg("Ready", i)>>
          /\ handlers' = handlers \cup {k}
          /\ options' = options \cup {k}
    /\ UNCHANGED <<pageVars, inbox, gatewayVars, relayVars, fromAgent,
                   active, taskVars>>

\* An interactive handler answers; for an id that is not tracked nobody listens.
RouterData ==
    /\ RouterTakes("Data")
    /\ LET i == Head(toAgent).by
           k == AgentChan(i)
       IN pending' = IF active[k] = NoSocket /\ k \in handlers THEN <<Msg("Data", i)>> ELSE <<>>
    /\ UNCHANGED <<pageVars, inbox, gatewayVars, relayVars, fromAgent,
                   active, handlers, options, taskVars>>

\* Mutant of RouterCloses: only the handlers' maps forget the id.
RouterClosesHandlers ==
    /\ RouterTakes("Close")
    /\ LET k == AgentChan(Head(toAgent).by) IN
        /\ handlers' = handlers \ {k}
        /\ options' = options \ {k}
    /\ UNCHANGED <<pageVars, inbox, gatewayVars, relayVars, fromAgent, pending, active, taskVars>>

\* The task's shutdown is signalled and every map forgets the id.
RouterCloses ==
    /\ RouterTakes("Close")
    /\ LET i == Head(toAgent).by
           k == AgentChan(i)
       IN /\ active' = [active EXCEPT ![k] = NoSocket]
          /\ shutdown' = IF active[k] = NoSocket THEN shutdown
                         ELSE [shutdown EXCEPT ![<<active[k], i[2]>>] = "signalled"]
          /\ handlers' = handlers \ {k}
          /\ options' = options \ {k}
    /\ UNCHANGED <<pageVars, inbox, gatewayVars, relayVars, fromAgent,
                   pending, stream>>

Queues(m) == Room(fromAgent) /\ fromAgent' = Append(fromAgent, m)

\* The responses of a call are queued one by one.
RouterSends ==
    /\ pending # <<>>
    /\ Queues(Head(pending))
    /\ pending' = Tail(pending)
    /\ UNCHANGED <<pageVars, inbox, gatewayVars, relayVars, toAgent,
                   active, handlers, options, taskVars>>

-----------------------------------------------------------------------------
(* The agent's streaming tasks *)

OtherVars == <<pageVars, inbox, gatewayVars, relayVars, toAgent, routerVars, shutdown>>

Becomes(i, s) == stream' = [stream EXCEPT ![i] = s]

StreamReady(i) ==
    /\ stream[i] = "starting"
    /\ Queues(Msg("Ready", i))
    /\ Becomes(i, "running")
    /\ UNCHANGED OtherVars

\* A terminal's output, or a sample.
StreamData(i) ==
    /\ Payload[i] = "stream"
    /\ stream[i] = "running"
    /\ Queues(Msg("Data", i))
    /\ UNCHANGED <<OtherVars, stream>>

\* The shell exits; the scan completes, or cannot start, and has something to report.
StreamFinishes(i) ==
    /\ stream[i] = "running"
    /\ Becomes(i, IF Payload[i] = "scan" THEN "reporting" ELSE "closing")
    /\ UNCHANGED <<OtherVars, fromAgent>>

\* The watch turns true.  Only a scan minds that its sender is gone, and a
\* stopped scan says nothing.
StreamStops(i) ==
    /\ stream[i] = "running"
    /\ \/ shutdown[i] = "signalled"
       \/ shutdown[i] = "dropped" /\ Payload[i] = "scan"
    /\ Becomes(i, IF Payload[i] = "scan" THEN "ended" ELSE "closing")
    /\ UNCHANGED <<OtherVars, fromAgent>>

\* SCAN_TIMEOUT: the scan is killed and the task returns.
ScanTimesOut(i) ==
    /\ Payload[i] = "scan"
    /\ stream[i] = "running"
    /\ Becomes(i, "timedOut")
    /\ UNCHANGED <<OtherVars, fromAgent>>

ScanReports(i) ==
    /\ stream[i] = "reporting"
    /\ Queues(Msg("Data", i))
    /\ Becomes(i, "closing")
    /\ UNCHANGED OtherVars

StreamCloses(i) ==
    /\ stream[i] = "closing"
    /\ Queues(Msg("Close", i))
    /\ Becomes(i, "ended")
    /\ UNCHANGED OtherVars

-----------------------------------------------------------------------------

PageNext(w) == OpenPage(w) \/ LeavePage(w)
ClientNext(i) == ClientOpens(i) \/ ClientSends(i) \/ ClientCloses(i)
GatewayNext(w) ==
    \/ GwRefuses(w) \/ GwOpens(w) \/ GwForwards(w) \/ GwDrops(w) \/ GwRemovesRoute(w) \/ GwEnds(w)
ForwarderNext(w) == ForwarderSends(w) \/ ForwarderEnds(w)
RouterTurn ==
    \/ RouterOpensStream \/ RouterAnswers \/ RouterOpensInteractive \/ RouterData \/ RouterCloses
StreamNext(i) ==
    \/ StreamReady(i) \/ StreamData(i) \/ StreamFinishes(i) \/ StreamStops(i)
    \/ ScanTimesOut(i) \/ ScanReports(i) \/ StreamCloses(i)

Next ==
    \/ \E w \in Socket : PageNext(w) \/ GatewayNext(w) \/ ForwarderNext(w)
    \/ \E i \in Channel : ClientNext(i)
    \/ ReaderRoutes \/ RouterTurn \/ RouterSends
    \/ \E i \in Streaming : StreamNext(i)

Spec == Init /\ [][Next]_vars

\* Tasks that can run do, and a page that is there handles its frames.  Waiters
\* on a tokio mutex or bounded channel are served in turn, so a step that keeps
\* getting room does not stay behind its competitors: strong fairness for those.
\* No page has to open, close or leave and no stream has to produce or finish.
Fairness ==
    /\ \A w \in Socket :
        /\ SF_vars(GwRefuses(w) \/ GwOpens(w) \/ GwForwards(w) \/ GwDrops(w))
        /\ WF_vars(GwRemovesRoute(w)) /\ WF_vars(GwEnds(w))
        /\ WF_vars(ForwarderSends(w)) /\ WF_vars(ForwarderEnds(w))
    /\ WF_vars(ReaderRoutes) /\ WF_vars(RouterTurn) /\ SF_vars(RouterSends)
    /\ \A i \in Streaming :
        /\ SF_vars(StreamReady(i)) /\ WF_vars(StreamStops(i))
        /\ SF_vars(ScanReports(i)) /\ SF_vars(StreamCloses(i))

FairSpec == Spec /\ Fairness
-----------------------------------------------------------------------------
(* Properties *)

\* What comes next of a channel the page of w still listens to is in its turn.
InOrder(w) ==
    sub[w] # <<>> =>
        LET m == Head(sub[w])
            i == <<w, m.by[2]>>
        IN i \in Channel /\ client[i] = "open" =>
            CASE m.type = "Ready" -> got[i] = "nothing"
              [] m.type = "Data"  -> got[i] = "ready"
              [] m.type = "Close" -> got[i] # "closed"

\* A page is given the frames of a channel in order: Ready, then Data, then Close,
\* and nothing after it, although the router spawns the task that sends Ready
\* (router.rs:130-141) while its own loop answers others.
AnswersInOrder == \A w \in Socket : InOrder(w)

\* Nothing of w is on its way or about to be sent.
Quiet(w) ==
    /\ inbox[w] = <<>> /\ sub[w] = <<>>
    /\ toAgent = <<>> /\ fromAgent = <<>> /\ pending = <<>>
    /\ Of(w, notify) = {}
    /\ \A i \in Of(w, Streaming) : stream[i] \notin {"starting", "reporting", "closing"}

\* The agent serves channel i.
Served(i) ==
    IF i \in Streaming THEN stream[i] = "running" /\ shutdown[i] = "open"
                       ELSE AgentChan(i) \in handlers

\* While the page of w is there and nothing is in flight: its routes and what the
\* agent serves it.
RoutesServed(w) ==
    page[w] = "open" /\ Quiet(w) =>
        \A i \in Of(w, Channel) :
            i \in routes <=> Served(i) \/ (i \in Streaming /\ stream[i] = "timedOut" /\ i \in routes)

\* The gateway's routes and the channels the agent serves agree once nothing is in
\* flight: close_notify leaves no route behind (ws.rs:83-85, 397-399) and a Close
\* from the page no task.  A scan that timed out keeps its route, see ScanEndIsTold.
RoutesAreServed == \A w \in Socket : RoutesServed(w)

\* No page is shown, on a channel it listens to, what a task started for another
\* page produced (ws.rs:268-270 names interleaved data as what must not happen).
NoInterleaving ==
    \A w \in Socket : \A n \in 1..Len(sub[w]) :
        LET m == sub[w][n]
            i == <<w, m.by[2]>>
        IN i \in Channel /\ client[i] = "open" => m.by[1] = w

\* Every Open is answered with Ready or Close: no cycle of full queues holds it
\* up, since close_notify, alone, is unbounded (ws.rs:209).
OpenIsAnswered ==
    \A i \in Channel :
        client[i] = "open" ~> (client[i] = "closed" \/ got[i] # "nothing")

\* A stream the page has closed is stopped, whatever else is in flight, unless
\* the page goes away with its Close unread.
ClosedStreamStops ==
    \A i \in Streaming :
        (client[i] = "closed" /\ stream[i] = "running")
        ~> (stream[i] # "running" \/ page[i[1]] = "left")

\* StorageUsage.tsx waits for Data or Close, and says of a Close without data
\* that the scan was cancelled or timed out: a scan that times out is told so.
ScanEndIsTold ==
    \A i \in Streaming :
        stream[i] = "timedOut" ~> (client[i] = "closed" \/ got[i] = "closed")
=============================================================================
