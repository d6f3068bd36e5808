-------------------------- MODULE ChannelMuxProofs --------------------------
(***************************************************************************)
(* Who gets what the agent produced, for any sockets, channels, payloads   *)
(* and capacities: never another session; and, while a session has had one *)
(* page only, never another page.                                          *)
(***************************************************************************)
EXTENDS ChannelMux, SequenceTheorems, TLAPS

\* The subscriber of a prefix is a page of that session, and so is the channel of whatever waits
\* in a page's queue.
SessionsApart ==
    /\ \A p \in Prefix : subscriber[p] # NoSocket => PrefixOf[subscriber[p]] = p
    /\ \A w \in Socket : \A n \in 1..Len(sub[w]) : PrefixOf[sub[w][n].by[1]] = PrefixOf[w]

Inv == TypeOK /\ SessionsApart

-----------------------------------------------------------------------------

\* A message on a queue, and what is left behind it.
LEMMA FrameTyped ==
    ASSUME NEW S, NEW q \in Seq(S), q # <<>>
    PROVE  Head(q) \in S /\ Tail(q) \in Seq(S)
  BY HeadTailProperties

\* A queue that is given another message.
LEMMA QueueTyped ==
    ASSUME NEW S, NEW q \in Seq(S), NEW m \in S
    PROVE  Append(q, m) \in Seq(S)
  BY AppendProperties

\* What a frame or an answer names.
LEMMA MessageTyped ==
    /\ \A m \in Down \cup Up : m.by \in Channel /\ m.by[1] \in Socket
    /\ \A i \in Channel : /\ \A t \in {"Open", "Data", "Close"} : Msg(t, i) \in Down
                          /\ \A t \in {"Ready", "Data", "Close"} : Msg(t, i) \in Up
  BY MuxAssumption DEF Down, Up, Msg

\* Nothing is there yet.
LEMMA InitInv == Init => Inv
<1> SUFFICES ASSUME Init PROVE Inv
  OBVIOUS
<1>1. TypeOK
  <2>1. <<>> \in Seq(Down) /\ <<>> \in Seq(Up)
    BY EmptySeq
  <2> QED
    BY <2>1 DEF Init, TypeOK
<1>2. SessionsApart
  BY DEF Init, SessionsApart
<1> QED
  BY <1>1, <1>2 DEF Inv

\* What a page does.
LEMMA PageTyped ==
    ASSUME TypeOK, NEW w \in Socket, PageNext(w)
    PROVE  TypeOK'
<1> USE DEF TypeOK, pageVars, gatewayVars, relayVars, routerVars, taskVars
<1>1. CASE OpenPage(w)
  BY <1>1 DEF OpenPage
<1>2. CASE LeavePage(w)
  BY <1>2 DEF LeavePage
<1> QED
  BY <1>1, <1>2 DEF PageNext

LEMMA ClientTyped ==
    ASSUME TypeOK, NEW i \in Channel, ClientNext(i)
    PROVE  TypeOK'
<1> USE DEF TypeOK, pageVars, gatewayVars, relayVars, routerVars, taskVars
<1>1. ASSUME NEW t \in {"Open", "Data", "Close"}, Sends(i, t) PROVE inbox' \in [Socket -> Seq(Down)]
  <2>1. i[1] \in Socket /\ Msg(t, i) \in Down
    BY MuxAssumption, MessageTyped
  <2>2. Append(inbox[i[1]], Msg(t, i)) \in Seq(Down)
    BY <2>1, QueueTyped
  <2> QED
    BY <1>1, <2>2 DEF Sends
<1>2. CASE ClientOpens(i)
  BY <1>1, <1>2 DEF ClientOpens
<1>3. CASE ClientSends(i)
  BY <1>1, <1>3 DEF ClientSends
<1>4. CASE ClientCloses(i)
  BY <1>1, <1>4 DEF ClientCloses
<1> QED
  BY <1>2, <1>3, <1>4 DEF ClientNext

\* A page that hears an answer keeps its variables typed, and so does the queue of its frames.
LEMMA HearsTyped ==
    ASSUME TypeOK, NEW i, NEW t, NEW q \in Seq(Down), Hears(i, t, q)
    PROVE  /\ client' \in [Channel -> {"idle", "open", "closed"}]
           /\ got' \in [Channel -> {"nothing", "ready", "closed"}]
           /\ inbox' \in [Socket -> Seq(Down)]
<1> DEFINE answers == i \in Channel /\ client[i] = "open" /\ t = "Close" /\ Payload[i] = "oneshot"
<1>1. client' \in [Channel -> {"idle", "open", "closed"}] /\ got' \in [Channel -> {"nothing", "ready", "closed"}]
  BY DEF Hears, TypeOK
<1>2. (IF answers THEN Append(q, Msg("Close", i)) ELSE q) \in Seq(Down)
  BY MessageTyped, QueueTyped
<1>3. inbox' = [inbox EXCEPT ![i[1]] = IF answers THEN Append(q, Msg("Close", i)) ELSE q]
  BY DEF Hears
<1> QED
  BY <1>1, <1>2, <1>3 DEF TypeOK

\* What the gateway's loop does with a frame, an end of a channel, or the end of a page.
LEMMA GatewayTyped ==
    ASSUME TypeOK, NEW w \in Socket, GatewayNext(w)
    PROVE  TypeOK'
<1> USE DEF TypeOK, pageVars, gatewayVars, relayVars, routerVars, taskVars
<1>1. ASSUME inbox[w] # <<>>
      PROVE  /\ Head(inbox[w]) \in Down /\ Head(inbox[w]).by \in Channel
             /\ Tail(inbox[w]) \in Seq(Down)
             /\ Append(toAgent, Head(inbox[w])) \in Seq(Down)
  <2>1. Head(inbox[w]) \in Down /\ Tail(inbox[w]) \in Seq(Down)
    BY <1>1, FrameTyped
  <2> QED
    BY <2>1, QueueTyped, MessageTyped
<1>2. CASE GwRefuses(w)
  <2>1. Tail(inbox[w]) \in Seq(Down)
    BY <1>1, <1>2 DEF GwRefuses, NextFrame
  <2>2. /\ client' \in [Channel -> {"idle", "open", "closed"}]
        /\ got' \in [Channel -> {"nothing", "ready", "closed"}]
        /\ inbox' \in [Socket -> Seq(Down)]
    BY <1>2, <2>1, HearsTyped DEF GwRefuses
  <2> QED
    BY <1>2, <2>2 DEF GwRefuses
<1>3. CASE GwOpens(w)
  <2>1. routes' \subseteq Channel /\ toAgent' \in Seq(Down) /\ inbox' \in [Socket -> Seq(Down)]
    BY <1>1, <1>3 DEF GwOpens, NextFrame
  <2>2. /\ joined' \subseteq Socket
        /\ subscriber' \in [Prefix -> Socket \cup {NoSocket}]
        /\ forwarder' \in [Socket -> {"none", "running", "ended"}]
    <3>1. CASE w \in joined
      BY <1>3, <3>1 DEF GwOpens
    <3>2. CASE w \notin joined
      <4>1. /\ joined' = joined \cup {w}
            /\ subscriber' = [subscriber EXCEPT ![PrefixOf[w]] = w]
            /\ forwarder' = [forwarder EXCEPT ![w] = "running"]
        BY <1>3, <3>2 DEF GwOpens
      <4>2. joined' \subseteq Socket
        BY <4>1
      <4>3. subscriber' \in [Prefix -> Socket \cup {NoSocket}]
        BY <4>1
      <4>4. forwarder' \in [Socket -> {"none", "running", "ended"}]
        BY <4>1
      <4> QED
        BY <4>2, <4>3, <4>4
    <3> QED
      BY <3>1, <3>2
  <2> QED
    BY <1>3, <2>1, <2>2 DEF GwOpens
<1>4. CASE GwForwards(w)
  <2>1. routes' \subseteq Channel /\ toAgent' \in Seq(Down) /\ inbox' \in [Socket -> Seq(Down)]
    BY <1>1, <1>4 DEF GwForwards, NextFrame
  <2> QED
    BY <1>4, <2>1 DEF GwForwards
<1>5. CASE GwDrops(w)
  <2>1. inbox' \in [Socket -> Seq(Down)]
    BY <1>1, <1>5 DEF GwDrops, NextFrame
  <2> QED
    BY <1>5, <2>1 DEF GwDrops
<1>6. CASE GwRemovesRoute(w)
  BY <1>6 DEF GwRemovesRoute
<1>7. CASE GwEnds(w)
  <2>1. inbox' \in [Socket -> Seq(Down)]
    BY <1>7, EmptySeq DEF GwEnds
  <2> QED
    BY <1>7, <2>1 DEF GwEnds
<1> QED
  BY <1>2, <1>3, <1>4, <1>5, <1>6, <1>7 DEF GatewayNext

\* What the reader and the forwarders do with an answer.
LEMMA RelayTyped ==
    ASSUME TypeOK, ReaderRoutes \/ \E w \in Socket : ForwarderNext(w)
    PROVE  TypeOK'
<1> USE DEF TypeOK, pageVars, gatewayVars, relayVars, routerVars, taskVars
<1>1. CASE ReaderRoutes
  <2>1. Head(fromAgent) \in Up /\ Tail(fromAgent) \in Seq(Up)
    BY <1>1, FrameTyped DEF ReaderRoutes
  <2>2. ASSUME NEW w \in Socket PROVE Append(sub[w], Head(fromAgent)) \in Seq(Up)
    BY <2>1, QueueTyped
  <2>3. sub' \in [Socket -> Seq(Up)]
    <3>1. CASE UNCHANGED sub
      BY <3>1
    <3>2. ASSUME NEW w, w # NoSocket, w \in Socket \cup {NoSocket},
                 sub' = [sub EXCEPT ![w] = Append(@, Head(fromAgent))]
          PROVE  sub' \in [Socket -> Seq(Up)]
      BY <2>2, <3>2
    <3>3. subscriber[AgentChan(Head(fromAgent).by)[1]] \in Socket \cup {NoSocket}
      BY <2>1, MessageTyped, MuxAssumption DEF AgentChan
    <3> QED
      BY <1>1, <3>1, <3>2, <3>3 DEF ReaderRoutes
  <2> QED
    BY <1>1, <2>1, <2>3 DEF ReaderRoutes
<1>2. ASSUME NEW w \in Socket, ForwarderSends(w) PROVE TypeOK'
  <2> DEFINE m == Head(sub[w])
             i == <<w, m.by[2]>>
  <2>1. m \in Up /\ m.by \in Channel /\ Tail(sub[w]) \in Seq(Up)
    <3>1. m \in Up /\ Tail(sub[w]) \in Seq(Up)
      BY <1>2, FrameTyped DEF ForwarderSends
    <3> QED
      BY <3>1, MessageTyped
  <2>2. Hears(i, m.type, inbox[w])
    BY <1>2 DEF ForwarderSends
  <2>3. /\ client' \in [Channel -> {"idle", "open", "closed"}]
        /\ got' \in [Channel -> {"nothing", "ready", "closed"}]
        /\ inbox' \in [Socket -> Seq(Down)]
    BY <2>2, HearsTyped
  <2>4. i \in Socket \X {j[2] : j \in Channel}
    BY <2>1
  <2>5. notify' \subseteq Socket \X {j[2] : j \in Channel}
    BY <1>2, <2>4 DEF ForwarderSends
  <2>6. sub' \in [Socket -> Seq(Up)]
    BY <1>2, <2>1 DEF ForwarderSends
  <2> QED
    BY <1>2, <2>3, <2>5, <2>6 DEF ForwarderSends
<1>3. ASSUME NEW w \in Socket, ForwarderEnds(w) PROVE TypeOK'
  <2>1. sub' \in [Socket -> Seq(Up)]
    BY <1>3, EmptySeq DEF ForwarderEnds
  <2> QED
    BY <1>3, <2>1 DEF ForwarderEnds
<1> QED
  BY <1>1, <1>2, <1>3 DEF ForwarderNext

\* What the router does with a frame.
LEMMA RouterTyped ==
    ASSUME TypeOK, RouterTurn \/ RouterSends
    PROVE  TypeOK'
<1> USE DEF TypeOK, pageVars, gatewayVars, relayVars, routerVars, taskVars
<1> DEFINE i == Head(toAgent).by
<1>1. ASSUME NEW t, RouterTakes(t)
      PROVE  i \in Channel /\ AgentChan(i) \in AgentChans /\ toAgent' \in Seq(Down)
  <2>1. Head(toAgent) \in Down /\ toAgent' \in Seq(Down)
    BY <1>1, FrameTyped DEF RouterTakes
  <2> QED
    BY <2>1, MessageTyped DEF AgentChans
<1>2. ASSUME i \in Channel
      PROVE  /\ <<>> \in Seq(Up)
             /\ <<Msg("Ready", i)>> \in Seq(Up) /\ <<Msg("Data", i)>> \in Seq(Up)
             /\ <<Msg("Close", i)>> \in Seq(Up)
             /\ <<Msg("Ready", i), Msg("Data", i), Msg("Close", i)>> \in Seq(Up)
  BY <1>2, MessageTyped
<1>3. CASE RouterOpensStream
  <2>1. /\ i \in Channel /\ i[1] \in Socket /\ i \in Streaming /\ AgentChan(i) \in AgentChans
        /\ toAgent' \in Seq(Down)
    BY <1>1, <1>3, MuxAssumption DEF RouterOpensStream
  <2>2. active' \in [AgentChans -> Socket \cup {NoSocket}] /\ options' \subseteq AgentChans
    BY <1>3, <2>1 DEF RouterOpensStream
  <2>3. shutdown' \in [Streaming -> {"open", "signalled", "dropped"}]
    BY <1>3 DEF RouterOpensStream
  <2>4. stream' \in [Streaming -> {"none", "starting", "running", "reporting",
                                  "closing", "ended", "timedOut"}]
    BY <1>3 DEF RouterOpensStream
  <2> QED
    BY <1>3, <2>1, <2>2, <2>3, <2>4 DEF RouterOpensStream
<1>4. CASE RouterAnswers
  <2>1. i \in Channel /\ toAgent' \in Seq(Down)
    BY <1>1, <1>4 DEF RouterAnswers
  <2>2. pending' \in Seq(Up)
    <3>1. pending' \in {<<Msg("Ready", i), Msg("Data", i), Msg("Close", i)>>, <<Msg("Close", i)>>}
      BY <1>4 DEF RouterAnswers
    <3> QED
      BY <1>2, <2>1, <3>1
  <2> QED
    BY <1>4, <2>1, <2>2 DEF RouterAnswers
<1>5. CASE RouterOpensInteractive
  <2>1. i \in Channel /\ AgentChan(i) \in AgentChans /\ toAgent' \in Seq(Down)
    BY <1>1, <1>5 DEF RouterOpensInteractive
  <2>2. pending' \in Seq(Up)
    BY <1>2, <1>5, <2>1 DEF RouterOpensInteractive
  <2> QED
    BY <1>5, <2>1, <2>2 DEF RouterOpensInteractive
<1>6. CASE RouterData
  <2>1. i \in Channel /\ toAgent' \in Seq(Down)
    BY <1>1, <1>6 DEF RouterData
  <2>2. pending' \in Seq(Up)
    BY <1>2, <1>6, <2>1 DEF RouterData
  <2> QED
    BY <1>6, <2>1, <2>2 DEF RouterData
<1>7. CASE RouterCloses
  <2>1. toAgent' \in Seq(Down)
    BY <1>1, <1>7 DEF RouterCloses
  <2>2. active' \in [AgentChans -> Socket \cup {NoSocket}]
    BY <1>7 DEF RouterCloses
  <2>3. shutdown' \in [Streaming -> {"open", "signalled", "dropped"}]
    BY <1>7 DEF RouterCloses
  <2> QED
    BY <1>7, <2>1, <2>2, <2>3 DEF RouterCloses
<1>8. CASE RouterSends
  <2>1. Head(pending) \in Up /\ Tail(pending) \in Seq(Up)
    BY <1>8, FrameTyped DEF RouterSends
  <2>2. fromAgent' \in Seq(Up)
    BY <1>8, <2>1, QueueTyped DEF RouterSends, Queues
  <2> QED
    BY <1>8, <2>1, <2>2 DEF RouterSends
<1> QED
  BY <1>3, <1>4, <1>5, <1>6, <1>7, <1>8 DEF RouterTurn

\* What a streaming task does.
LEMMA StreamTyped ==
    ASSUME TypeOK, NEW i \in Streaming, StreamNext(i)
    PROVE  TypeOK'
<1> USE DEF TypeOK, pageVars, gatewayVars, relayVars, routerVars, OtherVars
<1>1. ASSUME NEW t \in {"Ready", "Data", "Close"}, Queues(Msg(t, i)) PROVE fromAgent' \in Seq(Up)
  <2>1. Msg(t, i) \in Up
    BY MessageTyped DEF Streaming
  <2> QED
    BY <1>1, <2>1, QueueTyped DEF Queues
<1>2. ASSUME NEW s \in {"running", "reporting", "closing", "ended", "timedOut"}, Becomes(i, s)
      PROVE  stream' \in [Streaming -> {"none", "starting", "running", "reporting",
                                       "closing", "ended", "timedOut"}]
  BY <1>2 DEF Becomes
<1>3. CASE StreamReady(i)
  BY <1>1, <1>2, <1>3 DEF StreamReady
<1>4. CASE StreamData(i)
  BY <1>1, <1>4 DEF StreamData
<1>5. CASE StreamFinishes(i)
  BY <1>2, <1>5 DEF StreamFinishes
<1>6. CASE StreamStops(i)
  BY <1>2, <1>6 DEF StreamStops
<1>7. CASE ScanTimesOut(i)
  BY <1>2, <1>7 DEF ScanTimesOut
<1>8. CASE ScanReports(i)
  BY <1>1, <1>2, <1>8 DEF ScanReports
<1>9. CASE StreamCloses(i)
  BY <1>1, <1>2, <1>9 DEF StreamCloses
<1> QED
  BY <1>3, <1>4, <1>5, <1>6, <1>7, <1>8, <1>9 DEF StreamNext

-----------------------------------------------------------------------------

\* An answer goes to the subscriber of its channel's prefix, and nothing else fills a queue.
LEMMA NextApart == Inv /\ [Next]_vars => SessionsApart'
<1> SUFFICES ASSUME Inv, [Next]_vars PROVE SessionsApart'
  OBVIOUS
<1> USE DEF Inv, SessionsApart
<1>1. ASSUME UNCHANGED <<subscriber, sub>> PROVE SessionsApart'
  BY <1>1
<1>2. ASSUME NEW w \in Socket, GwOpens(w) PROVE SessionsApart'
  <2>1. subscriber' \in {subscriber, [subscriber EXCEPT ![PrefixOf[w]] = w]} /\ UNCHANGED sub
    BY <1>2 DEF GwOpens
  <2>2. ASSUME NEW p \in Prefix, subscriber'[p] # NoSocket
        PROVE  PrefixOf[subscriber'[p]] = p
    <3>1. subscriber'[p] = subscriber[p] \/ (p = PrefixOf[w] /\ subscriber'[p] = w)
      BY <2>1 DEF TypeOK
    <3> QED
      BY <2>2, <3>1
  <2>3. \A x \in Socket : \A n \in 1..Len(sub'[x]) : PrefixOf[sub'[x][n].by[1]] = PrefixOf[x]
    BY <2>1
  <2> QED
    BY <2>2, <2>3
<1>3. CASE ReaderRoutes
  <2> DEFINE m == Head(fromAgent)
             v == subscriber[AgentChan(m.by)[1]]
  <2>1. m.by[1] \in Socket /\ AgentChan(m.by)[1] = PrefixOf[m.by[1]]
    BY <1>3, FrameTyped, MessageTyped DEF ReaderRoutes, TypeOK, AgentChan
  <2>2. PrefixOf[m.by[1]] \in Prefix
    BY <2>1, MuxAssumption
  <2>3. UNCHANGED subscriber
    BY <1>3 DEF ReaderRoutes
  <2>4. CASE UNCHANGED sub
    BY <1>1, <2>3, <2>4
  <2>5. CASE v # NoSocket /\ sub' = [sub EXCEPT ![v] = Append(@, m)]
    <3>1. v \in Socket /\ PrefixOf[v] = PrefixOf[m.by[1]]
      BY <2>1, <2>2, <2>5 DEF TypeOK
    <3>2. ASSUME NEW w \in Socket, NEW n \in 1..Len(sub'[w])
          PROVE  PrefixOf[sub'[w][n].by[1]] = PrefixOf[w]
      <4>1. CASE w # v
        BY <2>5, <3>2, <4>1 DEF TypeOK
      <4>2. CASE w = v
        <5>1. sub[v] \in Seq(Up) /\ sub'[v] = Append(sub[v], m)
          BY <2>5, <3>1 DEF TypeOK
        <5>2. /\ Len(sub'[v]) = Len(sub[v]) + 1
              /\ \A k \in 1..Len(sub[v]) : sub'[v][k] = sub[v][k]
              /\ sub'[v][Len(sub[v]) + 1] = m
              /\ Len(sub[v]) \in Nat
          <6>1. m \in Up
            BY <1>3, FrameTyped DEF ReaderRoutes, TypeOK
          <6> HIDE DEF m, v
          <6> QED
            BY <5>1, <6>1, AppendProperties, LenProperties
        <5>3. CASE n = Len(sub[v]) + 1
          BY <3>1, <4>2, <5>2, <5>3
        <5>4. CASE n \in 1..Len(sub[v])
          BY <3>1, <4>2, <5>2, <5>4
        <5>5. n \in 1..Len(sub'[v])
          BY <3>2, <4>2
        <5>6. n = Len(sub[v]) + 1 \/ n \in 1..Len(sub[v])
          <6> HIDE DEF v
          <6> QED
            BY <5>2, <5>5
        <5> QED
          BY <5>3, <5>4, <5>6
      <4> QED
        BY <4>1, <4>2
    <3> QED
      BY <2>3, <3>2
  <2> QED
    BY <1>3, <2>4, <2>5 DEF ReaderRoutes
<1>4. ASSUME NEW w \in Socket, ForwarderNext(w) PROVE SessionsApart'
  <2>1. UNCHANGED subscriber /\ sub' = [sub EXCEPT ![w] = IF ForwarderEnds(w) THEN <<>> ELSE Tail(@)]
    BY <1>4 DEF ForwarderNext, ForwarderSends, ForwarderEnds
  <2>2. sub[w] # <<>> \/ ForwarderEnds(w)
    BY <1>4 DEF ForwarderNext, ForwarderSends
  <2>3. ASSUME NEW x \in Socket, NEW n \in 1..Len(sub'[x])
        PROVE  PrefixOf[sub'[x][n].by[1]] = PrefixOf[x]
    <3>1. CASE x # w
      BY <2>1, <2>3, <3>1 DEF TypeOK
    <3>2. CASE x = w /\ ForwarderEnds(w)
      BY <2>1, <2>3, <3>2 DEF TypeOK
    <3>3. CASE x = w /\ ~ForwarderEnds(w)
      <4>1. sub[w] \in Seq(Up) /\ sub[w] # <<>> /\ sub'[w] = Tail(sub[w])
        BY <2>1, <2>2, <3>3 DEF TypeOK
      <4>2. Len(sub'[w]) = Len(sub[w]) - 1 /\ Len(sub[w]) \in Nat
            /\ \A k \in 1..Len(sub'[w]) : sub'[w][k] = sub[w][k + 1]
        BY <4>1, HeadTailProperties
      <4> QED
        BY <2>3, <3>3, <4>2
    <3> QED
      BY <3>1, <3>2, <3>3
  <2> QED
    BY <2>1, <2>3
<1>5. ASSUME NEW w \in Socket, PageNext(w) \/ (GatewayNext(w) /\ ~GwOpens(w))
      PROVE  UNCHANGED <<subscriber, sub>>
  BY <1>5 DEF PageNext, OpenPage, LeavePage, GatewayNext, GwRefuses, GwForwards, GwDrops,
              GwRemovesRoute, GwEnds, relayVars
<1>6. ASSUME NEW i \in Channel, ClientNext(i) PROVE UNCHANGED <<subscriber, sub>>
  BY <1>6 DEF ClientNext, ClientOpens, ClientSends, ClientCloses, relayVars
<1>7. ASSUME RouterTurn \/ RouterSends PROVE UNCHANGED <<subscriber, sub>>
  BY <1>7 DEF RouterTurn, RouterOpensStream, RouterAnswers, RouterOpensInteractive, RouterData,
              RouterCloses, RouterSends, relayVars
<1>8. ASSUME NEW i \in Streaming, StreamNext(i) PROVE UNCHANGED <<subscriber, sub>>
  BY <1>8 DEF StreamNext, StreamReady, StreamData, StreamFinishes, StreamStops, ScanTimesOut,
              ScanReports, StreamCloses, OtherVars, relayVars
<1>9. CASE UNCHANGED vars
  BY <1>1, <1>9 DEF vars, relayVars
<1> QED
  BY <1>1, <1>2, <1>3, <1>4, <1>5, <1>6, <1>7, <1>8, <1>9 DEF Next

LEMMA NextTyped == TypeOK /\ [Next]_vars => TypeOK'
<1>1. ASSUME TypeOK, UNCHANGED vars PROVE TypeOK'
  BY <1>1 DEF vars, TypeOK, pageVars, gatewayVars, relayVars, routerVars, taskVars
<1> QED
  BY <1>1, PageTyped, ClientTyped, GatewayTyped, RelayTyped, RouterTyped, StreamTyped DEF Next

LEMMA Invariance == Spec => []Inv
<1>1. Inv /\ [Next]_vars => Inv'
  BY NextTyped, NextApart DEF Inv
<1> QED
  BY <1>1, InitInv, PTL DEF Spec

\* Messages, queues, maps and tasks are of the types the code gives them; in particular every
\* frame on its way names a channel a page has opened.
THEOREM TypeCorrect == Spec => []TypeOK
<1>1. Inv => TypeOK
  BY DEF Inv
<1> QED
  BY <1>1, Invariance, PTL

\* No answer crosses from one session to another, for any number of sessions and pages, reloads
\* included: session_prefix, prefix_message and the reader's choice by prefix.
THEOREM AnswersStayInSession == Spec => []SessionsApart
<1>1. Inv => SessionsApart
  BY DEF Inv
<1> QED
  BY <1>1, Invariance, PTL

\* A session whose page is never reloaded has no data interleaved: what its page is shown was
\* produced for it (the check of ws.rs for an id in use is about one socket).
THEOREM OnePageNotInterleaved ==
    ASSUME \A v, w \in Socket : PrefixOf[v] = PrefixOf[w] => v = w
    PROVE  Spec => []NoInterleaving
<1>1. Inv => NoInterleaving
  <2> SUFFICES ASSUME Inv, NEW w \in Socket, NEW n \in 1..Len(sub[w])
               PROVE  sub[w][n].by[1] = w
    BY DEF NoInterleaving
  <2>1. sub[w][n] \in Up
    BY DEF Inv, TypeOK
  <2>2. sub[w][n].by[1] \in Socket
    BY <2>1, MessageTyped
  <2> QED
    BY <2>2 DEF Inv, SessionsApart
<1> QED
  BY <1>1, Invariance, PTL
=============================================================================
