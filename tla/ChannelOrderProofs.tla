------------------------- MODULE ChannelOrderProofs -------------------------
(***************************************************************************)
(* What a page sees of its channels, for any sockets, channels, payloads   *)
(* and capacities, when it is the only page its session has had, whatever  *)
(* other sessions do: every answer comes in its turn, and once nothing is  *)
(* in flight the gateway's routes are the channels the agent serves.       *)
(***************************************************************************)
EXTENDS ChannelMuxProofs

\* The session of w has no other page: no reload, no second tab.
Alone(w) == \A v \in Socket : PrefixOf[v] = PrefixOf[w] => v = w

\* The types of channel i's messages on queue q.
Kinds(q, i) == {q[n].type : n \in {k \in 1..Len(q) : q[k].by = i}}

\* On q, nothing of channel i comes after its Close, nor anything before its Open or Ready.
Orderly(q, i) ==
    \A m, n \in 1..Len(q) :
        m < n /\ q[m].by = i /\ q[n].by = i
        => q[m].type # "Close" /\ q[n].type \notin {"Open", "Ready"}

\* What of channel i is on each leg of its way, to the agent and back.
Asked(i)  == Kinds(inbox[i[1]], i)
Coming(i) == Kinds(toAgent, i)
Out(i)    == Kinds(pending, i)
Sent(i)   == Kinds(fromAgent, i)
Queued(i) == Kinds(sub[i[1]], i)
Due(i)    == Out(i) \cup Sent(i) \cup Queued(i)

-----------------------------------------------------------------------------
(* The inductive invariant.  Once a page has left, nothing more is said of its channels. *)

\* Each leg is in order, and so are the three legs of the way back after one another.
Ordered(i) ==
    /\ Orderly(inbox[i[1]], i) /\ Orderly(toAgent, i)
    /\ Orderly(pending, i) /\ Orderly(fromAgent, i) /\ Orderly(sub[i[1]], i)
    /\ "Close" \in Queued(i) => Sent(i) = {} /\ Out(i) = {}
    /\ "Close" \in Sent(i) => Out(i) = {}
    /\ "Ready" \in Sent(i) => Queued(i) = {}
    /\ "Ready" \in Out(i) => Queued(i) = {} /\ Sent(i) = {}

\* The agent has not heard of i; nor has the gateway.
Unserved(i) ==
    /\ Due(i) = {} /\ i \notin notify
    /\ AgentChan(i) \notin handlers /\ active[AgentChan(i)] = NoSocket
    /\ i \in Streaming => stream[i] = "none" /\ shutdown[i] = "open"
Untouched(i) == Unserved(i) /\ Coming(i) = {} /\ i \notin routes

\* A channel starts once, with its Open.
Begins(i) ==
    /\ client[i] = "idle" => Asked(i) = {} /\ Untouched(i) /\ got[i] = "nothing"
    /\ "Close" \in Asked(i) => client[i] = "closed"
    /\ "Open" \in Asked(i) \/ i[1] \notin joined => Untouched(i)
    /\ "Open" \in Coming(i) => Unserved(i)

\* The agent's maps and task of i agree with one another and with what is on its way back.
Serves(i) ==
    LET k == AgentChan(i) IN
    /\ "Close" \in Due(i) \/ i \in notify => k \notin handlers /\ (i \in Streaming => stream[i] = "ended")
    /\ k \in handlers => Payload[i] = "interactive"
    /\ Payload[i] = "interactive" => "Close" \notin Due(i) /\ i \notin notify
    /\ i \notin Streaming => active[k] = NoSocket
    /\ i \in Streaming =>
        /\ Out(i) = {}
        /\ stream[i] \in {"none", "starting"} => Due(i) = {} /\ i \notin notify
        /\ stream[i] # "none" => active[k] = i[1] \/ shutdown[i] = "signalled"
        /\ shutdown[i] # "dropped"

\* What is routed is served, was, or is about to be; what is not will be told to stop.
Routed(i) ==
    LET k == AgentChan(i) IN
    /\ i \in routes =>
        /\ "Close" \notin Coming(i)
        /\ i \in Streaming => shutdown[i] = "open"
        /\ \/ "Open" \in Coming(i) \/ "Close" \in Due(i) \/ i \in notify
           \/ k \in handlers
           \/ i \in Streaming /\ stream[i] \notin {"none", "ended"}
    /\ i \notin routes =>
        /\ "Open" \in Coming(i) \/ k \in handlers => "Close" \in Coming(i)
        /\ i \in Streaming /\ stream[i] \in {"starting", "running"} =>
                "Close" \in Coming(i) \/ shutdown[i] = "signalled"

\* Ready has been seen or is on its way.
Readied(i) == got[i] = "ready" \/ "Ready" \in Due(i)

\* What a listening page has seen agrees with what is still to come.
Answers(i) ==
    /\ "Ready" \in Due(i) => got[i] = "nothing"
    /\ "Data" \in Due(i) => Readied(i)
    /\ "Open" \in Asked(i) \cup Coming(i) => got[i] = "nothing"
    /\ got[i] = "closed" => Due(i) = {}
    /\ AgentChan(i) \in handlers => Readied(i) /\ got[i] # "closed"
    /\ i \in Streaming =>
        /\ stream[i] = "starting" => got[i] = "nothing"
        /\ stream[i] \in {"running", "reporting"} => Readied(i)
        /\ stream[i] \in {"running", "reporting", "closing"} => got[i] # "closed"

ChannelInv(i) ==
    /\ client[i] = "open" => page[i[1]] = "open"
    /\ page[i[1]] = "new" => client[i] = "idle"
    /\ active[AgentChan(i)] \in {NoSocket, i[1]}
    /\ page[i[1]] # "left" => Ordered(i) /\ Begins(i) /\ Serves(i) /\ Routed(i)
    /\ client[i] = "open" => Answers(i)

\* Every frame on q names a channel of w.
Mine(q, w) == \A n \in 1..Len(q) : q[n].by[1] = w

\* A page that is there and has opened a channel is subscribed; its frames name its channels.
SocketInv(w) ==
    /\ page[w] # "left" /\ w \in joined => forwarder[w] = "running" /\ subscriber[PrefixOf[w]] = w
    /\ forwarder[w] = "running" => w \in joined

Sockets ==
    /\ \A w \in Socket : Mine(inbox[w], w) /\ (Alone(w) => SocketInv(w))
    /\ \A k \in AgentChans : active[k] # NoSocket => PrefixOf[active[k]] = k[1]
Channels == \A i \in Channel : Alone(i[1]) => ChannelInv(i)

-----------------------------------------------------------------------------
(* Queues *)

\* A message put on a queue.
LEMMA Extended ==
    ASSUME NEW M, NEW q \in Seq(M), NEW m \in M, NEW i
    PROVE  /\ Kinds(Append(q, m), i) = IF m.by = i THEN Kinds(q, i) \cup {m.type} ELSE Kinds(q, i)
           /\ Orderly(q, i)
              /\ (m.by = i => /\ "Close" \notin Kinds(q, i)
                              /\ m.type \in {"Open", "Ready"} => Kinds(q, i) = {})
              => Orderly(Append(q, m), i)
<1> DEFINE r == Append(q, m)
<1>1. /\ Len(q) \in Nat /\ Len(r) = Len(q) + 1
      /\ \A n \in 1..Len(q) : r[n] = q[n]
      /\ r[Len(q) + 1] = m
  BY AppendProperties, LenProperties
<1> HIDE DEF r
<1>2. 1..Len(r) = (1..Len(q)) \cup {Len(q) + 1}
  BY <1>1
<1>3. {k \in 1..Len(r) : r[k].by = i}
      = {k \in 1..Len(q) : q[k].by = i} \cup (IF m.by = i THEN {Len(q) + 1} ELSE {})
  BY <1>1, <1>2
<1>4. Kinds(r, i) = IF m.by = i THEN Kinds(q, i) \cup {m.type} ELSE Kinds(q, i)
  BY <1>1, <1>3 DEF Kinds
<1>5. ASSUME Orderly(q, i),
             m.by = i => "Close" \notin Kinds(q, i) /\ (m.type \in {"Open", "Ready"} => Kinds(q, i) = {}),
             NEW x \in 1..Len(r), NEW y \in 1..Len(r), x < y, r[x].by = i, r[y].by = i
      PROVE  r[x].type # "Close" /\ r[y].type \notin {"Open", "Ready"}
  <2>1. x \in 1..Len(q)
    BY <1>1, <1>2, <1>5
  <2>2. CASE y \in 1..Len(q)
    BY <1>1, <1>5, <2>1, <2>2 DEF Orderly
  <2>3. CASE y = Len(q) + 1
    <3>1. q[x].type \in Kinds(q, i) /\ m.by = i /\ r[y] = m /\ r[x] = q[x]
      BY <1>1, <1>5, <2>1, <2>3 DEF Kinds
    <3> QED
      BY <1>5, <3>1
  <2> QED
    BY <1>2, <2>2, <2>3
<1> QED
  BY <1>4, <1>5 DEF Orderly, r

\* A message taken from a queue.
LEMMA Shortened ==
    ASSUME NEW M, NEW q \in Seq(M), q # <<>>, NEW i
    PROVE  /\ Kinds(q, i) = IF Head(q).by = i THEN Kinds(Tail(q), i) \cup {Head(q).type}
                                               ELSE Kinds(Tail(q), i)
           /\ Orderly(q, i) =>
                /\ Orderly(Tail(q), i)
                /\ Head(q).by = i => /\ "Open" \notin Kinds(Tail(q), i)
                                     /\ "Ready" \notin Kinds(Tail(q), i)
                                     /\ Head(q).type = "Close" => Kinds(Tail(q), i) = {}
<1> DEFINE r == Tail(q)
           m == Head(q)
<1>1. /\ Len(q) \in Nat /\ Len(q) # 0 /\ Len(r) = Len(q) - 1
      /\ \A n \in 1..Len(r) : r[n] = q[n + 1]
      /\ m = q[1]
  BY HeadTailProperties, LenProperties, EmptySeq
<1> HIDE DEF r, m
<1>2. /\ \A n \in 1..Len(r) : n + 1 \in 1..Len(q)
      /\ \A n \in 1..Len(q) : n = 1 \/ (n - 1 \in 1..Len(r) /\ n = (n - 1) + 1)
      /\ 1 \in 1..Len(q)
  BY <1>1
<1>3. Kinds(q, i) = IF m.by = i THEN Kinds(r, i) \cup {m.type} ELSE Kinds(r, i)
  <2>1. ASSUME NEW t \in Kinds(q, i) PROVE t \in Kinds(r, i) \/ (m.by = i /\ t = m.type)
    <3>1. PICK n \in 1..Len(q) : q[n].by = i /\ q[n].type = t
      BY DEF Kinds
    <3>2. CASE n = 1
      BY <1>1, <3>1, <3>2
    <3>3. CASE n - 1 \in 1..Len(r) /\ n = (n - 1) + 1
      <4>1. r[n - 1] = q[n]
        BY <1>1, <3>3
      <4> QED
        BY <3>1, <3>3, <4>1 DEF Kinds
    <3> QED
      BY <1>2, <3>2, <3>3
  <2>2. ASSUME NEW t \in Kinds(r, i) PROVE t \in Kinds(q, i)
    <3>1. PICK n \in 1..Len(r) : r[n].by = i /\ r[n].type = t
      BY DEF Kinds
    <3> QED
      BY <1>1, <1>2, <3>1 DEF Kinds
  <2>3. m.by = i => m.type \in Kinds(q, i)
    BY <1>1, <1>2 DEF Kinds
  <2> QED
    BY <2>1, <2>2, <2>3
<1>4. ASSUME Orderly(q, i) PROVE Orderly(r, i)
  <2>1. ASSUME NEW x \in 1..Len(r), NEW y \in 1..Len(r), x < y, r[x].by = i, r[y].by = i
        PROVE  r[x].type # "Close" /\ r[y].type \notin {"Open", "Ready"}
    <3>1. x + 1 \in 1..Len(q) /\ y + 1 \in 1..Len(q) /\ x + 1 < y + 1
      BY <1>2, <2>1
    <3>2. r[x] = q[x + 1] /\ r[y] = q[y + 1]
      BY <1>1
    <3> QED
      BY <1>4, <2>1, <3>1, <3>2 DEF Orderly
  <2> QED
    BY <2>1 DEF Orderly
<1>5. ASSUME Orderly(q, i), m.by = i, NEW t \in Kinds(r, i)
      PROVE  t \notin {"Open", "Ready"} /\ m.type # "Close"
  <2>1. PICK n \in 1..Len(r) : r[n].by = i /\ r[n].type = t
    BY <1>5 DEF Kinds
  <2>2. 1 \in 1..Len(q) /\ n + 1 \in 1..Len(q) /\ 1 < n + 1
    BY <1>2
  <2> QED
    BY <1>1, <1>5, <2>1, <2>2 DEF Orderly
<1> QED
  BY <1>3, <1>4, <1>5 DEF r, m

\* The queues the agent's router makes, of nothing, of one message, or of a whole answer.
LEMMA Made ==
    ASSUME NEW i
    PROVE  /\ Kinds(<<>>, i) = {} /\ Orderly(<<>>, i)
           /\ \A t, j : /\ Orderly(<<Msg(t, j)>>, i)
                        /\ Kinds(<<Msg(t, j)>>, i) = IF j = i THEN {t} ELSE {}
           /\ \A j : LET q == <<Msg("Ready", j), Msg("Data", j), Msg("Close", j)>>
                     IN /\ Orderly(q, i)
                        /\ Kinds(q, i) = IF j = i THEN {"Ready", "Data", "Close"} ELSE {}
<1>1. Kinds(<<>>, i) = {} /\ Orderly(<<>>, i)
  BY DEF Kinds, Orderly
<1>2. ASSUME NEW t, NEW j
      PROVE  /\ Orderly(<<Msg(t, j)>>, i)
             /\ Kinds(<<Msg(t, j)>>, i) = IF j = i THEN {t} ELSE {}
  <2> DEFINE q == <<Msg(t, j)>>
  <2>1. Len(q) = 1 /\ q[1] = Msg(t, j)
    OBVIOUS
  <2> HIDE DEF q
  <2>2. 1..Len(q) = {1}
    BY <2>1
  <2>3. {k \in 1..Len(q) : q[k].by = i} = IF j = i THEN {1} ELSE {}
    BY <2>1, <2>2 DEF Msg
  <2>4. Kinds(q, i) = IF j = i THEN {t} ELSE {}
    BY <2>1, <2>3 DEF Kinds, Msg
  <2>5. Orderly(q, i)
    BY <2>2 DEF Orderly
  <2> QED
    BY <2>4, <2>5 DEF q
<1>3. ASSUME NEW j
      PROVE  LET q == <<Msg("Ready", j), Msg("Data", j), Msg("Close", j)>>
             IN /\ Orderly(q, i)
                /\ Kinds(q, i) = IF j = i THEN {"Ready", "Data", "Close"} ELSE {}
  <2> DEFINE q == <<Msg("Ready", j), Msg("Data", j), Msg("Close", j)>>
  <2>1. Len(q) = 3 /\ q[1] = Msg("Ready", j) /\ q[2] = Msg("Data", j) /\ q[3] = Msg("Close", j)
    OBVIOUS
  <2> HIDE DEF q
  <2>2. 1..Len(q) = {1, 2, 3}
    BY <2>1
  <2>3. {k \in 1..Len(q) : q[k].by = i} = IF j = i THEN {1, 2, 3} ELSE {}
    BY <2>1, <2>2 DEF Msg
  <2>4. Kinds(q, i) = IF j = i THEN {"Ready", "Data", "Close"} ELSE {}
    BY <2>1, <2>3 DEF Kinds, Msg
  <2>5. Orderly(q, i)
    BY <2>1, <2>2 DEF Orderly, Msg
  <2> QED
    BY <2>4, <2>5 DEF q
<1> QED
  BY <1>1, <1>2, <1>3

-----------------------------------------------------------------------------
(* Channels a step does not concern *)

\* What q holds of channel i, and in what order, r holds too.
Kept(q, r, i) == Kinds(r, i) = Kinds(q, i) /\ (Orderly(q, i) => Orderly(r, i))

SamePage(i) == page'[i[1]] = page[i[1]] /\ client'[i] = client[i] /\ got'[i] = got[i]
SameAsked(i)  == Kept(inbox[i[1]], inbox'[i[1]], i)
SameComing(i) == Kept(toAgent, toAgent', i)
SameDue(i) ==
    Kept(pending, pending', i) /\ Kept(fromAgent, fromAgent', i) /\ Kept(sub[i[1]], sub'[i[1]], i)
SameRoute(i) == (i \in routes' <=> i \in routes) /\ (i \in notify' <=> i \in notify)
SameMaps(i) ==
    /\ AgentChan(i) \in handlers' <=> AgentChan(i) \in handlers
    /\ active'[AgentChan(i)] = active[AgentChan(i)]
SameTask(i) == i \in Streaming => stream'[i] = stream[i] /\ shutdown'[i] = shutdown[i]

\* A queue that stays, or that is given or loses a message of another channel.
LEMMA KeptQueue ==
    ASSUME NEW M, NEW q \in Seq(M), NEW i
    PROVE  /\ Kept(q, q, i)
           /\ \A m \in M : m.by # i => Kept(q, Append(q, m), i)
           /\ q # <<>> /\ Head(q).by # i => Kept(q, Tail(q), i)
  BY Extended, Shortened DEF Kept

\* Nothing changes for channel i but, perhaps, that its page has joined.
LEMMA Frame ==
    ASSUME NEW i \in Channel, ChannelInv(i), joined \subseteq joined',
           SamePage(i), SameAsked(i), SameComing(i), SameDue(i), SameRoute(i), SameMaps(i), SameTask(i)
    PROVE  ChannelInv(i)'
<1> USE DEF SamePage, SameAsked, SameComing, SameDue, SameRoute, SameMaps, SameTask, Kept,
            Asked, Coming, Out, Sent, Queued, Due
<1>1. Ordered(i) => Ordered(i)'
  BY DEF Ordered
<1>2. (Unserved(i)' <=> Unserved(i)) /\ (Untouched(i)' <=> Untouched(i))
  BY DEF Unserved, Untouched
<1>3. Begins(i) => Begins(i)'
  BY <1>2 DEF Begins
<1>4. Serves(i) => Serves(i)'
  BY DEF Serves
<1>5. Routed(i) => Routed(i)'
  BY DEF Routed
<1>6. Answers(i) => Answers(i)'
  BY DEF Answers, Readied
<1> QED
  BY <1>1, <1>3, <1>4, <1>5, <1>6 DEF ChannelInv

\* Two channels are one at the agent only if they are one, and a page's id names one channel.
LEMMA Names ==
    ASSUME NEW i \in Channel, NEW j \in Channel, Alone(i[1])
    PROVE  /\ i[1] \in Socket /\ i = <<i[1], i[2]>>
           /\ AgentChan(i) = AgentChan(j) => i = j
           /\ AgentChan(i) \in AgentChans /\ AgentChan(i)[1] = PrefixOf[i[1]]
<1>1. /\ i[1] \in Socket /\ i = <<i[1], i[2]>>
      /\ j[1] \in Socket /\ j = <<j[1], j[2]>>
  BY MuxAssumption
<1>2. ASSUME AgentChan(i) = AgentChan(j) PROVE i = j
  <2>1. PrefixOf[i[1]] = PrefixOf[j[1]] /\ i[2] = j[2]
    BY <1>2 DEF AgentChan
  <2>2. i[1] = j[1]
    BY <1>1, <2>1 DEF Alone
  <2> QED
    BY <1>1, <2>1, <2>2
<1> QED
  BY <1>1, <1>2 DEF AgentChan, AgentChans

-----------------------------------------------------------------------------
(* The page and its channels *)

\* A page that leaves takes its channels along; one that opens has none yet.
LEMMA PageStep ==
    ASSUME Inv, Sockets, NEW w \in Socket, PageNext(w),
           NEW i \in Channel, Alone(i[1]), ChannelInv(i)
    PROVE  ChannelInv(i)'
<1> USE DEF pageVars, gatewayVars, relayVars, routerVars, taskVars
<1>1. i[1] \in Socket /\ ChannelInv(i) /\ TypeOK
  BY MuxAssumption DEF Inv
<1>2. UNCHANGED <<got, inbox, routes, joined, notify, sub, toAgent, fromAgent, pending,
                 active, handlers, stream, shutdown>>
  BY DEF PageNext, OpenPage, LeavePage
<1>3. SameAsked(i) /\ SameComing(i) /\ SameDue(i) /\ SameRoute(i) /\ SameMaps(i) /\ SameTask(i)
  BY <1>2 DEF SameAsked, SameComing, SameDue, SameRoute, SameMaps, SameTask, Kept
<1>4. CASE i[1] # w
  <2>1. SamePage(i)
    BY <1>1, <1>4 DEF PageNext, OpenPage, LeavePage, SamePage, TypeOK
  <2> QED
    BY <1>1, <1>2, <1>3, <2>1, Frame
<1>5. CASE i[1] = w /\ LeavePage(w)
  BY <1>1, <1>2, <1>5 DEF LeavePage, ChannelInv, TypeOK
<1>6. CASE i[1] = w /\ OpenPage(w)
  <2>1. page[w] = "new" /\ page'[w] = "open" /\ UNCHANGED client /\ client[i] = "idle"
    BY <1>1, <1>6 DEF OpenPage, TypeOK, ChannelInv
  <2>2. /\ Ordered(i)' <=> Ordered(i)
        /\ Begins(i)' <=> Begins(i)
        /\ Serves(i)' <=> Serves(i)
        /\ Routed(i)' <=> Routed(i)
    BY <1>2, <2>1 DEF Ordered, Begins, Serves, Routed, Unserved, Untouched, Asked, Coming, Out,
                      Sent, Queued, Due
  <2> QED
    BY <1>1, <1>2, <1>6, <2>1, <2>2 DEF ChannelInv
<1> QED
  BY <1>4, <1>5, <1>6 DEF PageNext

\* What a page sends: Open first, nothing after Close.
LEMMA ClientStep ==
    ASSUME Inv, Sockets, NEW j \in Channel, ClientNext(j),
           NEW i \in Channel, Alone(i[1]), ChannelInv(i)
    PROVE  ChannelInv(i)'
<1> USE DEF pageVars, gatewayVars, relayVars, routerVars, taskVars
<1>1. i[1] \in Socket /\ j[1] \in Socket /\ ChannelInv(i) /\ TypeOK /\ inbox[i[1]] \in Seq(Down)
  BY MuxAssumption DEF Inv, TypeOK
<1>2. UNCHANGED <<page, got, routes, joined, notify, sub, toAgent, fromAgent, pending,
                 active, handlers, stream, shutdown>>
  BY DEF ClientNext, ClientOpens, ClientSends, ClientCloses
<1>3. PICK t \in {"Open", "Data", "Close"} :
          /\ Sends(j, t)
          /\ t = "Open" => client[j] = "idle" /\ page[j[1]] = "open"
          /\ t # "Open" => client[j] = "open"
          /\ client' = [client EXCEPT ![j] = IF t = "Close" THEN "closed" ELSE "open"]
  <2>1. CASE ClientOpens(j)
    BY <2>1 DEF ClientOpens
  <2>2. CASE ClientSends(j)
    BY <1>1, <2>2 DEF ClientSends, TypeOK
  <2>3. CASE ClientCloses(j)
    BY <2>3 DEF ClientCloses
  <2> QED
    BY <2>1, <2>2, <2>3 DEF ClientNext
<1>4. Msg(t, j) \in Down /\ Msg(t, j).by = j /\ Msg(t, j).type = t
  BY MessageTyped DEF Msg
<1>5. SameComing(i) /\ SameDue(i) /\ SameRoute(i) /\ SameMaps(i) /\ SameTask(i)
  BY <1>2 DEF SameComing, SameDue, SameRoute, SameMaps, SameTask, Kept
<1>6. inbox'[i[1]] = IF i[1] = j[1] THEN Append(inbox[i[1]], Msg(t, j)) ELSE inbox[i[1]]
  BY <1>1, <1>3 DEF Sends, TypeOK
<1>7. CASE i # j
  <2>1. SameAsked(i)
    BY <1>1, <1>4, <1>6, <1>7, KeptQueue DEF SameAsked
  <2>2. SamePage(i)
    BY <1>1, <1>2, <1>3, <1>7 DEF SamePage, TypeOK
  <2> QED
    BY <1>1, <1>2, <1>5, <2>1, <2>2, Frame
<1>8. CASE i = j
  <2>1. /\ Asked(i)' = Asked(i) \cup {t}
        /\ Orderly(inbox[i[1]], i) /\ "Close" \notin Asked(i) /\ (t = "Open" => Asked(i) = {})
           => Orderly(inbox'[i[1]], i)
    BY <1>1, <1>4, <1>6, <1>8, Extended DEF Asked
  <2>2. UNCHANGED <<Coming(i), Out(i), Sent(i), Queued(i)>>
    BY <1>2 DEF Coming, Out, Sent, Queued
  <2>3. client'[i] = IF t = "Close" THEN "closed" ELSE "open"
    BY <1>1, <1>3, <1>8 DEF TypeOK
  <2>4. page[i[1]] = "open"
    BY <1>1, <1>3, <1>8 DEF ChannelInv
  <2>5. Ordered(i) /\ Begins(i) /\ Serves(i) /\ Routed(i)
    BY <1>1, <2>4 DEF ChannelInv
  <2>6. Ordered(i)'
    BY <1>2, <1>3, <1>8, <2>1, <2>2, <2>5 DEF Ordered, Begins
  <2>7. UNCHANGED Due(i) /\ (Unserved(i)' <=> Unserved(i)) /\ (Untouched(i)' <=> Untouched(i))
    BY <1>2, <2>2 DEF Unserved, Untouched, Due
  <2>8. Begins(i)'
    BY <1>2, <1>3, <1>8, <2>1, <2>2, <2>3, <2>5, <2>7 DEF Begins
  <2>9. Serves(i)' /\ Routed(i)'
    BY <1>2, <2>2, <2>5, <2>7 DEF Serves, Routed
  <2>10. client'[i] = "open" => Answers(i)'
    <3>1. CASE t = "Open"
      BY <1>2, <1>3, <1>8, <2>1, <2>2, <2>5, <2>7, <3>1 DEF Begins, Unserved, Untouched, Answers, Readied
    <3>2. CASE t # "Open"
      BY <1>1, <1>2, <1>3, <1>8, <2>1, <2>2, <2>7, <3>2 DEF ChannelInv, Answers, Readied
    <3> QED
      BY <3>1, <3>2
  <2> QED
    BY <1>1, <1>2, <2>3, <2>4, <2>6, <2>8, <2>9, <2>10 DEF ChannelInv
<1> QED
  BY <1>7, <1>8

-----------------------------------------------------------------------------
(* The gateway's loop *)

\* What an answer for channel j changes for channel i.
LEMMA Heard ==
    ASSUME TypeOK, NEW i \in Channel, NEW j, j[1] \in Socket, NEW t, NEW q \in Seq(Down), Hears(j, t, q)
    PROVE  /\ i # j => /\ client'[i] = client[i] /\ got'[i] = got[i]
                       /\ i[1] # j[1] => inbox'[i[1]] = inbox[i[1]]
                       /\ i[1] = j[1] => Kept(q, inbox'[i[1]], i)
           /\ i = j /\ client[i] # "open" =>
                client'[i] = client[i] /\ got'[i] = got[i] /\ inbox'[i[1]] = q
           /\ i = j /\ client[i] = "open" =>
                LET closes == t = "Close" /\ Payload[i] = "oneshot" IN
                /\ got'[i] = IF t = "Close" THEN "closed" ELSE "ready"
                /\ client'[i] = IF closes THEN "closed" ELSE "open"
                /\ Asked(i)' = Kinds(q, i) \cup (IF closes THEN {"Close"} ELSE {})
                /\ Orderly(q, i) /\ "Close" \notin Kinds(q, i) => Orderly(inbox'[i[1]], i)
<1> DEFINE answers == j \in Channel /\ client[j] = "open" /\ t = "Close" /\ Payload[j] = "oneshot"
<1>1. i[1] \in Socket
  BY MuxAssumption
<1>2. inbox'[i[1]] = IF i[1] # j[1] THEN inbox[i[1]] ELSE IF answers THEN Append(q, Msg("Close", j)) ELSE q
  BY <1>1 DEF Hears, TypeOK
<1>3. ASSUME j \in Channel
      PROVE  Msg("Close", j) \in Down /\ Msg("Close", j).by = j /\ Msg("Close", j).type = "Close"
  BY <1>3, MessageTyped DEF Msg
<1>4. ASSUME i # j
      PROVE  /\ client'[i] = client[i] /\ got'[i] = got[i]
             /\ i[1] # j[1] => inbox'[i[1]] = inbox[i[1]]
             /\ i[1] = j[1] => Kept(q, inbox'[i[1]], i)
  <2>1. client'[i] = client[i] /\ got'[i] = got[i]
    BY <1>4 DEF Hears, TypeOK
  <2>2. i[1] = j[1] => Kept(q, inbox'[i[1]], i)
    BY <1>2, <1>3, <1>4, KeptQueue
  <2> QED
    BY <1>2, <2>1, <2>2
<1>5. ASSUME i = j, client[i] # "open"
      PROVE  client'[i] = client[i] /\ got'[i] = got[i] /\ inbox'[i[1]] = q
  BY <1>2, <1>5 DEF Hears
<1>6. ASSUME i = j, client[i] = "open"
      PROVE  LET closes == t = "Close" /\ Payload[i] = "oneshot" IN
             /\ got'[i] = IF t = "Close" THEN "closed" ELSE "ready"
             /\ client'[i] = IF closes THEN "closed" ELSE "open"
             /\ Asked(i)' = Kinds(q, i) \cup (IF closes THEN {"Close"} ELSE {})
             /\ Orderly(q, i) /\ "Close" \notin Kinds(q, i) => Orderly(inbox'[i[1]], i)
  <2>1. got'[i] = IF t = "Close" THEN "closed" ELSE "ready"
    BY <1>6 DEF Hears, TypeOK
  <2>2. client'[i] = IF answers THEN "closed" ELSE "open"
    BY <1>6 DEF Hears, TypeOK
  <2>3. CASE answers
    <3>1. inbox'[i[1]] = Append(q, Msg("Close", i))
      BY <1>2, <1>6, <2>3
    <3>2. /\ Kinds(inbox'[i[1]], i) = Kinds(q, i) \cup {"Close"}
          /\ Orderly(q, i) /\ "Close" \notin Kinds(q, i) => Orderly(inbox'[i[1]], i)
      BY <1>3, <1>6, <3>1, Extended
    <3> QED
      BY <1>6, <2>1, <2>2, <2>3, <3>2 DEF Asked
  <2>4. CASE ~answers
    BY <1>2, <1>6, <2>1, <2>2, <2>4 DEF Asked
  <2> QED
    BY <2>3, <2>4
<1> QED
  BY <1>4, <1>5, <1>6

\* The loop takes a frame of w: one of its channels'.
LEMMA FrameTaken ==
    ASSUME Inv, Sockets, NEW w \in Socket, inbox[w] # <<>>
    PROVE  LET m == Head(inbox[w]) IN
           /\ m \in Down /\ m.by \in Channel /\ m.by[1] = w
           /\ inbox[w] \in Seq(Down) /\ Tail(inbox[w]) \in Seq(Down)
           /\ \A i \in Channel : i[1] = w =>
                /\ i # m.by => Kept(inbox[w], Tail(inbox[w]), i)
                /\ i = m.by => Asked(i) = Kinds(Tail(inbox[w]), i) \cup {m.type}
                /\ i = m.by /\ Orderly(inbox[w], i) =>
                    /\ Orderly(Tail(inbox[w]), i)
                    /\ "Open" \notin Kinds(Tail(inbox[w]), i)
                    /\ m.type = "Close" => Kinds(Tail(inbox[w]), i) = {}
<1>1. inbox[w] \in Seq(Down)
  BY DEF Inv, TypeOK
<1>2. Head(inbox[w]) \in Down /\ Tail(inbox[w]) \in Seq(Down) /\ Head(inbox[w]) = inbox[w][1]
      /\ 1 \in 1..Len(inbox[w])
  BY <1>1, HeadTailProperties, LenProperties, EmptySeq
<1>3. Head(inbox[w]).by \in Channel /\ Head(inbox[w]).by[1] = w
  BY <1>2, MessageTyped DEF Sockets, Mine
<1> QED
  BY <1>1, <1>2, <1>3, KeptQueue, Shortened DEF Asked

\* An Open is refused: the page hears Close, and the agent nothing.
LEMMA RefuseStep ==
    ASSUME Inv, Sockets, NEW w \in Socket, GwRefuses(w),
           NEW i \in Channel, Alone(i[1]), ChannelInv(i)
    PROVE  ChannelInv(i)'
<1> USE DEF pageVars, gatewayVars, relayVars, routerVars, taskVars
<1> DEFINE j == Head(inbox[w]).by
           q == Tail(inbox[w])
<1>1. i[1] \in Socket /\ ChannelInv(i) /\ TypeOK /\ inbox[w] # <<>> /\ Head(inbox[w]).type = "Open"
      /\ Hears(j, "Close", q)
  BY MuxAssumption DEF Inv, GwRefuses, NextFrame
<1>2. UNCHANGED <<page, routes, joined, notify, sub, toAgent, fromAgent, pending,
                 active, handlers, stream, shutdown>>
  BY DEF GwRefuses
<1>3. j \in Channel /\ j[1] = w /\ q \in Seq(Down)
  BY <1>1, FrameTaken
<1> HIDE DEF j, q
<1>4. SameComing(i) /\ SameDue(i) /\ SameRoute(i) /\ SameMaps(i) /\ SameTask(i)
  BY <1>2 DEF SameComing, SameDue, SameRoute, SameMaps, SameTask, Kept
<1>5. CASE i # j
  <2>1. SameAsked(i) /\ SamePage(i)
    <3>1. /\ client'[i] = client[i] /\ got'[i] = got[i]
          /\ i[1] # w => inbox'[i[1]] = inbox[i[1]]
          /\ i[1] = w => Kept(q, inbox'[i[1]], i)
      BY <1>1, <1>3, <1>5, Heard
    <3>2. i[1] = w => Kept(inbox[w], q, i)
      BY <1>1, <1>5, FrameTaken DEF j, q
    <3> QED
      BY <1>2, <3>1, <3>2 DEF SameAsked, SamePage, Kept
  <2> QED
    BY <1>1, <1>2, <1>4, <2>1, Frame
<1>6. CASE i = j
  <2>1. /\ Asked(i) = Kinds(q, i) \cup {"Open"}
        /\ Orderly(inbox[w], i) => Orderly(q, i) /\ "Open" \notin Kinds(q, i)
    BY <1>1, <1>3, <1>6, FrameTaken DEF j, q
  <2>2. /\ UNCHANGED <<Coming(i), Out(i), Due(i)>>
        /\ (Unserved(i)' <=> Unserved(i)) /\ (Untouched(i)' <=> Untouched(i))
    BY <1>2 DEF Coming, Out, Sent, Queued, Due, Unserved, Untouched
  <2>3. CASE page[i[1]] = "left"
    BY <1>1, <1>2, <1>3, <1>6, <2>3, Heard DEF ChannelInv
  <2>4. CASE page[i[1]] # "left"
    <3>1. Ordered(i) /\ Begins(i) /\ Serves(i) /\ Routed(i)
      BY <1>1, <2>4 DEF ChannelInv
    <3>2. Orderly(q, i) /\ "Open" \notin Kinds(q, i) /\ Untouched(i) /\ client[i] # "idle"
      BY <1>3, <1>6, <2>1, <3>1 DEF Ordered, Begins
    <3>3. Serves(i)' /\ Routed(i)'
      BY <1>2, <2>2, <3>1 DEF Serves, Routed
    <3>4. CASE client[i] = "open"
      <4> DEFINE closes == Payload[i] = "oneshot"
      <4>1. /\ got'[i] = "closed" /\ client'[i] = IF closes THEN "closed" ELSE "open"
            /\ Asked(i)' = Kinds(q, i) \cup (IF closes THEN {"Close"} ELSE {})
            /\ Orderly(q, i) /\ "Close" \notin Kinds(q, i) => Orderly(inbox'[i[1]], i)
        BY <1>1, <1>3, <1>6, <3>4, Heard
      <4>2. "Close" \notin Kinds(q, i)
        BY <2>1, <3>1, <3>4 DEF Begins
      <4>3. Ordered(i)'
        BY <1>2, <3>1, <3>2, <4>1, <4>2 DEF Ordered, Out, Sent, Queued
      <4>4. Begins(i)'
        BY <1>2, <2>2, <3>2, <4>1, <4>2 DEF Begins, Untouched
      <4>5. Answers(i)'
        BY <1>2, <2>2, <3>2, <4>1 DEF Answers, Untouched, Unserved
      <4> QED
        BY <1>1, <1>2, <3>3, <3>4, <4>1, <4>3, <4>4, <4>5 DEF ChannelInv
    <3>5. CASE client[i] # "open"
      <4>1. client'[i] = client[i] /\ got'[i] = got[i] /\ Asked(i)' = Kinds(q, i) /\ Orderly(inbox'[i[1]], i)
        BY <1>1, <1>3, <1>6, <3>2, <3>5, Heard DEF Asked
      <4>2. Ordered(i)'
        BY <1>2, <3>1, <4>1 DEF Ordered, Out, Sent, Queued
      <4>3. Begins(i)'
        BY <1>2, <2>1, <2>2, <3>1, <3>2, <4>1 DEF Begins
      <4> QED
        BY <1>1, <1>2, <3>3, <3>5, <4>1, <4>2, <4>3 DEF ChannelInv
    <3> QED
      BY <3>4, <3>5
  <2> QED
    BY <2>3, <2>4
<1> QED
  BY <1>5, <1>6

\* A frame goes on to the agent; an Open makes the route, a Close removes it.
LEMMA PassStep ==
    ASSUME Inv, Sockets, NEW w \in Socket, GwOpens(w) \/ GwForwards(w),
           NEW i \in Channel, Alone(i[1]), ChannelInv(i)
    PROVE  ChannelInv(i)'
<1> USE DEF pageVars, gatewayVars, relayVars, routerVars, taskVars
<1> DEFINE m == Head(inbox[w])
           q == Tail(inbox[w])
<1>1. /\ i[1] \in Socket /\ ChannelInv(i) /\ TypeOK /\ inbox[w] # <<>> /\ toAgent \in Seq(Down)
      /\ inbox' = [inbox EXCEPT ![w] = q] /\ toAgent' = Append(toAgent, m)
  BY MuxAssumption DEF Inv, GwOpens, GwForwards, NextFrame, TypeOK
<1>2. UNCHANGED <<page, client, got, notify, sub, fromAgent, pending,
                 active, handlers, stream, shutdown>>
  BY DEF GwOpens, GwForwards
<1>3. m \in Down /\ m.by \in Channel /\ m.by[1] = w /\ q \in Seq(Down)
  BY <1>1, FrameTaken
<1>4. /\ joined \subseteq joined'
      /\ \A x : x # m.by => (x \in routes' <=> x \in routes)
  BY <1>3 DEF GwOpens, GwForwards
<1>5. SamePage(i) /\ SameDue(i) /\ SameMaps(i) /\ SameTask(i)
  BY <1>2 DEF SamePage, SameDue, SameMaps, SameTask, Kept
<1>6. inbox'[i[1]] = IF i[1] = w THEN q ELSE inbox[i[1]]
  BY <1>1 DEF TypeOK
<1> HIDE DEF m, q
<1>7. CASE i # m.by
  <2>1. SameAsked(i) /\ SameComing(i)
    <3>1. Kept(toAgent, Append(toAgent, m), i)
      BY <1>1, <1>3, <1>7, KeptQueue
    <3>2. i[1] = w => Kept(inbox[w], q, i)
      BY <1>1, <1>7, FrameTaken DEF m, q
    <3> QED
      BY <1>1, <1>6, <3>1, <3>2 DEF SameAsked, SameComing, Kept
  <2>2. SameRoute(i)
    BY <1>2, <1>4, <1>7 DEF SameRoute
  <2> QED
    BY <1>1, <1>4, <1>5, <2>1, <2>2, Frame
<1>8. CASE i = m.by /\ page[i[1]] = "left"
  BY <1>1, <1>2, <1>8 DEF ChannelInv
<1>9. CASE i = m.by /\ page[i[1]] # "left"
  <2>1. /\ Asked(i) = Asked(i)' \cup {m.type}
        /\ Orderly(inbox[w], i) =>
            /\ Orderly(inbox'[w], i)
            /\ "Open" \notin Asked(i)'
            /\ m.type = "Close" => Asked(i)' = {}
    <3>1. /\ Asked(i) = Kinds(q, i) \cup {m.type}
          /\ Orderly(inbox[w], i) =>
              /\ Orderly(q, i)
              /\ "Open" \notin Kinds(q, i)
              /\ m.type = "Close" => Kinds(q, i) = {}
      BY <1>1, <1>3, <1>9, FrameTaken DEF m, q
    <3> QED
      BY <1>3, <1>6, <1>9, <3>1 DEF Asked
  <2>2. /\ Coming(i)' = Coming(i) \cup {m.type}
        /\ Orderly(toAgent, i) /\ "Close" \notin Coming(i) /\ (m.type = "Open" => Coming(i) = {})
            => Orderly(toAgent', i)
    <3>1. m.type # "Ready"
      BY <1>3 DEF Down
    <3> QED
      BY <1>1, <1>3, <1>9, <3>1, Extended DEF Coming
  <2>3. UNCHANGED <<Out(i), Sent(i), Queued(i), Due(i)>> /\ (Unserved(i)' <=> Unserved(i))
    BY <1>2 DEF Out, Sent, Queued, Due, Unserved
  <2>4. Ordered(i) /\ Begins(i) /\ Serves(i) /\ Routed(i)
    BY <1>1, <1>9 DEF ChannelInv
  <2>5. i[1] = w /\ Orderly(inbox'[w], i) /\ "Open" \notin Asked(i)' /\ client[i] # "idle"
    BY <1>3, <1>9, <2>1, <2>4 DEF Ordered, Begins
  <2>6. Serves(i)'
    BY <1>2, <2>3, <2>4 DEF Serves
  <2>7. CASE GwOpens(w)
    <3>1. m.type = "Open" /\ i \in routes' /\ i[1] \in joined'
      BY <1>9, <2>5, <2>7 DEF GwOpens, NextFrame, m
    <3>2. Untouched(i)
      BY <2>1, <2>4, <3>1 DEF Begins
    <3>3. Coming(i)' = {"Open"} /\ Orderly(toAgent', i)
      BY <2>2, <2>4, <3>1, <3>2 DEF Untouched, Ordered
    <3>4. Ordered(i)'
      BY <1>2, <2>3, <2>4, <2>5, <3>3 DEF Ordered
    <3>5. Begins(i)'
      BY <1>2, <2>1, <2>3, <2>4, <2>5, <3>1, <3>2, <3>3 DEF Begins, Untouched
    <3>6. Routed(i)'
      BY <1>2, <3>1, <3>2, <3>3 DEF Routed, Untouched, Unserved
    <3>7. client[i] = "open" => Answers(i)'
      BY <1>1, <1>2, <2>1, <2>3, <2>5, <3>1, <3>3 DEF ChannelInv, Answers, Readied
    <3> QED
      BY <1>1, <1>2, <2>6, <3>4, <3>5, <3>6, <3>7 DEF ChannelInv
  <2>8. CASE GwForwards(w)
    <3>1. /\ m.type \in {"Data", "Close"} /\ i \in routes /\ UNCHANGED joined
          /\ routes' = IF m.type = "Close" THEN routes \ {i} ELSE routes
      BY <1>9, <2>8 DEF GwForwards, NextFrame, m
    <3>2. ~Untouched(i)
      BY <3>1 DEF Untouched
    <3>3. Orderly(toAgent', i)
      BY <2>2, <2>4, <3>1 DEF Ordered, Routed
    <3>4. Ordered(i)'
      BY <1>2, <2>3, <2>4, <2>5, <3>3 DEF Ordered
    <3>5. Begins(i)'
      BY <1>2, <2>1, <2>2, <2>3, <2>4, <2>5, <3>1, <3>2 DEF Begins
    <3>6. Routed(i)'
      BY <1>2, <2>2, <2>3, <2>4, <3>1 DEF Routed
    <3>7. client[i] = "open" => Answers(i)'
      BY <1>1, <1>2, <2>1, <2>2, <2>3, <3>1 DEF ChannelInv, Answers, Readied
    <3> QED
      BY <1>1, <1>2, <2>6, <3>4, <3>5, <3>6, <3>7 DEF ChannelInv
  <2> QED
    BY <2>7, <2>8
<1> QED
  BY <1>7, <1>8, <1>9

\* A frame without a route is dropped.
LEMMA DropStep ==
    ASSUME Inv, Sockets, NEW w \in Socket, GwDrops(w),
           NEW i \in Channel, Alone(i[1]), ChannelInv(i)
    PROVE  ChannelInv(i)'
<1> USE DEF pageVars, gatewayVars, relayVars, routerVars, taskVars
<1> DEFINE m == Head(inbox[w])
           q == Tail(inbox[w])
<1>1. /\ i[1] \in Socket /\ ChannelInv(i) /\ TypeOK /\ inbox[w] # <<>>
      /\ inbox' = [inbox EXCEPT ![w] = q] /\ m.type # "Open"
  BY MuxAssumption DEF Inv, GwDrops, NextFrame
<1>2. UNCHANGED <<page, client, got, routes, joined, notify, sub, toAgent, fromAgent, pending,
                 active, handlers, stream, shutdown>>
  BY DEF GwDrops
<1>3. m \in Down /\ m.by \in Channel /\ m.by[1] = w /\ q \in Seq(Down)
  BY <1>1, FrameTaken
<1>4. inbox'[i[1]] = IF i[1] = w THEN q ELSE inbox[i[1]]
  BY <1>1 DEF TypeOK
<1>5. SamePage(i) /\ SameComing(i) /\ SameDue(i) /\ SameRoute(i) /\ SameMaps(i) /\ SameTask(i)
  BY <1>2 DEF SamePage, SameComing, SameDue, SameRoute, SameMaps, SameTask, Kept
<1> HIDE DEF m, q
<1>6. CASE i # m.by
  <2>1. i[1] = w => Kept(inbox[w], q, i)
    BY <1>1, <1>6, FrameTaken DEF m, q
  <2>2. SameAsked(i)
    BY <1>4, <2>1 DEF SameAsked, Kept
  <2> QED
    BY <1>1, <1>2, <1>5, <2>2, Frame
<1>7. CASE i = m.by
  <2>1. /\ Asked(i) = Kinds(q, i) \cup {m.type}
        /\ Orderly(inbox[w], i) => Orderly(q, i)
    BY <1>1, <1>3, <1>7, FrameTaken DEF m, q
  <2>2. Asked(i) = Asked(i)' \cup {m.type} /\ (Orderly(inbox[i[1]], i) => Orderly(inbox'[i[1]], i))
    BY <1>3, <1>4, <1>7, <2>1 DEF Asked
  <2>3. /\ UNCHANGED <<Coming(i), Out(i), Sent(i), Queued(i), Due(i)>>
        /\ Unserved(i)' <=> Unserved(i)
        /\ Untouched(i)' <=> Untouched(i)
    BY <1>2 DEF Coming, Out, Sent, Queued, Due, Unserved, Untouched
  <2>4. Ordered(i) => Ordered(i)'
    BY <1>2, <2>2, <2>3 DEF Ordered
  <2>5. Begins(i) => Begins(i)'
    BY <1>2, <2>2, <2>3 DEF Begins
  <2>6. (Serves(i) => Serves(i)') /\ (Routed(i) => Routed(i)')
    BY <1>2, <2>3 DEF Serves, Routed
  <2>7. Answers(i) => Answers(i)'
    BY <1>2, <2>2, <2>3 DEF Answers, Readied
  <2> QED
    BY <1>1, <1>2, <2>4, <2>5, <2>6, <2>7 DEF ChannelInv
<1> QED
  BY <1>6, <1>7

\* A Close has reached the page, and the loop forgets the route.
LEMMA RemoveStep ==
    ASSUME Inv, Sockets, NEW w \in Socket, GwRemovesRoute(w),
           NEW i \in Channel, Alone(i[1]), ChannelInv(i)
    PROVE  ChannelInv(i)'
<1> USE DEF pageVars, gatewayVars, relayVars, routerVars, taskVars
<1>1. ChannelInv(i)
  OBVIOUS
<1>2. UNCHANGED <<page, client, got, inbox, joined, sub, toAgent, fromAgent, pending,
                 active, handlers, stream, shutdown>>
  BY DEF GwRemovesRoute
<1>3. PICK j \in notify : routes' = routes \ {j} /\ notify' = notify \ {j}
  BY DEF GwRemovesRoute, Of
<1>4. /\ SamePage(i) /\ SameAsked(i) /\ SameComing(i) /\ SameDue(i) /\ SameMaps(i) /\ SameTask(i)
      /\ UNCHANGED <<Asked(i), Coming(i), Out(i), Sent(i), Queued(i), Due(i)>>
  BY <1>2 DEF SamePage, SameAsked, SameComing, SameDue, SameMaps, SameTask, Kept,
              Asked, Coming, Out, Sent, Queued, Due
<1>5. CASE i # j
  <2>1. SameRoute(i)
    BY <1>3, <1>5 DEF SameRoute
  <2> QED
    BY <1>1, <1>2, <1>4, <2>1, Frame
<1>6. CASE i = j
  <2>1. i \in notify /\ i \notin routes' /\ i \notin notify'
    BY <1>3, <1>6
  <2>2. Ordered(i) => Ordered(i)'
    BY <1>2, <1>4 DEF Ordered
  <2>3. Begins(i) => Begins(i)'
    BY <1>2, <1>4, <2>1 DEF Begins, Untouched, Unserved
  <2>4. Serves(i) => Serves(i)'
    BY <1>2, <1>4, <2>1 DEF Serves
  <2>5. Begins(i) /\ Serves(i) => Routed(i)'
    BY <1>2, <1>4, <2>1 DEF Begins, Unserved, Serves, Routed
  <2>6. Answers(i) => Answers(i)'
    BY <1>2, <1>4 DEF Answers, Readied
  <2> QED
    BY <1>1, <1>2, <2>2, <2>3, <2>4, <2>5, <2>6 DEF ChannelInv
<1> QED
  BY <1>5, <1>6

\* The loop ends with its page.
LEMMA EndStep ==
    ASSUME Inv, Sockets, NEW w \in Socket, GwEnds(w),
           NEW i \in Channel, Alone(i[1]), ChannelInv(i)
    PROVE  ChannelInv(i)'
<1> USE DEF pageVars, gatewayVars, relayVars, routerVars, taskVars
<1>1. i[1] \in Socket /\ ChannelInv(i) /\ TypeOK
  BY MuxAssumption DEF Inv
<1>2. UNCHANGED <<page, client, got, joined, sub, toAgent, fromAgent, pending,
                 active, handlers, stream, shutdown>>
  BY DEF GwEnds
<1>3. CASE i[1] = w
  BY <1>1, <1>2, <1>3 DEF GwEnds, ChannelInv
<1>4. CASE i[1] # w
  <2>1. SameAsked(i) /\ SameRoute(i)
    BY <1>1, <1>4 DEF GwEnds, Of, TypeOK, SameAsked, SameRoute, Kept
  <2>2. SamePage(i) /\ SameComing(i) /\ SameDue(i) /\ SameMaps(i) /\ SameTask(i)
    BY <1>2 DEF SamePage, SameComing, SameDue, SameMaps, SameTask, Kept
  <2> QED
    BY <1>1, <1>2, <2>1, <2>2, Frame
<1> QED
  BY <1>3, <1>4

-----------------------------------------------------------------------------
(* From the agent to the page *)

\* The reader hands an answer to the one page of its session, which has subscribed.
LEMMA ReaderStep ==
    ASSUME Inv, Sockets, ReaderRoutes,
           NEW i \in Channel, Alone(i[1]), ChannelInv(i)
    PROVE  ChannelInv(i)'
<1> USE DEF pageVars, gatewayVars, relayVars, routerVars, taskVars
<1> DEFINE m == Head(fromAgent)
           q == Tail(fromAgent)
           w == subscriber[AgentChan(m.by)[1]]
<1>1. /\ i[1] \in Socket /\ ChannelInv(i) /\ TypeOK /\ fromAgent # <<>> /\ fromAgent \in Seq(Up)
      /\ sub[i[1]] \in Seq(Up) /\ fromAgent' = q
  BY MuxAssumption DEF Inv, ReaderRoutes, TypeOK
<1>2. UNCHANGED <<page, client, got, inbox, routes, joined, notify, toAgent, pending,
                 active, handlers, stream, shutdown>>
  BY DEF ReaderRoutes
<1>3. m \in Up /\ m.by \in Channel /\ m.by[1] \in Socket /\ q \in Seq(Up)
  BY <1>1, FrameTyped, MessageTyped
<1>4. /\ w # NoSocket /\ forwarder[w] = "running" => sub' = [sub EXCEPT ![w] = Append(@, m)]
      /\ ~(w # NoSocket /\ forwarder[w] = "running") => sub' = sub
  BY DEF ReaderRoutes
<1>5. SamePage(i) /\ SameAsked(i) /\ SameComing(i) /\ SameRoute(i) /\ SameMaps(i) /\ SameTask(i)
  BY <1>2 DEF SamePage, SameAsked, SameComing, SameRoute, SameMaps, SameTask, Kept
<1>6. w = subscriber[PrefixOf[m.by[1]]]
  BY DEF AgentChan
<1> HIDE DEF m, q, w
<1>7. sub'[i[1]] = sub[i[1]] \/ sub'[i[1]] = Append(sub[i[1]], m)
  BY <1>1, <1>4 DEF TypeOK
<1>8. CASE i # m.by
  <2>1. Kept(fromAgent, fromAgent', i) /\ Kept(sub[i[1]], sub'[i[1]], i)
    BY <1>1, <1>3, <1>7, <1>8, KeptQueue DEF m, q
  <2>2. SameDue(i)
    BY <1>2, <2>1 DEF SameDue, Kept
  <2> QED
    BY <1>1, <1>2, <1>5, <2>2, Frame
<1>9. CASE i = m.by /\ page[i[1]] = "left"
  BY <1>1, <1>2, <1>9 DEF ChannelInv
<1>10. CASE i = m.by /\ page[i[1]] # "left"
  <2>1. Ordered(i) /\ Begins(i) /\ Serves(i) /\ Routed(i)
    BY <1>1, <1>10 DEF ChannelInv
  <2>2. /\ Sent(i) = Kinds(q, i) \cup {m.type}
        /\ Orderly(q, i) /\ "Ready" \notin Kinds(q, i)
        /\ m.type = "Close" => Kinds(q, i) = {}
    BY <1>1, <1>10, <2>1, Shortened DEF Sent, Ordered, m, q
  <2>3. Sent(i)' = Kinds(q, i)
    BY <1>1 DEF Sent
  <2>4. i[1] \in joined
    BY <2>1, <2>2 DEF Begins, Untouched, Unserved, Due
  <2>5. sub'[i[1]] = Append(sub[i[1]], m)
    <3>1. w = i[1] /\ forwarder[w] = "running"
      BY <1>1, <1>6, <1>10, <2>4 DEF Sockets, SocketInv
    <3>2. w # NoSocket
      BY <1>1, <3>1, MuxAssumption
    <3> QED
      BY <1>1, <1>4, <3>1, <3>2 DEF TypeOK
  <2>6. /\ Queued(i)' = Queued(i) \cup {m.type}
        /\ Orderly(sub[i[1]], i) /\ "Close" \notin Queued(i) /\ (m.type = "Ready" => Queued(i) = {})
           => Orderly(sub'[i[1]], i)
    <3>1. m.type # "Open"
      BY <1>3 DEF Up
    <3> QED
      BY <1>1, <1>3, <1>10, <2>5, <3>1, Extended DEF Queued
  <2>7. UNCHANGED <<Asked(i), Coming(i), Out(i)>>
    BY <1>2 DEF Asked, Coming, Out
  <2>8. UNCHANGED Due(i)
    BY <2>2, <2>3, <2>6, <2>7 DEF Due
  <2>9. Ordered(i)'
    BY <1>1, <1>2, <2>1, <2>2, <2>3, <2>6, <2>7 DEF Ordered
  <2>10. (Unserved(i)' <=> Unserved(i)) /\ (Untouched(i)' <=> Untouched(i))
    BY <1>2, <2>7, <2>8 DEF Unserved, Untouched
  <2>11. Begins(i)' /\ Serves(i)' /\ Routed(i)'
    BY <1>2, <2>1, <2>7, <2>8, <2>10 DEF Begins, Serves, Routed
  <2>12. Answers(i) => Answers(i)'
    BY <1>2, <2>7, <2>8 DEF Answers, Readied
  <2> QED
    BY <1>1, <1>2, <2>9, <2>11, <2>12 DEF ChannelInv
<1> QED
  BY <1>8, <1>9, <1>10

\* The forwarder shows the page the next answer.
LEMMA ForwardStep ==
    ASSUME Inv, Sockets, NEW w \in Socket, ForwarderSends(w),
           NEW i \in Channel, Alone(i[1]), ChannelInv(i)
    PROVE  ChannelInv(i)'
<1> USE DEF pageVars, gatewayVars, relayVars, routerVars, taskVars
<1> DEFINE m == Head(sub[w])
           q == Tail(sub[w])
           j == <<w, m.by[2]>>
<1>1. /\ i[1] \in Socket /\ ChannelInv(i) /\ TypeOK /\ sub[w] # <<>> /\ sub[w] \in Seq(Up)
      /\ sub' = [sub EXCEPT ![w] = q] /\ Hears(j, m.type, inbox[w]) /\ inbox[w] \in Seq(Down)
      /\ notify' = IF m.type = "Close" THEN notify \cup {j} ELSE notify
      /\ page[w] = "open"
  BY MuxAssumption DEF Inv, ForwarderSends, TypeOK
<1>2. UNCHANGED <<page, routes, joined, toAgent, fromAgent, pending,
                 active, handlers, stream, shutdown>>
  BY DEF ForwarderSends
<1>3. m \in Up /\ m.by \in Channel /\ m.by[1] \in Socket /\ q \in Seq(Up)
  BY <1>1, FrameTyped, MessageTyped
<1>4. j[1] = w /\ (i[1] = w => m.by = j)
  <2>1. m = sub[w][1] /\ 1 \in 1..Len(sub[w])
    BY <1>1, HeadTailProperties, LenProperties, EmptySeq
  <2>2. PrefixOf[m.by[1]] = PrefixOf[w]
    BY <2>1 DEF Inv, SessionsApart
  <2>3. i[1] = w => m.by[1] = w
    BY <1>3, <2>2 DEF Alone
  <2> QED
    BY <1>3, <2>3, MuxAssumption
<1>5. sub'[i[1]] = IF i[1] = w THEN q ELSE sub[i[1]]
  BY <1>1 DEF TypeOK
<1>6. SameComing(i) /\ SameMaps(i) /\ SameTask(i)
  BY <1>2 DEF SameComing, SameMaps, SameTask, Kept
<1> HIDE DEF m, q, j
<1>7. CASE i # j
  <2>1. /\ client'[i] = client[i] /\ got'[i] = got[i]
        /\ i[1] # w => inbox'[i[1]] = inbox[i[1]]
        /\ i[1] = w => Kept(inbox[w], inbox'[i[1]], i)
    BY <1>1, <1>4, <1>7, Heard
  <2>2. SamePage(i) /\ SameAsked(i)
    BY <1>2, <2>1 DEF SamePage, SameAsked, Kept
  <2>3. i[1] = w => Kept(sub[w], q, i)
    BY <1>1, <1>4, <1>7, KeptQueue DEF m, q
  <2>4. SameDue(i)
    BY <1>2, <1>5, <2>3 DEF SameDue, Kept
  <2>5. SameRoute(i)
    BY <1>1, <1>2, <1>7 DEF SameRoute
  <2> QED
    BY <1>1, <1>2, <1>6, <2>2, <2>4, <2>5, Frame
<1>8. CASE i = j
  <2>1. Ordered(i) /\ Begins(i) /\ Serves(i) /\ Routed(i) /\ page[i[1]] = "open"
    BY <1>1, <1>4, <1>8 DEF ChannelInv
  <2>2. /\ Queued(i) = Queued(i)' \cup {m.type}
        /\ Orderly(sub'[i[1]], i) /\ "Ready" \notin Queued(i)'
        /\ m.type = "Close" => Queued(i)' = {}
    <3>1. /\ Kinds(sub[w], i) = Kinds(q, i) \cup {m.type}
          /\ Orderly(sub[w], i) =>
                /\ Orderly(q, i)
                /\ "Ready" \notin Kinds(q, i)
                /\ m.type = "Close" => Kinds(q, i) = {}
      BY <1>1, <1>4, <1>8, Shortened DEF m, q
    <3> QED
      BY <1>4, <1>5, <1>8, <2>1, <3>1 DEF Queued, Ordered
  <2>3. UNCHANGED <<Coming(i), Out(i), Sent(i)>>
    BY <1>2 DEF Coming, Out, Sent
  <2>4. ~Unserved(i) /\ ~Untouched(i)
    BY <2>2 DEF Untouched, Unserved, Due
  <2>5. "Open" \notin Asked(i) /\ "Open" \notin Coming(i) /\ client[i] # "idle" /\ i[1] \in joined
    BY <2>1, <2>4 DEF Begins
  <2>6. i \in notify' <=> (i \in notify \/ m.type = "Close")
    BY <1>1, <1>8
  <2>7. /\ m.type \in {"Ready", "Data", "Close"}
        /\ Due(i) = Due(i)' \cup {m.type}
        /\ m.type = "Close" => Due(i)' = {}
        /\ m.type = "Ready" => "Ready" \notin Due(i)'
    BY <1>3, <2>1, <2>2, <2>3 DEF Due, Ordered, Up
  <2>8. Serves(i)'
    BY <1>2, <2>1, <2>3, <2>6, <2>7 DEF Serves
  <2>9. Routed(i)'
    BY <1>2, <2>1, <2>3, <2>6, <2>7 DEF Routed
  <2>10. CASE client[i] # "open"
    <3>1. client'[i] = client[i] /\ got'[i] = got[i] /\ inbox'[i[1]] = inbox[i[1]]
      BY <1>1, <1>4, <1>8, <2>10, Heard
    <3>2. Ordered(i)'
      BY <1>2, <2>1, <2>2, <2>3, <3>1 DEF Ordered
    <3>3. Begins(i)'
      BY <1>2, <2>1, <2>3, <2>5, <3>1 DEF Begins, Asked
    <3> QED
      BY <1>1, <1>2, <2>1, <2>8, <2>9, <2>10, <3>1, <3>2, <3>3 DEF ChannelInv
  <2>11. CASE client[i] = "open"
    <3> DEFINE closes == m.type = "Close" /\ Payload[i] = "oneshot"
    <3>1. /\ got'[i] = IF m.type = "Close" THEN "closed" ELSE "ready"
          /\ client'[i] = IF closes THEN "closed" ELSE "open"
          /\ Asked(i)' = Asked(i) \cup (IF closes THEN {"Close"} ELSE {})
          /\ Orderly(inbox[w], i) /\ "Close" \notin Asked(i) => Orderly(inbox'[i[1]], i)
      <4>1. /\ got'[i] = IF m.type = "Close" THEN "closed" ELSE "ready"
            /\ client'[i] = IF closes THEN "closed" ELSE "open"
            /\ Asked(i)' = Kinds(inbox[w], i) \cup (IF closes THEN {"Close"} ELSE {})
            /\ Orderly(inbox[w], i) /\ "Close" \notin Kinds(inbox[w], i) => Orderly(inbox'[i[1]], i)
        BY <1>1, <1>4, <1>8, <2>11, Heard
      <4>2. Asked(i) = Kinds(inbox[w], i)
        BY <1>4, <1>8 DEF Asked
      <4> QED
        BY <4>1, <4>2
    <3>2. "Close" \notin Asked(i)
      BY <2>1, <2>11 DEF Begins
    <3>3. Ordered(i)'
      BY <1>2, <1>4, <1>8, <2>1, <2>2, <2>3, <3>1, <3>2 DEF Ordered
    <3>4. Begins(i)'
      BY <1>2, <2>3, <2>5, <3>1, <3>2 DEF Begins
    <3>5. Answers(i)
      BY <1>1, <2>11 DEF ChannelInv
    <3>6. CASE m.type = "Close"
      <4>1. AgentChan(i) \notin handlers /\ (i \in Streaming => stream[i] = "ended")
        BY <2>1, <2>7, <3>6 DEF Serves
      <4>2. Answers(i)'
        BY <1>2, <2>3, <2>5, <2>7, <3>1, <3>6, <4>1 DEF Answers
      <4> QED
        BY <1>1, <1>2, <2>1, <2>8, <2>9, <3>1, <3>3, <3>4, <4>2 DEF ChannelInv
    <3>7. CASE m.type # "Close"
      <4>1. "Ready" \notin Due(i)'
        <5>1. CASE m.type = "Ready"
          BY <2>7, <5>1
        <5>2. CASE m.type = "Data"
          BY <2>1, <2>2, <2>3 DEF Due, Ordered
        <5> QED
          BY <2>7, <3>7, <5>1, <5>2
      <4>2. i \in Streaming => stream[i] # "starting"
        BY <2>1, <2>7 DEF Serves
      <4>3. Answers(i)'
        BY <1>2, <2>3, <2>5, <3>1, <3>7, <4>1, <4>2 DEF Answers, Readied
      <4> QED
        BY <1>1, <1>2, <2>1, <2>8, <2>9, <3>1, <3>3, <3>4, <4>3 DEF ChannelInv
    <3> QED
      BY <3>6, <3>7
  <2> QED
    BY <2>10, <2>11
<1> QED
  BY <1>7, <1>8

\* A forwarder ends only after its page, or when it is not subscribed.
LEMMA ForwardEndStep ==
    ASSUME Inv, Sockets, NEW w \in Socket, ForwarderEnds(w),
           NEW i \in Channel, Alone(i[1]), ChannelInv(i)
    PROVE  ChannelInv(i)'
<1> USE DEF pageVars, gatewayVars, relayVars, routerVars, taskVars
<1>1. i[1] \in Socket /\ ChannelInv(i) /\ TypeOK
  BY MuxAssumption DEF Inv
<1>2. UNCHANGED <<page, client, got, inbox, routes, joined, notify, toAgent, fromAgent, pending,
                 active, handlers, stream, shutdown>>
  BY DEF ForwarderEnds
<1>3. CASE i[1] = w
  <2>1. page[w] = "left"
    BY <1>3 DEF ForwarderEnds, Sockets, SocketInv
  <2> QED
    BY <1>1, <1>2, <1>3, <2>1 DEF ChannelInv
<1>4. CASE i[1] # w
  <2>1. SameDue(i)
    BY <1>1, <1>2, <1>4 DEF ForwarderEnds, TypeOK, SameDue, Kept
  <2>2. SamePage(i) /\ SameAsked(i) /\ SameComing(i) /\ SameRoute(i) /\ SameMaps(i) /\ SameTask(i)
    BY <1>2 DEF SamePage, SameAsked, SameComing, SameRoute, SameMaps, SameTask, Kept
  <2> QED
    BY <1>1, <1>2, <2>1, <2>2, Frame
<1> QED
  BY <1>3, <1>4

-----------------------------------------------------------------------------
(* The agent's router *)

\* The router takes a frame: nothing of the call before is left to send.
LEMMA Taken ==
    ASSUME Inv, NEW t, RouterTakes(t), NEW i \in Channel, Alone(i[1])
    PROVE  LET j == Head(toAgent).by IN
           /\ j \in Channel /\ j[1] \in Socket
           /\ i # j => SameComing(i) /\ AgentChan(i) # AgentChan(j)
           /\ i = j => /\ Coming(i) = Coming(i)' \cup {t}
                       /\ Orderly(toAgent, i) => /\ Orderly(toAgent', i)
                                                 /\ "Open" \notin Coming(i)'
                                                 /\ t = "Close" => Coming(i)' = {}
           /\ Out(i) = {} /\ pending = <<>>
<1>1. toAgent \in Seq(Down) /\ toAgent # <<>> /\ toAgent' = Tail(toAgent) /\ Head(toAgent).type = t
      /\ pending = <<>>
  BY DEF Inv, TypeOK, RouterTakes
<1>2. Head(toAgent) \in Down
  BY <1>1, FrameTyped
<1>3. Head(toAgent).by \in Channel /\ Head(toAgent).by[1] \in Socket
  BY <1>2, MessageTyped
<1>4. Out(i) = {}
  BY <1>1, Made DEF Out
<1> QED
  BY <1>1, <1>3, <1>4, KeptQueue, Shortened, Names DEF SameComing, Coming

\* The sender held for another channel's name is not the one of a channel of a page alone.
LEMMA HeldName ==
    ASSUME Sockets, NEW i \in Channel, NEW j \in Channel, Alone(i[1]),
           AgentChan(i) # AgentChan(j), active[AgentChan(j)] # NoSocket
    PROVE  <<active[AgentChan(j)], j[2]>> # i
  BY DEF Sockets, AgentChans, AgentChan

\* A streaming task is spawned for its channel, whose shutdown sender nobody held.
LEMMA OpenStreamStep ==
    ASSUME Inv, Sockets, RouterOpensStream,
           NEW i \in Channel, Alone(i[1]), ChannelInv(i)
    PROVE  ChannelInv(i)'
<1> USE DEF pageVars, gatewayVars, relayVars, routerVars, taskVars
<1> DEFINE j == Head(toAgent).by
           k == AgentChan(j)
<1>1. /\ ChannelInv(i) /\ TypeOK /\ RouterTakes("Open") /\ j \in Channel /\ j[1] \in Socket
      /\ j \in Streaming /\ k \in AgentChans /\ active' = [active EXCEPT ![k] = j[1]]
      /\ shutdown' = IF active[k] = NoSocket THEN shutdown
                     ELSE [shutdown EXCEPT ![<<active[k], j[2]>>] = "dropped"]
      /\ stream' = [stream EXCEPT ![j] = "starting"]
      /\ j[1] # NoSocket /\ Out(i) = {}
  BY Taken, MuxAssumption DEF Inv, RouterOpensStream, AgentChans
<1>2. UNCHANGED <<page, client, got, inbox, routes, joined, notify, sub, fromAgent, pending, handlers>>
  BY DEF RouterOpensStream
<1>3. SamePage(i) /\ SameAsked(i) /\ SameDue(i) /\ SameRoute(i)
  BY <1>2 DEF SamePage, SameAsked, SameDue, SameRoute, Kept
<1>4. /\ i # j => SameComing(i) /\ AgentChan(i) # k
      /\ i = j => /\ Coming(i) = Coming(i)' \cup {"Open"}
                  /\ Orderly(toAgent, i) => Orderly(toAgent', i) /\ "Open" \notin Coming(i)'
  BY <1>1, Taken
<1>5. i # j /\ i \in Streaming => shutdown'[i] = shutdown[i]
  <2>1. i # j /\ active[k] # NoSocket => <<active[k], j[2]>> # i
    BY <1>1, <1>4, HeldName
  <2> QED
    BY <1>1, <2>1 DEF TypeOK
<1> HIDE DEF j, k
<1>6. CASE i # j
  <2>1. SameMaps(i) /\ SameTask(i)
    BY <1>1, <1>2, <1>4, <1>5, <1>6 DEF SameMaps, SameTask, TypeOK
  <2> QED
    BY <1>1, <1>2, <1>3, <1>4, <1>6, <2>1, Frame
<1>7. CASE i = j
  <2>1. active'[AgentChan(i)] = i[1] /\ stream'[i] = "starting"
    BY <1>1, <1>7 DEF TypeOK, k
  <2>2. CASE page[i[1]] = "left"
    BY <1>1, <1>2, <2>1, <2>2 DEF ChannelInv
  <2>3. CASE page[i[1]] # "left"
    <3>1. Ordered(i) /\ Begins(i) /\ Serves(i) /\ Routed(i)
      BY <1>1, <2>3 DEF ChannelInv
    <3>2. Unserved(i) /\ ~Untouched(i)
      BY <1>4, <1>7, <3>1 DEF Begins, Untouched
    <3>3. Orderly(toAgent', i) /\ "Open" \notin Coming(i)'
      BY <1>4, <1>7, <3>1 DEF Ordered
    <3>4. shutdown' = shutdown
      BY <1>1, <1>7, <3>2 DEF Unserved, k
    <3>5. UNCHANGED <<Asked(i), Out(i), Sent(i), Queued(i), Due(i)>>
      BY <1>2 DEF Asked, Out, Sent, Queued, Due
    <3>6. Ordered(i)'
      BY <1>2, <3>1, <3>3, <3>5 DEF Ordered
    <3>7. Begins(i)'
      BY <1>2, <3>1, <3>2, <3>3, <3>5 DEF Begins
    <3>8. Serves(i)'
      BY <1>1, <1>2, <1>7, <2>1, <3>1, <3>2, <3>4, <3>5 DEF Serves, Unserved
    <3>9. Routed(i)'
      BY <1>1, <1>2, <1>4, <1>7, <2>1, <3>1, <3>2, <3>3, <3>4, <3>5 DEF Routed, Unserved
    <3>10. client[i] = "open" => Answers(i)'
      BY <1>1, <1>2, <1>4, <1>7, <2>1, <3>2, <3>3, <3>5 DEF ChannelInv, Answers, Unserved, Readied
    <3> QED
      BY <1>1, <1>2, <2>1, <3>6, <3>7, <3>8, <3>9, <3>10 DEF ChannelInv
  <2> QED
    BY <2>2, <2>3
<1> QED
  BY <1>6, <1>7

\* An Open that is answered: at once, or by a handler that stays.
LEMMA OpenAnsweredStep ==
    ASSUME Inv, Sockets, RouterAnswers \/ RouterOpensInteractive,
           NEW i \in Channel, Alone(i[1]), ChannelInv(i)
    PROVE  ChannelInv(i)'
<1> USE DEF pageVars, gatewayVars, relayVars, routerVars, taskVars
<1> DEFINE j == Head(toAgent).by
           k == AgentChan(j)
<1>1. /\ ChannelInv(i) /\ TypeOK /\ RouterTakes("Open") /\ j \in Channel
      /\ pending = <<>> /\ Out(i) = {}
  BY Taken DEF Inv, RouterAnswers, RouterOpensInteractive
<1>2. /\ UNCHANGED <<page, client, got, inbox, routes, joined, notify, sub, fromAgent, active, stream,
                     shutdown>>
      /\ \/ Payload[j] = "oneshot" /\ handlers' = handlers \ {k}
            /\ pending' \in {<<Msg("Ready", j), Msg("Data", j), Msg("Close", j)>>, <<Msg("Close", j)>>}
         \/ Payload[j] = "interactive" /\ handlers' = handlers \cup {k} /\ pending' = <<Msg("Ready", j)>>
  BY DEF RouterAnswers, RouterOpensInteractive
<1>3. /\ i # j => SameComing(i) /\ AgentChan(i) # k
      /\ i = j => /\ Coming(i) = Coming(i)' \cup {"Open"}
                  /\ Orderly(toAgent, i) => Orderly(toAgent', i) /\ "Open" \notin Coming(i)'
  BY <1>1, Taken
<1> HIDE DEF j, k
<1>4. /\ Orderly(pending', i)
      /\ i # j => Out(i)' = {}
      /\ i = j => \/ /\ Payload[i] = "oneshot" /\ AgentChan(i) \notin handlers'
                     /\ Out(i)' \in {{"Ready", "Data", "Close"}, {"Close"}}
                  \/ /\ Payload[i] = "interactive" /\ AgentChan(i) \in handlers'
                     /\ Out(i)' = {"Ready"}
  <2>1. ASSUME NEW t
        PROVE  /\ Orderly(<<Msg(t, j)>>, i)
               /\ Kinds(<<Msg(t, j)>>, i) = IF j = i THEN {t} ELSE {}
    BY Made
  <2>2. LET q == <<Msg("Ready", j), Msg("Data", j), Msg("Close", j)>>
        IN /\ Orderly(q, i)
           /\ Kinds(q, i) = IF j = i THEN {"Ready", "Data", "Close"} ELSE {}
    BY Made
  <2>3. AgentChan(j) = k
    BY DEF k
  <2> QED
    BY <1>2, <2>1, <2>2, <2>3 DEF Out
<1>5. CASE i # j
  <2>1. SameDue(i)
    BY <1>1, <1>2, <1>4, <1>5 DEF SameDue, Kept, Out
  <2>2. SamePage(i) /\ SameAsked(i) /\ SameRoute(i) /\ SameMaps(i) /\ SameTask(i)
    BY <1>2, <1>3, <1>5 DEF SamePage, SameAsked, SameRoute, SameMaps, SameTask, Kept
  <2> QED
    BY <1>1, <1>2, <1>3, <1>5, <2>1, <2>2, Frame
<1>6. CASE i = j /\ page[i[1]] = "left"
  BY <1>1, <1>2, <1>6 DEF ChannelInv
<1>7. CASE i = j /\ page[i[1]] # "left"
  <2>1. Ordered(i) /\ Begins(i) /\ Serves(i) /\ Routed(i)
    BY <1>1, <1>7 DEF ChannelInv
  <2>2. Unserved(i) /\ ~Untouched(i)
    BY <1>3, <1>7, <2>1 DEF Begins, Untouched
  <2>3. Orderly(toAgent', i) /\ "Open" \notin Coming(i)'
    BY <1>3, <1>7, <2>1 DEF Ordered
  <2>4. UNCHANGED <<Asked(i), Sent(i), Queued(i)>> /\ Due(i)' = Out(i)' /\ Sent(i) = {} /\ Queued(i) = {}
    BY <1>2, <2>2 DEF Asked, Sent, Queued, Due, Unserved
  <2>5. i \notin Streaming
    BY <1>2, <1>7 DEF Streaming
  <2>6. Ordered(i)'
    BY <1>2, <1>4, <2>1, <2>3, <2>4 DEF Ordered
  <2>7. Begins(i)'
    BY <1>2, <2>1, <2>2, <2>3, <2>4 DEF Begins
  <2>8. Serves(i)'
    BY <1>2, <1>4, <1>7, <2>1, <2>2, <2>4, <2>5 DEF Serves, Unserved
  <2>9. Routed(i)'
    BY <1>2, <1>3, <1>4, <1>7, <2>1, <2>3, <2>4, <2>5 DEF Routed
  <2>10. client[i] = "open" => Answers(i)'
    <3>1. client[i] = "open" => got[i] = "nothing"
      BY <1>1, <1>3, <1>7 DEF ChannelInv, Answers
    <3> QED
      BY <1>2, <1>4, <1>7, <2>4, <2>5, <3>1 DEF Answers, Readied
  <2> QED
    BY <1>1, <1>2, <2>6, <2>7, <2>8, <2>9, <2>10 DEF ChannelInv
<1> QED
  BY <1>5, <1>6, <1>7

\* Data for a channel whose handler is tracked is answered; other Data is not.
LEMMA DataStep ==
    ASSUME Inv, Sockets, RouterData,
           NEW i \in Channel, Alone(i[1]), ChannelInv(i)
    PROVE  ChannelInv(i)'
<1> USE DEF pageVars, gatewayVars, relayVars, routerVars, taskVars
<1> DEFINE j == Head(toAgent).by
           k == AgentChan(j)
           answered == active[k] = NoSocket /\ k \in handlers
<1>1. /\ ChannelInv(i) /\ TypeOK /\ RouterTakes("Data") /\ j \in Channel
      /\ pending = <<>> /\ Out(i) = {}
  BY Taken DEF Inv, RouterData
<1>2. /\ UNCHANGED <<page, client, got, inbox, routes, joined, notify, sub, fromAgent, active, handlers,
                     stream, shutdown>>
      /\ pending' = IF answered THEN <<Msg("Data", j)>> ELSE <<>>
  BY DEF RouterData
<1>3. /\ i # j => SameComing(i)
      /\ i = j => /\ Coming(i) = Coming(i)' \cup {"Data"}
                  /\ Orderly(toAgent, i) => Orderly(toAgent', i) /\ "Open" \notin Coming(i)'
  BY <1>1, Taken
<1>4. /\ Orderly(pending', i)
      /\ Out(i)' = IF i = j /\ answered THEN {"Data"} ELSE {}
  BY <1>2, Made DEF Out
<1> HIDE DEF j, k, answered
<1>5. CASE i # j
  <2>1. SameDue(i)
    BY <1>1, <1>2, <1>4, <1>5 DEF SameDue, Kept, Out
  <2>2. SamePage(i) /\ SameAsked(i) /\ SameRoute(i) /\ SameMaps(i) /\ SameTask(i)
    BY <1>2 DEF SamePage, SameAsked, SameRoute, SameMaps, SameTask, Kept
  <2> QED
    BY <1>1, <1>2, <1>3, <1>5, <2>1, <2>2, Frame
<1>6. CASE i = j /\ page[i[1]] = "left"
  BY <1>1, <1>2, <1>6 DEF ChannelInv
<1>7. CASE i = j /\ page[i[1]] # "left"
  <2>1. Ordered(i) /\ Begins(i) /\ Serves(i) /\ Routed(i)
    BY <1>1, <1>7 DEF ChannelInv
  <2>2. ~Untouched(i)
    BY <1>3, <1>7 DEF Untouched
  <2>3. Orderly(toAgent', i) /\ "Open" \notin Coming(i)'
    BY <1>3, <1>7, <2>1 DEF Ordered
  <2>4. answered => AgentChan(i) \in handlers
    BY <1>7 DEF answered, k
  <2>5. /\ UNCHANGED <<Asked(i), Sent(i), Queued(i)>>
        /\ Due(i)' = Due(i) \cup Out(i)'
    BY <1>1, <1>2 DEF Asked, Sent, Queued, Due
  <2>6. AgentChan(i) \in handlers => "Close" \notin Due(i) /\ i \notin notify /\ i \notin Streaming
    BY <2>1 DEF Serves, Streaming
  <2>7. Ordered(i)'
    BY <1>2, <1>4, <1>7, <2>1, <2>3, <2>4, <2>5, <2>6 DEF Ordered, Due
  <2>8. Begins(i)'
    BY <1>2, <2>1, <2>2, <2>3, <2>5 DEF Begins
  <2>9. Serves(i)'
    BY <1>2, <1>4, <1>7, <2>1, <2>4, <2>5, <2>6 DEF Serves
  <2>10. Routed(i)'
    BY <1>2, <1>3, <1>7, <2>1, <2>3, <2>5 DEF Routed, Begins, Unserved
  <2>11. client[i] = "open" => Answers(i)'
    BY <1>1, <1>2, <1>3, <1>4, <1>7, <2>3, <2>4, <2>5, <2>6 DEF ChannelInv, Answers, Readied
  <2> QED
    BY <1>1, <1>2, <2>7, <2>8, <2>9, <2>10, <2>11 DEF ChannelInv
<1> QED
  BY <1>5, <1>6, <1>7

\* A Close ends what serves the channel, whichever it is.
LEMMA CloseStep ==
    ASSUME Inv, Sockets, RouterCloses,
           NEW i \in Channel, Alone(i[1]), ChannelInv(i)
    PROVE  ChannelInv(i)'
<1> USE DEF pageVars, gatewayVars, relayVars, routerVars, taskVars
<1> DEFINE j == Head(toAgent).by
           k == AgentChan(j)
<1>1. /\ ChannelInv(i) /\ TypeOK /\ RouterTakes("Close") /\ j \in Channel
      /\ k \in AgentChans /\ active' = [active EXCEPT ![k] = NoSocket]
      /\ shutdown' = IF active[k] = NoSocket THEN shutdown
                     ELSE [shutdown EXCEPT ![<<active[k], j[2]>>] = "signalled"]
      /\ handlers' = handlers \ {k} /\ Out(i) = {}
  BY Taken DEF Inv, RouterCloses, AgentChans
<1>2. UNCHANGED <<page, client, got, inbox, routes, joined, notify, sub, fromAgent, pending, stream>>
  BY DEF RouterCloses
<1>3. SamePage(i) /\ SameAsked(i) /\ SameDue(i) /\ SameRoute(i)
  BY <1>2 DEF SamePage, SameAsked, SameDue, SameRoute, Kept
<1>4. /\ i # j => SameComing(i) /\ AgentChan(i) # k
      /\ i = j => /\ Coming(i) = Coming(i)' \cup {"Close"}
                  /\ Orderly(toAgent, i) => Orderly(toAgent', i) /\ Coming(i)' = {}
  BY <1>1, Taken
<1>5. i # j /\ i \in Streaming => shutdown'[i] = shutdown[i]
  <2>1. i # j /\ active[k] # NoSocket => <<active[k], j[2]>> # i
    BY <1>1, <1>4, HeldName
  <2> QED
    BY <1>1, <2>1 DEF TypeOK
<1> HIDE DEF j, k
<1>6. CASE i # j
  <2>1. SameMaps(i) /\ SameTask(i)
    <3>1. active'[AgentChan(i)] = active[AgentChan(i)]
      BY <1>1, <1>4, <1>6 DEF TypeOK
    <3>2. SameMaps(i)
      BY <1>1, <1>4, <1>6, <3>1 DEF SameMaps
    <3> QED
      BY <1>2, <1>5, <1>6, <3>2 DEF SameTask
  <2> QED
    BY <1>1, <1>2, <1>3, <1>4, <1>6, <2>1, Frame
<1>7. CASE i = j
  <2>1. /\ active'[AgentChan(i)] = NoSocket /\ AgentChan(i) \notin handlers'
        /\ i \in Streaming =>
            shutdown'[i] = IF active[AgentChan(i)] = NoSocket THEN shutdown[i] ELSE "signalled"
    <3>1. active[k] = NoSocket \/ <<active[k], j[2]>> = j
      BY <1>1, <1>7, Names DEF ChannelInv, k
    <3> QED
      BY <1>1, <1>7, <3>1 DEF TypeOK, k
  <2>2. CASE page[i[1]] = "left"
    BY <1>1, <1>2, <2>1, <2>2 DEF ChannelInv
  <2>3. CASE page[i[1]] # "left"
    <3>1. Ordered(i) /\ Begins(i) /\ Serves(i) /\ Routed(i)
      BY <1>1, <2>3 DEF ChannelInv
    <3>2. ~Untouched(i)
      BY <1>4, <1>7 DEF Untouched
    <3>3. Orderly(toAgent', i) /\ Coming(i)' = {} /\ i \notin routes
      BY <1>4, <1>7, <3>1 DEF Ordered, Routed
    <3>4. UNCHANGED <<Asked(i), Out(i), Sent(i), Queued(i), Due(i)>>
      BY <1>2 DEF Asked, Out, Sent, Queued, Due
    <3>5. Ordered(i)'
      BY <1>2, <3>1, <3>3, <3>4 DEF Ordered
    <3>6. Begins(i)'
      BY <1>2, <3>1, <3>2, <3>3, <3>4 DEF Begins
    <3>7. active[AgentChan(i)] \in {NoSocket, i[1]}
      BY <1>1 DEF ChannelInv
    <3>8. i \in Streaming /\ stream[i] # "none" => shutdown'[i] = "signalled"
      <4>1. ASSUME i \in Streaming, stream[i] # "none", active[AgentChan(i)] = NoSocket
            PROVE  shutdown[i] = "signalled"
        <5>1. i[1] # NoSocket
          BY <1>1, MuxAssumption
        <5> QED
          BY <3>1, <4>1, <5>1 DEF Serves
      <4> QED
        BY <2>1, <4>1
    <3>9. Serves(i)'
      BY <1>2, <2>1, <3>1, <3>4, <3>8 DEF Serves
    <3>10. Routed(i)'
      BY <1>2, <2>1, <3>3, <3>8 DEF Routed
    <3>11. Answers(i) => Answers(i)'
      BY <1>2, <1>4, <1>7, <2>1, <3>3, <3>4 DEF Answers, Readied
    <3> QED
      BY <1>1, <1>2, <2>1, <3>5, <3>6, <3>9, <3>10, <3>11 DEF ChannelInv
  <2> QED
    BY <2>2, <2>3
<1> QED
  BY <1>6, <1>7

\* The router queues the next response of its call.
LEMMA ResponseStep ==
    ASSUME Inv, Sockets, RouterSends,
           NEW i \in Channel, Alone(i[1]), ChannelInv(i)
    PROVE  ChannelInv(i)'
<1> USE DEF pageVars, gatewayVars, relayVars, routerVars, taskVars
<1> DEFINE m == Head(pending)
           q == Tail(pending)
<1>1. /\ ChannelInv(i) /\ TypeOK /\ pending # <<>> /\ pending \in Seq(Up) /\ fromAgent \in Seq(Up)
      /\ pending' = q /\ fromAgent' = Append(fromAgent, m)
  BY DEF Inv, RouterSends, Queues, TypeOK
<1>2. UNCHANGED <<page, client, got, inbox, routes, joined, notify, sub, toAgent,
                 active, handlers, stream, shutdown>>
  BY DEF RouterSends
<1>3. m \in Up /\ m.by \in Channel /\ q \in Seq(Up) /\ m.type # "Open"
  <2>1. m \in Up /\ q \in Seq(Up)
    BY <1>1, FrameTyped
  <2> QED
    BY <2>1, MessageTyped DEF Up
<1>4. SamePage(i) /\ SameAsked(i) /\ SameComing(i) /\ SameRoute(i) /\ SameMaps(i) /\ SameTask(i)
  BY <1>2 DEF SamePage, SameAsked, SameComing, SameRoute, SameMaps, SameTask, Kept
<1> HIDE DEF m, q
<1>5. CASE i # m.by
  <2>1. Kept(pending, pending', i) /\ Kept(fromAgent, fromAgent', i)
    BY <1>1, <1>3, <1>5, KeptQueue DEF m, q
  <2>2. SameDue(i)
    BY <1>2, <2>1 DEF SameDue, Kept
  <2> QED
    BY <1>1, <1>2, <1>4, <2>2, Frame
<1>6. CASE i = m.by /\ page[i[1]] = "left"
  BY <1>1, <1>2, <1>6 DEF ChannelInv
<1>7. CASE i = m.by /\ page[i[1]] # "left"
  <2>1. Ordered(i) /\ Begins(i) /\ Serves(i) /\ Routed(i)
    BY <1>1, <1>7 DEF ChannelInv
  <2>2. /\ Out(i) = Out(i)' \cup {m.type}
        /\ Orderly(pending', i) /\ "Ready" \notin Out(i)'
        /\ m.type = "Close" => Out(i)' = {}
    BY <1>1, <1>7, <2>1, Shortened DEF Out, Ordered, m, q
  <2>3. /\ Sent(i)' = Sent(i) \cup {m.type}
        /\ Orderly(fromAgent, i) /\ "Close" \notin Sent(i) /\ (m.type = "Ready" => Sent(i) = {})
           => Orderly(fromAgent', i)
    BY <1>1, <1>3, <1>7, Extended DEF Sent
  <2>4. UNCHANGED <<Asked(i), Coming(i), Queued(i)>>
    BY <1>2 DEF Asked, Coming, Queued
  <2>5. UNCHANGED Due(i)
    BY <2>2, <2>3, <2>4 DEF Due
  <2>6. Ordered(i)'
    BY <1>2, <2>1, <2>2, <2>3, <2>4 DEF Ordered
  <2>7. (Unserved(i)' <=> Unserved(i)) /\ (Untouched(i)' <=> Untouched(i))
    BY <1>2, <2>4, <2>5 DEF Unserved, Untouched
  <2>8. Begins(i)' /\ Routed(i)'
    BY <1>2, <2>1, <2>4, <2>5, <2>7 DEF Begins, Routed
  <2>9. Serves(i)'
    BY <1>2, <2>1, <2>2, <2>5 DEF Serves
  <2>10. Answers(i) => Answers(i)'
    BY <1>2, <2>4, <2>5 DEF Answers, Readied
  <2> QED
    BY <1>1, <1>2, <2>6, <2>8, <2>9, <2>10 DEF ChannelInv
<1> QED
  BY <1>5, <1>6, <1>7

-----------------------------------------------------------------------------
(* The streaming tasks *)

\* A task sends: Ready once, first; Close once, last.
LEMMA StreamSendStep ==
    ASSUME Inv, Sockets, NEW j \in Streaming,
           StreamReady(j) \/ StreamData(j) \/ ScanReports(j) \/ StreamCloses(j),
           NEW i \in Channel, Alone(i[1]), ChannelInv(i)
    PROVE  ChannelInv(i)'
<1> USE DEF pageVars, gatewayVars, relayVars, routerVars, taskVars, OtherVars
<1>1. j \in Channel /\ ChannelInv(i) /\ TypeOK /\ fromAgent \in Seq(Up)
  BY DEF Inv, Streaming, TypeOK
<1>2. UNCHANGED <<page, client, got, inbox, routes, joined, notify, sub, toAgent, pending,
                 active, handlers, shutdown>>
  BY DEF StreamReady, StreamData, ScanReports, StreamCloses
<1>3. PICK t \in {"Ready", "Data", "Close"} :
          /\ fromAgent' = Append(fromAgent, Msg(t, j))
          /\ \/ t = "Ready" /\ stream[j] = "starting" /\ stream' = [stream EXCEPT ![j] = "running"]
             \/ t = "Data" /\ stream[j] = "running" /\ stream' = stream
             \/ t = "Data" /\ stream[j] = "reporting" /\ stream' = [stream EXCEPT ![j] = "closing"]
             \/ t = "Close" /\ stream[j] = "closing" /\ stream' = [stream EXCEPT ![j] = "ended"]
  BY DEF StreamReady, StreamData, ScanReports, StreamCloses, Queues, Becomes
<1>4. Msg(t, j) \in Up /\ Msg(t, j).by = j /\ Msg(t, j).type = t
  BY <1>1, MessageTyped DEF Msg
<1>5. SamePage(i) /\ SameAsked(i) /\ SameComing(i) /\ SameRoute(i) /\ SameMaps(i)
  BY <1>2 DEF SamePage, SameAsked, SameComing, SameRoute, SameMaps, Kept
<1>6. CASE i # j
  <2>1. Kept(fromAgent, fromAgent', i)
    BY <1>1, <1>3, <1>4, <1>6, KeptQueue
  <2>2. SameDue(i) /\ SameTask(i)
    BY <1>1, <1>2, <1>3, <1>6, <2>1 DEF SameDue, SameTask, Kept, TypeOK
  <2> QED
    BY <1>1, <1>2, <1>5, <2>2, Frame
<1>7. CASE i = j /\ page[i[1]] = "left"
  BY <1>1, <1>2, <1>7 DEF ChannelInv
<1>8. CASE i = j /\ page[i[1]] # "left"
  <2>1. Ordered(i) /\ Begins(i) /\ Serves(i) /\ Routed(i) /\ i \in Streaming
    BY <1>1, <1>8 DEF ChannelInv
  <2>2. stream[i] # "none" /\ stream[i] # "ended" /\ ~Unserved(i) /\ ~Untouched(i)
    BY <1>3, <1>8, <2>1 DEF Unserved, Untouched
  <2>3. /\ Sent(i)' = Sent(i) \cup {t}
        /\ Orderly(fromAgent, i) /\ "Close" \notin Sent(i) /\ (t = "Ready" => Sent(i) = {})
           => Orderly(fromAgent', i)
    BY <1>1, <1>3, <1>4, <1>8, Extended DEF Sent
  <2>4. UNCHANGED <<Asked(i), Coming(i), Out(i), Queued(i)>> /\ Due(i)' = Due(i) \cup {t}
    BY <1>2, <2>3 DEF Asked, Coming, Out, Queued, Due
  <2>5. /\ stream'[i] \in {"running", "closing", "ended"} /\ (stream'[i] = "ended" <=> t = "Close")
        /\ stream'[i] = "running" => stream[i] \in {"starting", "running"}
    BY <1>1, <1>3, <1>8, <2>1 DEF TypeOK
  <2>6. /\ "Close" \notin Due(i) /\ i \notin notify /\ Out(i) = {} /\ AgentChan(i) \notin handlers
        /\ t = "Ready" => Due(i) = {}
    BY <1>3, <1>8, <2>1, <2>2 DEF Serves, Streaming
  <2>7. Ordered(i)'
    BY <1>2, <2>1, <2>3, <2>4, <2>6 DEF Ordered, Due
  <2>8. Begins(i)'
    BY <1>2, <2>1, <2>2, <2>4 DEF Begins
  <2>9. Serves(i)'
    BY <1>2, <2>1, <2>2, <2>4, <2>5, <2>6 DEF Serves, Streaming
  <2>10. Routed(i)'
    BY <1>2, <2>1, <2>2, <2>4, <2>5, <2>6 DEF Routed
  <2>11. Answers(i) => Answers(i)'
    BY <1>1, <1>2, <1>3, <1>8, <2>1, <2>2, <2>4, <2>5, <2>6 DEF Answers, Readied, Begins, TypeOK
  <2> QED
    BY <1>1, <1>2, <2>7, <2>8, <2>9, <2>10, <2>11 DEF ChannelInv
<1> QED
  BY <1>6, <1>7, <1>8

\* A task finishes, is stopped, or gives up, without a word yet.
LEMMA StreamTurnStep ==
    ASSUME Inv, Sockets, NEW j \in Streaming,
           StreamFinishes(j) \/ StreamStops(j) \/ ScanTimesOut(j),
           NEW i \in Channel, Alone(i[1]), ChannelInv(i)
    PROVE  ChannelInv(i)'
<1> USE DEF pageVars, gatewayVars, relayVars, routerVars, taskVars, OtherVars
<1>1. j \in Channel /\ ChannelInv(i) /\ TypeOK
  BY DEF Inv, Streaming
<1>2. UNCHANGED <<page, client, got, inbox, routes, joined, notify, sub, toAgent, fromAgent, pending,
                 active, handlers, shutdown>>
  BY DEF StreamFinishes, StreamStops, ScanTimesOut
<1>3. PICK s \in {"reporting", "closing", "ended", "timedOut"} :
          /\ stream[j] = "running" /\ stream' = [stream EXCEPT ![j] = s]
          /\ s = "ended" => shutdown[j] \in {"signalled", "dropped"}
  BY DEF StreamFinishes, StreamStops, ScanTimesOut, Becomes
<1>4. SamePage(i) /\ SameAsked(i) /\ SameComing(i) /\ SameDue(i) /\ SameRoute(i) /\ SameMaps(i)
  BY <1>2 DEF SamePage, SameAsked, SameComing, SameDue, SameRoute, SameMaps, Kept
<1>5. CASE i # j
  <2>1. SameTask(i)
    BY <1>1, <1>2, <1>3, <1>5 DEF SameTask, TypeOK
  <2> QED
    BY <1>1, <1>2, <1>4, <2>1, Frame
<1>6. CASE i = j /\ page[i[1]] = "left"
  BY <1>1, <1>2, <1>6 DEF ChannelInv
<1>7. CASE i = j /\ page[i[1]] # "left"
  <2>1. Ordered(i) /\ Begins(i) /\ Serves(i) /\ Routed(i) /\ i \in Streaming
    BY <1>1, <1>7 DEF ChannelInv
  <2>2. stream[i] = "running" /\ stream'[i] = s
    BY <1>1, <1>3, <1>7 DEF TypeOK
  <2>3. ~Unserved(i) /\ ~Untouched(i)
    BY <2>1, <2>2 DEF Unserved, Untouched
  <2>4. UNCHANGED <<Asked(i), Coming(i), Out(i), Sent(i), Queued(i), Due(i)>>
    BY <1>2 DEF Asked, Coming, Out, Sent, Queued, Due
  <2>5. Ordered(i)'
    BY <1>2, <2>1, <2>4 DEF Ordered
  <2>6. Begins(i)'
    BY <1>2, <2>1, <2>3, <2>4 DEF Begins
  <2>7. Serves(i)'
    BY <1>2, <2>1, <2>2, <2>4 DEF Serves
  <2>8. Routed(i)'
    BY <1>2, <1>3, <1>7, <2>1, <2>2, <2>4 DEF Routed
  <2>9. Answers(i) => Answers(i)'
    BY <1>2, <2>1, <2>2, <2>4 DEF Answers, Readied
  <2> QED
    BY <1>1, <1>2, <2>5, <2>6, <2>7, <2>8, <2>9 DEF ChannelInv
<1> QED
  BY <1>5, <1>6, <1>7

-----------------------------------------------------------------------------
(* The sockets and the senders *)

LEMMA MineQueue ==
    ASSUME NEW w, NEW q \in Seq(Down), Mine(q, w)
    PROVE  /\ \A m \in Down : m.by[1] = w => Mine(Append(q, m), w)
           /\ q # <<>> => Mine(Tail(q), w)
           /\ Mine(<<>>, w)
<1>1. ASSUME NEW m \in Down, m.by[1] = w PROVE Mine(Append(q, m), w)
  <2> DEFINE r == Append(q, m)
  <2>1. /\ Len(r) = Len(q) + 1 /\ Len(q) \in Nat /\ r[Len(q) + 1] = m
        /\ \A n \in 1..Len(q) : r[n] = q[n]
    BY AppendProperties, LenProperties
  <2> HIDE DEF r
  <2>2. \A n \in 1..Len(r) : n \in 1..Len(q) \/ n = Len(q) + 1
    BY <2>1
  <2>3. Mine(r, w)
    BY <1>1, <2>1, <2>2 DEF Mine
  <2> QED
    BY <2>3 DEF r
<1>2. ASSUME q # <<>> PROVE Mine(Tail(q), w)
  <2>1. /\ Len(q) \in Nat /\ Len(Tail(q)) = Len(q) - 1
        /\ \A n \in 1..Len(Tail(q)) : Tail(q)[n] = q[n + 1]
    BY <1>2, HeadTailProperties, LenProperties
  <2> QED
    BY <2>1 DEF Mine
<1> QED
  BY <1>1, <1>2 DEF Mine

\* What the page of w puts on its queue names a channel of w.
LEMMA InboxMine ==
    ASSUME Inv, Sockets, [Next]_vars, NEW w \in Socket
    PROVE  Mine(inbox'[w], w)
<1> USE DEF pageVars, gatewayVars, relayVars, routerVars, taskVars, OtherVars
<1>1. TypeOK /\ inbox[w] \in Seq(Down) /\ Mine(inbox[w], w)
  BY DEF Inv, TypeOK, Sockets, SocketInv
<1>2. CASE inbox'[w] = inbox[w]
  BY <1>1, <1>2
<1>3. ASSUME NEW j \in Channel, ClientNext(j) PROVE Mine(inbox'[w], w)
  <2>1. PICK t \in {"Open", "Data", "Close"} : Sends(j, t)
    BY <1>3 DEF ClientNext, ClientOpens, ClientSends, ClientCloses
  <2>2. Msg(t, j) \in Down /\ Msg(t, j).by = j
    BY MessageTyped DEF Msg
  <2>3. inbox'[w] = inbox[w] \/ (j[1] = w /\ inbox'[w] = Append(inbox[w], Msg(t, j)))
    BY <1>1, <2>1 DEF Sends, TypeOK
  <2> QED
    BY <1>1, <2>2, <2>3, MineQueue
<1>4. ASSUME NEW v \in Socket, NEW j, j[1] = v, NEW t, NEW q \in Seq(Down), Mine(q, v), Hears(j, t, q)
      PROVE  Mine(inbox'[w], w)
  <2> DEFINE answers == j \in Channel /\ client[j] = "open" /\ t = "Close" /\ Payload[j] = "oneshot"
  <2>1. inbox'[w] = IF w # v THEN inbox[w] ELSE IF answers THEN Append(q, Msg("Close", j)) ELSE q
    BY <1>1, <1>4 DEF Hears, TypeOK
  <2>2. answers => Msg("Close", j) \in Down /\ Msg("Close", j).by = j
    BY MessageTyped DEF Msg
  <2> HIDE DEF answers
  <2> QED
    BY <1>1, <1>4, <2>1, <2>2, MineQueue
<1>5. ASSUME NEW v \in Socket, GatewayNext(v) PROVE Mine(inbox'[w], w)
  <2>1. inbox[v] \in Seq(Down) /\ Mine(inbox[v], v)
    BY DEF Inv, TypeOK, Sockets, SocketInv
  <2>2. CASE GwRefuses(v)
    <3>1. Hears(Head(inbox[v]).by, "Close", Tail(inbox[v])) /\ inbox[v] # <<>>
      BY <2>2 DEF GwRefuses, NextFrame
    <3>2. Head(inbox[v]).by[1] = v /\ Tail(inbox[v]) \in Seq(Down)
      BY <3>1, FrameTaken
    <3>3. Mine(Tail(inbox[v]), v)
      BY <2>1, <3>1, MineQueue
    <3> QED
      BY <1>4, <3>1, <3>2, <3>3
  <2>3. CASE GwOpens(v) \/ GwForwards(v) \/ GwDrops(v)
    <3>1. inbox' = [inbox EXCEPT ![v] = Tail(@)] /\ inbox[v] # <<>>
      BY <2>3 DEF GwOpens, GwForwards, GwDrops, NextFrame
    <3>2. inbox'[w] = inbox[w] \/ (w = v /\ inbox'[w] = Tail(inbox[w]))
      BY <1>1, <3>1 DEF TypeOK
    <3> QED
      BY <1>1, <3>1, <3>2, MineQueue
  <2>4. CASE GwRemovesRoute(v)
    BY <1>2, <2>4 DEF GwRemovesRoute
  <2>5. CASE GwEnds(v)
    <3>1. inbox'[w] = inbox[w] \/ inbox'[w] = <<>>
      BY <1>1, <2>5 DEF GwEnds, TypeOK
    <3> QED
      BY <1>1, <3>1, MineQueue
  <2> QED
    BY <1>5, <2>2, <2>3, <2>4, <2>5 DEF GatewayNext
<1>6. ASSUME NEW v \in Socket, ForwarderNext(v) PROVE Mine(inbox'[w], w)
  <2>1. inbox[v] \in Seq(Down) /\ Mine(inbox[v], v)
    BY DEF Inv, TypeOK, Sockets, SocketInv
  <2>2. CASE ForwarderSends(v)
    <3> DEFINE j == <<v, Head(sub[v]).by[2]>>
    <3>1. Hears(j, Head(sub[v]).type, inbox[v]) /\ j[1] = v
      BY <2>2 DEF ForwarderSends
    <3> HIDE DEF j
    <3> QED
      BY <1>4, <2>1, <3>1
  <2>3. CASE ForwarderEnds(v)
    BY <1>2, <2>3 DEF ForwarderEnds
  <2> QED
    BY <1>6, <2>2, <2>3 DEF ForwarderNext
<1>7. ASSUME \/ \E v \in Socket : PageNext(v)
             \/ ReaderRoutes \/ RouterTurn \/ RouterSends
             \/ \E j \in Streaming : StreamNext(j)
             \/ UNCHANGED vars
      PROVE  inbox' = inbox
  BY <1>7 DEF PageNext, OpenPage, LeavePage, ReaderRoutes, RouterTurn, RouterOpensStream, RouterAnswers,
              RouterOpensInteractive, RouterData, RouterCloses, RouterSends, StreamNext, StreamReady,
              StreamData, StreamFinishes, StreamStops, ScanTimesOut, ScanReports, StreamCloses, vars
<1> QED
  BY <1>2, <1>3, <1>5, <1>6, <1>7 DEF Next

\* A page that has joined stays subscribed: nobody takes its prefix over.
LEMMA Subscribed ==
    ASSUME Inv, Sockets, [Next]_vars, NEW w \in Socket, Alone(w)
    PROVE  /\ page'[w] # "left" /\ w \in joined' =>
                forwarder'[w] = "running" /\ subscriber'[PrefixOf[w]] = w
           /\ forwarder'[w] = "running" => w \in joined'
<1> USE DEF pageVars, gatewayVars, relayVars, routerVars, taskVars, OtherVars
<1>1. TypeOK /\ PrefixOf[w] \in Prefix /\ SocketInv(w)
  BY MuxAssumption DEF Inv, Sockets
<1>2. ASSUME page'[w] = page[w] \/ page'[w] = "left" \/ page[w] = "new",
             joined' = joined, forwarder' = forwarder, subscriber' = subscriber
      PROVE  /\ page'[w] # "left" /\ w \in joined' =>
                forwarder'[w] = "running" /\ subscriber'[PrefixOf[w]] = w
             /\ forwarder'[w] = "running" => w \in joined'
  BY <1>1, <1>2 DEF SocketInv
<1>3. ASSUME NEW v \in Socket, PageNext(v)
      PROVE  /\ page'[w] = page[w] \/ page'[w] = "left" \/ page[w] = "new"
             /\ joined' = joined /\ forwarder' = forwarder /\ subscriber' = subscriber
  BY <1>1, <1>3 DEF PageNext, OpenPage, LeavePage, TypeOK
<1>4. ASSUME NEW v \in Socket, GwOpens(v)
      PROVE  /\ page'[w] # "left" /\ w \in joined' =>
                forwarder'[w] = "running" /\ subscriber'[PrefixOf[w]] = w
             /\ forwarder'[w] = "running" => w \in joined'
  <2>1. /\ UNCHANGED page /\ joined' = joined \cup {v}
        /\ v \in joined => UNCHANGED <<subscriber, forwarder>>
        /\ v \notin joined => /\ subscriber' = [subscriber EXCEPT ![PrefixOf[v]] = v]
                              /\ forwarder' = [forwarder EXCEPT ![v] = "running"]
    BY <1>4 DEF GwOpens
  <2>2. CASE v \in joined
    <3>1. joined' = joined
      BY <2>1, <2>2
    <3> QED
      BY <1>1, <2>1, <2>2, <3>1 DEF SocketInv
  <2>3. CASE v \notin joined /\ w = v
    BY <1>1, <2>1, <2>3 DEF TypeOK
  <2>4. CASE v \notin joined /\ w # v
    <3>1. PrefixOf[w] # PrefixOf[v]
      BY <2>4 DEF Alone
    <3> QED
      BY <1>1, <2>1, <2>4, <3>1 DEF TypeOK, SocketInv
  <2> QED
    BY <2>2, <2>3, <2>4
<1>5. ASSUME NEW v \in Socket, ForwarderEnds(v)
      PROVE  /\ page'[w] # "left" /\ w \in joined' =>
                forwarder'[w] = "running" /\ subscriber'[PrefixOf[w]] = w
             /\ forwarder'[w] = "running" => w \in joined'
  <2>1. UNCHANGED <<page, joined, subscriber>> /\ forwarder' = [forwarder EXCEPT ![v] = "ended"]
        /\ forwarder[v] = "running" /\ (page[v] = "left" \/ subscriber[PrefixOf[v]] # v)
    BY <1>5 DEF ForwarderEnds
  <2>2. CASE w = v
    BY <1>1, <2>1, <2>2 DEF TypeOK, SocketInv
  <2>3. CASE w # v
    BY <1>1, <2>1, <2>3 DEF TypeOK, SocketInv
  <2> QED
    BY <2>2, <2>3
<1>6. ASSUME \/ \E v \in Socket : GatewayNext(v) /\ ~GwOpens(v)
             \/ \E v \in Socket : ForwarderSends(v)
             \/ \E j \in Channel : ClientNext(j)
             \/ ReaderRoutes \/ RouterTurn \/ RouterSends
             \/ \E j \in Streaming : StreamNext(j)
             \/ UNCHANGED vars
      PROVE  UNCHANGED <<page, joined, forwarder, subscriber>>
  BY <1>6 DEF GatewayNext, GwRefuses, GwForwards, GwDrops, GwRemovesRoute, GwEnds, ForwarderSends,
              ClientNext, ClientOpens, ClientSends, ClientCloses,
              ReaderRoutes, RouterTurn, RouterOpensStream, RouterAnswers,
              RouterOpensInteractive, RouterData, RouterCloses, RouterSends, StreamNext, StreamReady,
              StreamData, StreamFinishes, StreamStops, ScanTimesOut, ScanReports, StreamCloses, vars
<1>7. CASE UNCHANGED <<page, joined, forwarder, subscriber>>
  BY <1>2, <1>7
<1>8. CASE \E v \in Socket : PageNext(v)
  BY <1>2, <1>3, <1>8
<1>9. CASE (\E v \in Socket : GwOpens(v)) \/ (\E v \in Socket : ForwarderEnds(v))
  BY <1>4, <1>5, <1>9
<1> QED
  BY <1>6, <1>7, <1>8, <1>9 DEF Next, ForwarderNext, GatewayNext

\* The sender held for a name is that of a page of the name's session.
LEMMA SendersHeld ==
    ASSUME Inv, Sockets, [Next]_vars, NEW n \in AgentChans, active'[n] # NoSocket
    PROVE  PrefixOf[active'[n]] = n[1]
<1> USE DEF routerVars
<1>1. TypeOK /\ (active[n] # NoSocket => PrefixOf[active[n]] = n[1])
  BY DEF Inv, Sockets
<1>2. CASE RouterOpensStream
  <2>1. active' = [active EXCEPT ![AgentChan(Head(toAgent).by)] = Head(toAgent).by[1]]
    BY <1>2 DEF RouterOpensStream
  <2> QED
    BY <1>1, <2>1 DEF TypeOK, AgentChan
<1>3. CASE RouterCloses
  <2>1. active' = [active EXCEPT ![AgentChan(Head(toAgent).by)] = NoSocket]
    BY <1>3 DEF RouterCloses
  <2> QED
    BY <1>1, <2>1 DEF TypeOK
<1>4. CASE ~RouterOpensStream /\ ~RouterCloses
  <2>1. active' = active
    BY <1>4 DEF Next, PageNext, OpenPage, LeavePage, GatewayNext, GwRefuses, GwOpens, GwForwards, GwDrops,
                GwRemovesRoute, GwEnds, ForwarderNext, ForwarderSends, ForwarderEnds,
                ClientNext, ClientOpens, ClientSends, ClientCloses, ReaderRoutes, RouterTurn,
                RouterAnswers, RouterOpensInteractive, RouterData, RouterSends, StreamNext, StreamReady,
                StreamData, StreamFinishes, StreamStops, ScanTimesOut, ScanReports, StreamCloses,
                OtherVars, vars
  <2> QED
    BY <1>1, <2>1
<1> QED
  BY <1>2, <1>3, <1>4

-----------------------------------------------------------------------------

\* Nothing has been opened.
LEMMA InitOrder == Init => Channels /\ Sockets
<1> SUFFICES ASSUME Init PROVE Channels /\ Sockets
  OBVIOUS
<1>1. ASSUME NEW i \in Channel, Alone(i[1]) PROVE ChannelInv(i)
  <2>1. /\ i[1] \in Socket /\ AgentChan(i) \in AgentChans
        /\ page[i[1]] = "new" /\ client[i] = "idle" /\ got[i] = "nothing"
        /\ i \notin routes /\ i[1] \notin joined /\ i \notin notify
        /\ AgentChan(i) \notin handlers /\ active[AgentChan(i)] = NoSocket
        /\ i \in Streaming => stream[i] = "none" /\ shutdown[i] = "open"
    BY <1>1, Names DEF Init
  <2>2. /\ Asked(i) = {} /\ Coming(i) = {} /\ Out(i) = {} /\ Sent(i) = {} /\ Queued(i) = {}
        /\ Orderly(inbox[i[1]], i) /\ Orderly(toAgent, i)
        /\ Orderly(pending, i) /\ Orderly(fromAgent, i) /\ Orderly(sub[i[1]], i)
    BY <2>1, Made DEF Init, Asked, Coming, Out, Sent, Queued
  <2>3. Due(i) = {}
    BY <2>2 DEF Due
  <2>4. Unserved(i) /\ Untouched(i)
    BY <2>1, <2>2, <2>3 DEF Unserved, Untouched
  <2>5. Ordered(i) /\ Begins(i)
    BY <2>1, <2>2, <2>4 DEF Ordered, Begins
  <2>6. Serves(i) /\ Routed(i)
    BY <2>1, <2>2, <2>3 DEF Serves, Routed
  <2> QED
    BY <2>1, <2>5, <2>6 DEF ChannelInv
<1>2. ASSUME NEW w \in Socket PROVE Mine(inbox[w], w) /\ SocketInv(w)
  BY DEF Init, SocketInv, Mine
<1>3. \A k \in AgentChans : active[k] = NoSocket
  BY DEF Init
<1> QED
  BY <1>1, <1>2, <1>3 DEF Channels, Sockets

\* Every step leaves every channel in order.
LEMMA NextOrder == Inv /\ Channels /\ Sockets /\ [Next]_vars => Channels' /\ Sockets'
<1> SUFFICES ASSUME Inv, Channels, Sockets, [Next]_vars PROVE Channels' /\ Sockets'
  OBVIOUS
<1>1. ASSUME NEW i \in Channel, Alone(i[1]) PROVE ChannelInv(i)'
  <2> ChannelInv(i)
    BY <1>1 DEF Channels
  <2>1. ASSUME NEW w \in Socket, PageNext(w) \/ GatewayNext(w) \/ ForwarderNext(w) PROVE ChannelInv(i)'
    BY <2>1, <1>1, PageStep, RefuseStep, PassStep, DropStep, RemoveStep, EndStep, ForwardStep, ForwardEndStep
       DEF GatewayNext, ForwarderNext
  <2>2. CASE RouterTurn \/ RouterSends
    BY <2>2, <1>1, OpenStreamStep, OpenAnsweredStep, DataStep, CloseStep, ResponseStep DEF RouterTurn
  <2>3. ASSUME NEW j \in Streaming, StreamNext(j) PROVE ChannelInv(i)'
    BY <2>3, <1>1, StreamSendStep, StreamTurnStep DEF StreamNext
  <2>4. CASE UNCHANGED vars
    <3>1. /\ SamePage(i) /\ SameAsked(i) /\ SameComing(i) /\ SameDue(i)
          /\ SameRoute(i) /\ SameMaps(i) /\ SameTask(i) /\ joined' = joined
      BY <2>4 DEF vars, pageVars, gatewayVars, relayVars, routerVars, taskVars, SamePage, SameAsked,
                  SameComing, SameDue, SameRoute, SameMaps, SameTask, Kept
    <3> QED
      BY <3>1, Frame
  <2> QED
    BY <1>1, <2>1, <2>2, <2>3, <2>4, ClientStep, ReaderStep DEF Next
<1>2. ASSUME NEW w \in Socket, Alone(w) PROVE SocketInv(w)'
  BY <1>2, Subscribed DEF SocketInv
<1>3. Channels'
  BY <1>1 DEF Channels, Alone
<1>4. Sockets'
  BY <1>2, InboxMine, SendersHeld DEF Sockets, Alone
<1> QED
  BY <1>3, <1>4

LEMMA Order == Spec => [](Inv /\ Channels /\ Sockets)
<1>1. Init => Inv /\ Channels /\ Sockets
  BY InitInv, InitOrder
<1>2. Inv /\ Channels /\ Sockets /\ [Next]_vars => (Inv /\ Channels /\ Sockets)'
  BY NextTyped, NextApart, NextOrder DEF Inv
<1> QED
  BY <1>1, <1>2, PTL DEF Spec

\* The next answer for the only page of a session is in its turn.
LEMMA InTurn ==
    ASSUME Inv, Channels, NEW w \in Socket, Alone(w)
    PROVE  InOrder(w)
<1> SUFFICES ASSUME sub[w] # <<>>,
                    <<w, Head(sub[w]).by[2]>> \in Channel, client[<<w, Head(sub[w]).by[2]>>] = "open"
             PROVE  LET m == Head(sub[w])
                        i == <<w, m.by[2]>>
                    IN CASE m.type = "Ready" -> got[i] = "nothing"
                         [] m.type = "Data"  -> got[i] = "ready"
                         [] m.type = "Close" -> got[i] # "closed"
  BY DEF InOrder
<1> DEFINE m == Head(sub[w])
           i == <<w, m.by[2]>>
<1>1. sub[w] \in Seq(Up) /\ m \in Up /\ m.by \in Channel /\ m.by[1] \in Socket
  BY FrameTyped, MessageTyped DEF Inv, TypeOK
<1>2. m.by = i /\ i[1] = w
  <2>1. m = sub[w][1] /\ 1 \in 1..Len(sub[w])
    BY <1>1, HeadTailProperties, LenProperties, EmptySeq
  <2>2. m.by[1] = w
    BY <1>1, <2>1 DEF Inv, SessionsApart, Alone
  <2> QED
    BY <1>1, <2>2, MuxAssumption
<1>3. client[i] = "open" /\ i \in Channel
  OBVIOUS
<1> HIDE DEF m, i
<1>4. /\ Kinds(sub[w], i) = Kinds(Tail(sub[w]), i) \cup {m.type}
      /\ Orderly(sub[w], i) => "Ready" \notin Kinds(Tail(sub[w]), i)
  BY <1>1, <1>2, Shortened DEF m
<1>5. ChannelInv(i) /\ page[i[1]] = "open" /\ Answers(i) /\ Ordered(i)
  BY <1>2, <1>3 DEF Channels, ChannelInv
<1>6. m.type \in Queued(i) /\ m.type \in Due(i)
  BY <1>2, <1>4 DEF Queued, Due
<1>7. CASE m.type = "Data"
  <2>1. "Ready" \notin Due(i)
    BY <1>2, <1>4, <1>5, <1>6, <1>7 DEF Ordered, Queued, Due
  <2> QED
    BY <1>5, <1>6, <1>7, <2>1 DEF Answers, Readied, m, i
<1>8. CASE m.type = "Ready"
  BY <1>5, <1>6, <1>8 DEF Answers, m, i
<1>9. CASE m.type = "Close"
  BY <1>5, <1>6, <1>9 DEF Answers, m, i
<1> QED
  BY <1>1, <1>7, <1>8, <1>9 DEF Up, m, i

\* Its routes are what the agent serves it, once nothing is in flight.
LEMMA ServedOnly ==
    ASSUME Inv, Channels, NEW w \in Socket, Alone(w)
    PROVE  RoutesServed(w)
<1> SUFFICES ASSUME page[w] = "open", Quiet(w), NEW i \in Of(w, Channel)
             PROVE  i \in routes <=>
                        Served(i) \/ (i \in Streaming /\ stream[i] = "timedOut" /\ i \in routes)
  BY DEF RoutesServed
<1>1. i \in Channel /\ i[1] = w
  BY DEF Of
<1>2. Serves(i) /\ Routed(i) /\ TypeOK
  BY <1>1 DEF Channels, ChannelInv, Inv
<1>3. /\ Coming(i) = {} /\ Due(i) = {} /\ i \notin notify
      /\ i \in Streaming => stream[i] \notin {"starting", "reporting", "closing"}
  BY <1>1, Made DEF Quiet, Of, Coming, Out, Sent, Queued, Due
<1>4. i \in Streaming => /\ stream[i] \in {"none", "running", "ended", "timedOut"}
                         /\ AgentChan(i) \notin handlers
  BY <1>2, <1>3 DEF TypeOK, Serves, Streaming
<1>5. CASE i \in Streaming
  BY <1>2, <1>3, <1>4, <1>5 DEF Routed, Served
<1>6. CASE i \notin Streaming
  BY <1>2, <1>3, <1>6 DEF Routed, Served
<1> QED
  BY <1>5, <1>6

\* What the only page of a session is shown next on a channel it listens to is in its turn: Ready
\* before Data, Data before Close, nothing after it, whatever other sessions do.  The router's own
\* responses, the tasks it spawned, the reader and the forwarder keep one another's order
\* (router.rs:130-141).
THEOREM AloneInOrder ==
    ASSUME NEW w \in Socket, Alone(w)
    PROVE  Spec => []InOrder(w)
<1>1. Inv /\ Channels => InOrder(w)
  BY InTurn
<1> QED
  BY <1>1, Order, PTL

\* The gateway's routes for the only page of a session are the channels the agent serves it, once
\* nothing is in flight: no close_notify is lost (ws.rs:83-85, 397-399), and no Close from the page.
THEOREM AloneRoutesServed ==
    ASSUME NEW w \in Socket, Alone(w)
    PROVE  Spec => []RoutesServed(w)
<1>1. Inv /\ Channels => RoutesServed(w)
  BY ServedOnly
<1> QED
  BY <1>1, Order, PTL

\* Where no page is reloaded, every page is shown every channel's answers in turn.
THEOREM OnePageInOrder ==
    ASSUME \A w \in Socket : Alone(w)
    PROVE  Spec => []AnswersInOrder
<1>1. Inv /\ Channels => AnswersInOrder
  BY InTurn DEF AnswersInOrder
<1> QED
  BY <1>1, Order, PTL

\* Where no page is reloaded, no route outlives what the agent serves, nor the other way round.
THEOREM OnePageRoutesServed ==
    ASSUME \A w \in Socket : Alone(w)
    PROVE  Spec => []RoutesAreServed
<1>1. Inv /\ Channels => RoutesAreServed
  BY ServedOnly DEF RoutesAreServed
<1> QED
  BY <1>1, Order, PTL
=============================================================================
