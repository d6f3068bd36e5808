------------------------- MODULE AgentRegistryProofs -------------------------
(***************************************************************************)
(* The registry's safety for any set of hosts, connections, sockets and    *)
(* calls.  The properties are not inductive by themselves: what a task has *)
(* cloned must come from the registry (ClonesRegistered), a call holds a   *)
(* clone exactly while it runs (RpcHoldsClone), and a cached sender must   *)
(* have been subscribed whether or not it is still valid                   *)
(* (CachedSubscribed).                                                     *)
(***************************************************************************)
EXTENDS AgentRegistry, FiniteSetTheorems, TLAPS

\* No other socket subscribes under w's prefix.
Unshared(w) == \A v \in Socket \ {w} : PrefixOf[v] # PrefixOf[w]

ClonesRegistered ==
    /\ \A w \in Socket : joining[w] # NoConn =>
            joining[w] \in Registered /\ sock[w] = "open"
    /\ \A r \in Rpc : rpcConn[r] # NoConn => rpcConn[r] \in Registered

RpcHoldsClone ==
    \A r \in Rpc : rpc[r] \in {"cloned", "awaitReady", "awaitData"}
                   => rpcConn[r] # NoConn

CachedSubscribed ==
    \A w \in Socket, h \in Host : cache[w][h] # NoConn =>
        /\ HostOf[cache[w][h]] = h
        /\ Unshared(w) => subs[cache[w][h]][PrefixOf[w]] = w

Inv == TypeOK /\ RegisteredIsServed /\ ClonesRegistered /\ RpcHoldsClone /\ CachedSubscribed

-----------------------------------------------------------------------------

\* The initial state: nothing is connected, cloned or cached.
LEMMA InitInv == Init => Inv
<1>1. ASSUME Init PROVE TypeOK
  BY <1>1, ConnAssumption, SubscriberAssumption
  DEF Init, TypeOK, Phase, RpcPhase, SubKey
<1>2. ASSUME Init PROVE RegisteredIsServed /\ ClonesRegistered /\ RpcHoldsClone /\ CachedSubscribed
  BY <1>2 DEF Init, RegisteredIsServed, ClonesRegistered, RpcHoldsClone, CachedSubscribed
<1> QED BY <1>1, <1>2 DEF Inv

\* Types are preserved by every step.
LEMMA NextTypeOK == Inv /\ [Next]_vars => TypeOK'
<1> SUFFICES ASSUME Inv, [Next]_vars PROVE TypeOK'
  OBVIOUS
<1> USE ConnAssumption, SubscriberAssumption DEF Inv, TypeOK, Phase, RpcPhase, SubKey
<1>1. ASSUME NEW c \in Conn, Authenticate(c) PROVE TypeOK'
  BY <1>1 DEF Authenticate, browserVars, rpcVars
<1>2. ASSUME NEW c \in Conn, ReEnroll(c) PROVE TypeOK'
  BY <1>2 DEF ReEnroll, browserVars, rpcVars
<1>3. ASSUME NEW c \in Conn, Register(c) PROVE TypeOK'
  BY <1>3 DEF Register, browserVars, rpcVars
<1>4. ASSUME NEW c \in Conn, AckFails(c) PROVE TypeOK'
  BY <1>4 DEF AckFails, browserVars, rpcVars
<1>5. ASSUME NEW c \in Conn, WireDrops(c) PROVE TypeOK'
  BY <1>5 DEF WireDrops, browserVars, rpcVars
<1>6. ASSUME NEW c \in Conn, ReaderEnds(c) PROVE TypeOK'
  BY <1>6 DEF ReaderEnds, browserVars, rpcVars
<1>7. ASSUME NEW c \in Conn, Unregister(c) PROVE TypeOK'
  BY <1>7 DEF Unregister, browserVars, rpcVars
<1>8. ASSUME NEW w \in Socket, SocketOpens(w) PROVE TypeOK'
  BY <1>8 DEF SocketOpens, agentVars, rpcVars
<1>9. ASSUME NEW w \in Socket, SocketCloses(w) PROVE TypeOK'
  BY <1>9 DEF SocketCloses, agentVars, rpcVars
<1>10. ASSUME NEW w \in Socket, OpenSubscribes(w) PROVE TypeOK'
  BY <1>10 DEF OpenSubscribes, agentVars, rpcVars
<1>11. ASSUME NEW w \in Socket, NEW h \in Host, OpenRefused(w, h) PROVE TypeOK'
  BY <1>11 DEF OpenRefused, Evict, agentVars, rpcVars
<1>12. ASSUME NEW w \in Socket, NEW h \in Host, OpenOffline(w, h) PROVE TypeOK'
  BY <1>12 DEF OpenOffline, Evict, agentVars, rpcVars
<1>13. ASSUME NEW w \in Socket, NEW h \in Host, OpenLooksUp(w, h) PROVE TypeOK'
  BY <1>13 DEF OpenLooksUp, Evict, agentVars, rpcVars
<1>14. ASSUME NEW w \in Socket, NEW h \in Host, OpenEvicts(w, h) PROVE TypeOK'
  BY <1>14 DEF OpenEvicts, Evict, agentVars, rpcVars
<1>15. ASSUME NEW r \in Rpc, RpcSubscribes(r) PROVE TypeOK'
  BY <1>15 DEF RpcSubscribes, RpcMoves, RpcEnds, agentVars, browserVars, RpcHoldsClone
<1>16. ASSUME NEW r \in Rpc, RpcReady(r) PROVE TypeOK'
  BY <1>16 DEF RpcReady, RpcMoves, RpcEnds, agentVars, browserVars, RpcHoldsClone
<1>17. ASSUME NEW r \in Rpc, RpcAnswered(r) PROVE TypeOK'
  BY <1>17 DEF RpcAnswered, RpcMoves, RpcEnds, agentVars, browserVars, RpcHoldsClone
<1>18. ASSUME NEW r \in Rpc, RpcTimesOut(r) PROVE TypeOK'
  BY <1>18 DEF RpcTimesOut, RpcMoves, RpcEnds, agentVars, browserVars, RpcHoldsClone
<1>19. ASSUME NEW r \in Rpc, NEW h \in Host, RpcLooksUp(r, h) PROVE TypeOK'
  BY <1>19 DEF RpcLooksUp, RpcMoves, agentVars, browserVars
<1>20. CASE UNCHANGED vars
  BY <1>20 DEF vars
<1> QED
  BY <1>1, <1>2, <1>3, <1>4, <1>5, <1>6, <1>7, <1>8, <1>9, <1>10, <1>11, <1>12, <1>13, <1>14, <1>15, <1>16, <1>17, <1>18, <1>19, <1>20
  DEF Next, AgentNext, SocketNext, RpcNext

\* An entry of the registry is served: register makes the connection serving
\* first, and unregister of a host's connection empties the host's entry.
LEMMA NextRegisteredIsServed == Inv /\ [Next]_vars => RegisteredIsServed'
<1> SUFFICES ASSUME Inv, [Next]_vars PROVE RegisteredIsServed'
  OBVIOUS
<1> USE ConnAssumption DEF Inv, TypeOK, RegisteredIsServed
<1>1. ASSUME NEW c \in Conn, Authenticate(c) PROVE RegisteredIsServed'
  BY <1>1 DEF Authenticate
<1>2. ASSUME NEW c \in Conn, ReEnroll(c) PROVE RegisteredIsServed'
  BY <1>2 DEF ReEnroll
<1>3. ASSUME NEW c \in Conn, Register(c) PROVE RegisteredIsServed'
  BY <1>3 DEF Register
<1>4. ASSUME NEW c \in Conn, AckFails(c) PROVE RegisteredIsServed'
  BY <1>4 DEF AckFails
<1>5. ASSUME NEW c \in Conn, WireDrops(c) PROVE RegisteredIsServed'
  BY <1>5 DEF WireDrops
<1>6. ASSUME NEW c \in Conn, ReaderEnds(c) PROVE RegisteredIsServed'
  BY <1>6 DEF ReaderEnds
<1>7. ASSUME NEW c \in Conn, Unregister(c) PROVE RegisteredIsServed'
  BY <1>7 DEF Unregister
<1>8. ASSUME NEW w \in Socket, SocketNext(w) PROVE RegisteredIsServed'
  BY <1>8 DEF SocketNext, SocketOpens, SocketCloses, OpenSubscribes, OpenRefused,
    OpenOffline, OpenLooksUp, OpenEvicts, agentVars
<1>9. ASSUME NEW r \in Rpc, RpcNext(r) PROVE RegisteredIsServed'
  BY <1>9 DEF RpcNext, RpcSubscribes, RpcReady, RpcAnswered, RpcTimesOut, RpcLooksUp, agentVars
<1>10. CASE UNCHANGED vars
  BY <1>10 DEF vars
<1> QED
  BY <1>1, <1>2, <1>3, <1>4, <1>5, <1>6, <1>7, <1>8, <1>9, <1>10 DEF Next, AgentNext

\* A connection that has been registered stays so for good.
LEMMA RegisteredGrows == Inv /\ [Next]_vars => Registered \subseteq Registered'
<1> SUFFICES ASSUME Inv, [Next]_vars PROVE Registered \subseteq Registered'
  OBVIOUS
<1> USE DEF Inv, TypeOK, Registered
<1>1. ASSUME NEW c \in Conn, AgentNext(c) PROVE Registered \subseteq Registered'
  BY <1>1 DEF AgentNext, Authenticate, ReEnroll, Register, AckFails, WireDrops, ReaderEnds, Unregister
<1>2. ASSUME NEW w \in Socket, SocketNext(w) PROVE Registered \subseteq Registered'
  BY <1>2 DEF SocketNext, SocketOpens, SocketCloses, OpenSubscribes, OpenRefused,
    OpenOffline, OpenLooksUp, OpenEvicts, agentVars
<1>3. ASSUME NEW r \in Rpc, RpcNext(r) PROVE Registered \subseteq Registered'
  BY <1>3 DEF RpcNext, RpcSubscribes, RpcReady, RpcAnswered, RpcTimesOut, RpcLooksUp, agentVars
<1>4. CASE UNCHANGED vars
  BY <1>4 DEF vars
<1> QED
  BY <1>1, <1>2, <1>3, <1>4 DEF Next

\* What a task clones comes out of the registry, and a call has a clone while
\* it runs.
LEMMA NextClones == Inv /\ [Next]_vars => (ClonesRegistered /\ RpcHoldsClone)'
<1> SUFFICES ASSUME Inv, [Next]_vars PROVE (ClonesRegistered /\ RpcHoldsClone)'
  OBVIOUS
<1> USE ConnAssumption DEF Inv, TypeOK, ClonesRegistered, RpcHoldsClone
<1>0. Registered \subseteq Registered'
  BY RegisteredGrows
<1>1. \A h \in Host : registry[h] # NoConn => registry[h] \in Registered
  BY DEF RegisteredIsServed, Registered
<1>2. ASSUME NEW c \in Conn, AgentNext(c) PROVE (ClonesRegistered /\ RpcHoldsClone)'
  BY <1>0, <1>2 DEF AgentNext, Authenticate, ReEnroll, Register, AckFails, WireDrops,
    ReaderEnds, Unregister, browserVars, rpcVars
<1>3. ASSUME NEW w \in Socket, SocketOpens(w) \/ SocketCloses(w) \/ OpenSubscribes(w)
      PROVE (ClonesRegistered /\ RpcHoldsClone)'
  BY <1>0, <1>3 DEF SocketOpens, SocketCloses, OpenSubscribes, Ready, rpcVars
<1>4. ASSUME NEW w \in Socket, NEW h \in Host,
             OpenRefused(w, h) \/ OpenOffline(w, h) \/ OpenEvicts(w, h)
      PROVE (ClonesRegistered /\ RpcHoldsClone)'
  BY <1>0, <1>4 DEF OpenRefused, OpenOffline, OpenEvicts, rpcVars
<1>5. ASSUME NEW w \in Socket, NEW h \in Host, OpenLooksUp(w, h)
      PROVE (ClonesRegistered /\ RpcHoldsClone)'
  BY <1>0, <1>1, <1>5 DEF OpenLooksUp, Ready, rpcVars
<1>6. ASSUME NEW r \in Rpc, NEW h \in Host, RpcLooksUp(r, h)
      PROVE (ClonesRegistered /\ RpcHoldsClone)'
  BY <1>0, <1>1, <1>6 DEF RpcLooksUp, RpcMoves, browserVars
<1>7. ASSUME NEW r \in Rpc, RpcSubscribes(r) \/ RpcReady(r)
      PROVE (ClonesRegistered /\ RpcHoldsClone)'
  BY <1>0, <1>7 DEF RpcSubscribes, RpcReady, RpcMoves, RpcPhase, browserVars
<1>8. ASSUME NEW r \in Rpc, RpcAnswered(r) \/ RpcTimesOut(r)
      PROVE (ClonesRegistered /\ RpcHoldsClone)'
  BY <1>0, <1>8 DEF RpcAnswered, RpcTimesOut, RpcEnds, RpcMoves, browserVars
<1>9. CASE UNCHANGED vars
  BY <1>9, <1>0 DEF vars
<1> QED
  BY <1>2, <1>3, <1>4, <1>5, <1>6, <1>7, <1>8, <1>9 DEF Next, SocketNext, RpcNext

\* A cached sender was subscribed when it was cached; afterwards only the same
\* session or a call, under a prefix of its own, writes the subscribers map.
LEMMA NextCachedSubscribed == Inv /\ [Next]_vars => CachedSubscribed'
<1> SUFFICES ASSUME Inv, [Next]_vars PROVE CachedSubscribed'
  OBVIOUS
<1> USE ConnAssumption, SubscriberAssumption DEF Inv, TypeOK, CachedSubscribed, Unshared, SubKey
<1>1. ASSUME NEW c \in Conn, AgentNext(c) PROVE CachedSubscribed'
  BY <1>1 DEF AgentNext, Authenticate, ReEnroll, Register, AckFails, WireDrops,
    ReaderEnds, Unregister, browserVars
<1>2. ASSUME NEW w \in Socket, SocketOpens(w) PROVE CachedSubscribed'
  BY <1>2 DEF SocketOpens
<1>3. ASSUME NEW w \in Socket, SocketCloses(w) PROVE CachedSubscribed'
  BY <1>3 DEF SocketCloses
<1>4. ASSUME NEW w \in Socket, OpenSubscribes(w) PROVE CachedSubscribed'
  BY <1>4 DEF OpenSubscribes
<1>5. ASSUME NEW w \in Socket, NEW h \in Host,
             OpenRefused(w, h) \/ OpenOffline(w, h) \/ OpenLooksUp(w, h) \/ OpenEvicts(w, h)
      PROVE CachedSubscribed'
  <2>1. subs' = subs /\ cache' = Evict(w, h)
    BY <1>5 DEF OpenRefused, OpenOffline, OpenLooksUp, OpenEvicts
  <2> QED BY <2>1 DEF Evict
<1>6. ASSUME NEW r \in Rpc, RpcNext(r) PROVE CachedSubscribed'
  <2>1. cache' = cache
    BY <1>6 DEF RpcNext, RpcSubscribes, RpcReady, RpcAnswered, RpcTimesOut, RpcLooksUp, browserVars
  <2>2. subs' = subs \/ \E v : subs' = [subs EXCEPT ![rpcConn[r]][r] = v]
    BY <1>6 DEF RpcNext, RpcSubscribes, RpcReady, RpcAnswered, RpcTimesOut, RpcLooksUp
  <2>3. \A k \in Prefix : k # r /\ k \in SubKey
    BY <1>6
  <2>4. ASSUME NEW v, subs' = [subs EXCEPT ![rpcConn[r]][r] = v],
               NEW c \in Conn, NEW k \in Prefix
        PROVE  subs'[c][k] = subs[c][k]
    <3>1. CASE c = rpcConn[r]
      BY <2>3, <2>4, <3>1
    <3>2. CASE c # rpcConn[r]
      BY <2>4, <3>2
    <3> QED BY <3>1, <3>2
  <2>5. \A c \in Conn, k \in Prefix : subs'[c][k] = subs[c][k]
    BY <2>2, <2>4
  <2> QED BY <2>1, <2>5
<1>7. CASE UNCHANGED vars
  BY <1>7 DEF vars
<1> QED
  BY <1>1, <1>2, <1>3, <1>4, <1>5, <1>6, <1>7 DEF Next, SocketNext

LEMMA NextInv == Inv /\ [Next]_vars => Inv'
BY NextTypeOK, NextRegisteredIsServed, NextClones, NextCachedSubscribed DEF Inv

\* The inductive invariant holds throughout.
THEOREM Invariance == Spec => []Inv
BY InitInv, NextInv, PTL DEF Spec

-----------------------------------------------------------------------------

\* Type correctness.
THEOREM TypeCorrect == Spec => []TypeOK
BY Invariance, PTL DEF Inv

\* No dead host is listed as online: what the registry holds is being served.
THEOREM RegistryIsServed == Spec => []RegisteredIsServed
BY Invariance, PTL DEF Inv

\* The agent's answers reach the socket that uses a cached sender, whatever
\* reconnects, re-enrolments and calls happened in between.
THEOREM CacheIsSubscribed == Spec => []CachedIsSubscribed
<1>1. Inv => CachedIsSubscribed
  BY DEF Inv, CachedSubscribed, CachedIsSubscribed, ValidCached, Unshared
<1> QED BY <1>1, Invariance, PTL

-----------------------------------------------------------------------------

\* A call's own steps keep its subscription in step with its wait; nobody else
\* writes under its prefix, and a call that has not subscribed has none.
LEMMA NextCalls == Inv /\ CallsUnsubscribe /\ [Next]_vars => CallsUnsubscribe'
<1> SUFFICES ASSUME Inv, CallsUnsubscribe, [Next]_vars, NEW q \in Rpc
             PROVE  /\ Waiting(q)' => subs'[rpcConn'[q]][q] = q
                    /\ rpc'[q] # "timedOut" =>
                          \A c \in Conn : subs'[c][q] # NoSub => Waiting(q)' /\ rpcConn'[q] = c
  BY DEF CallsUnsubscribe
<1> USE ConnAssumption, SubscriberAssumption DEF Inv, TypeOK, Waiting, SubKey, RpcPhase
<1> DEFINE Goal == /\ Waiting(q)' => subs'[rpcConn'[q]][q] = q
                   /\ rpc'[q] # "timedOut" =>
                         \A c \in Conn : subs'[c][q] # NoSub => Waiting(q)' /\ rpcConn'[q] = c
<1>a. /\ Waiting(q) => subs[rpcConn[q]][q] = q
      /\ rpc[q] # "timedOut" =>
            \A c \in Conn : subs[c][q] # NoSub => Waiting(q) /\ rpcConn[q] = c
  BY DEF CallsUnsubscribe
<1>b. Waiting(q) \/ rpc[q] = "cloned" => rpcConn[q] \in Conn
  BY DEF RpcHoldsClone
<1>0. ASSUME rpc'[q] = rpc[q], rpcConn'[q] = rpcConn[q],
             \A c \in Conn : subs'[c][q] = subs[c][q]
      PROVE  Goal
  BY <1>0, <1>a, <1>b
<1>1. ASSUME NEW c \in Conn, AgentNext(c) PROVE Goal
  BY <1>0, <1>1 DEF AgentNext, Authenticate, ReEnroll, Register, AckFails, WireDrops,
    ReaderEnds, Unregister, rpcVars
<1>2. ASSUME NEW w \in Socket, SocketNext(w) PROVE Goal
  <2>1. rpc' = rpc /\ rpcConn' = rpcConn
    BY <1>2 DEF SocketNext, SocketOpens, SocketCloses, OpenSubscribes, OpenRefused,
      OpenOffline, OpenLooksUp, OpenEvicts, rpcVars
  <2>2. \/ subs' = subs
        \/ \E c \in Conn : subs' = [subs EXCEPT ![c][PrefixOf[w]] = w]
    BY <1>2 DEF SocketNext, SocketOpens, SocketCloses, OpenSubscribes, OpenRefused,
      OpenOffline, OpenLooksUp, OpenEvicts
  <2>3. PrefixOf[w] # q
    OBVIOUS
  <2> QED BY <1>0, <2>1, <2>2, <2>3
<1>3. ASSUME NEW r \in Rpc, RpcNext(r), r # q PROVE Goal
  <2>1. rpc'[q] = rpc[q] /\ rpcConn'[q] = rpcConn[q]
    BY <1>3 DEF RpcNext, RpcSubscribes, RpcReady, RpcAnswered, RpcTimesOut, RpcLooksUp,
      RpcMoves, RpcEnds
  <2>2. subs' = subs \/ \E v : subs' = [subs EXCEPT ![rpcConn[r]][r] = v]
    BY <1>3 DEF RpcNext, RpcSubscribes, RpcReady, RpcAnswered, RpcTimesOut, RpcLooksUp
  <2>3. \A c \in Conn : subs'[c][q] = subs[c][q]
    <3>1. CASE subs' = subs
      BY <3>1
    <3>2. ASSUME NEW v, subs' = [subs EXCEPT ![rpcConn[r]][r] = v], NEW c \in Conn
          PROVE  subs'[c][q] = subs[c][q]
      <4>1. CASE c = rpcConn[r]
        BY <1>3, <3>2, <4>1
      <4>2. CASE c # rpcConn[r]
        BY <3>2, <4>2
      <4> QED BY <4>1, <4>2
    <3> QED BY <2>2, <3>1, <3>2
  <2> QED BY <1>0, <2>1, <2>3
<1>4. CASE \E h \in Host : RpcLooksUp(q, h)
  BY <1>4, <1>a DEF RpcLooksUp, RpcMoves
<1>5. CASE RpcSubscribes(q)
  BY <1>5, <1>a, <1>b DEF RpcSubscribes, RpcMoves
<1>6. CASE RpcReady(q)
  BY <1>6, <1>a, <1>b DEF RpcReady, RpcMoves
<1>7. CASE RpcAnswered(q)
  BY <1>7, <1>a, <1>b DEF RpcAnswered, RpcMoves, RpcEnds
<1>8. CASE RpcTimesOut(q)
  BY <1>8 DEF RpcTimesOut, RpcMoves, RpcEnds
<1>9. CASE UNCHANGED vars
  BY <1>0, <1>9 DEF vars
<1> QED
  BY <1>1, <1>2, <1>3, <1>4, <1>5, <1>6, <1>7, <1>8, <1>9 DEF Next, RpcNext

\* A one-shot call is subscribed as long as it waits, across reconnects of its
\* host, and leaves nothing behind unless it timed out.
THEOREM CallsAreSubscribed == Spec => []CallsUnsubscribe
<1>1. Init => CallsUnsubscribe
  BY SubscriberAssumption DEF Init, CallsUnsubscribe, Waiting, SubKey
<1> QED BY <1>1, Invariance, NextCalls, PTL DEF Spec

-----------------------------------------------------------------------------

\* The registry implements HostPresence.
THEOREM RefinesHostPresence == Spec => ImplementsHostPresence
<1>1. Init => Presence!Init
  BY ConnAssumption DEF Init, Presence!Init, Registered
<1>2. ASSUME Inv, [Next]_vars
      PROVE  [Presence!Next]_(Presence!vars)
  <2> USE <1>2, ConnAssumption DEF Inv, TypeOK, RegisteredIsServed
  <2> DEFINE Retired == {c \in Registered : registry[HostOf[c]] # c}
  <2>1. ASSUME NEW c \in Conn, Register(c) PROVE Presence!Connect(HostOf[c], c)
    <3>0. c \notin Registered
      BY <2>1 DEF Register, Registered
    <3>1. Registered' = Registered \cup {c}
      <4>1. \A d \in Conn : phase'[d] = IF d = c THEN "serving" ELSE phase[d]
        BY <2>1 DEF Register
      <4> QED BY <4>1 DEF Registered
    <3>2. registry' = [registry EXCEPT ![HostOf[c]] = c]
      BY <2>1 DEF Register
    <3>3. \A g \in Host : registry[g] # c
      BY <3>0 DEF Registered
    <3>4. Retired' = Retired \cup ({registry[HostOf[c]]} \ {NoConn})
      <4>1. \A d \in Registered' : registry'[HostOf[d]] # d
              <=> d # c /\ (registry[HostOf[d]] # d \/ d = registry[HostOf[c]])
        BY <3>2 DEF Registered
      <4> QED BY <3>0, <3>1, <4>1 DEF Registered
    <3> QED BY <3>0, <3>2, <3>3, <3>4 DEF Presence!Connect, Registered
  <2>2. ASSUME NEW c \in Conn, registry' = [registry EXCEPT ![HostOf[c]] = NoConn],
               Registered' = Registered
        PROVE  [Presence!Disconnect(HostOf[c])]_(Presence!vars)
    <3>1. CASE registry[HostOf[c]] = NoConn
      <4>1. registry' = registry
        BY <2>2, <3>1, HostOf[c] \in Host
      <4> QED BY <2>2, <4>1 DEF Presence!vars
    <3>2. CASE registry[HostOf[c]] # NoConn
      <4>1. \A d \in Registered : registry'[HostOf[d]] # d
              <=> registry[HostOf[d]] # d \/ d = registry[HostOf[c]]
        BY <2>2 DEF Registered
      <4>2. registry[HostOf[c]] \in Registered
        BY <3>2 DEF Registered
      <4>3. Retired' = Retired \cup {registry[HostOf[c]]}
        BY <2>2, <4>1, <4>2
      <4> QED BY <2>2, <3>2, <4>3 DEF Presence!Disconnect
    <3> QED BY <3>1, <3>2
  <2>3. ASSUME registry' = registry, Registered' = Registered
        PROVE  UNCHANGED Presence!vars
    BY <2>3 DEF Presence!vars
  <2>4. ASSUME NEW c \in Conn, AgentNext(c) PROVE [Presence!Next]_(Presence!vars)
    <3>1. CASE Register(c)
      BY <2>1, <3>1 DEF Presence!Next
    <3>2. CASE ReEnroll(c) \/ Unregister(c)
      <4>1. registry' = [registry EXCEPT ![HostOf[c]] = NoConn]
        BY <3>2 DEF ReEnroll, Unregister
      <4>2. \A d \in Conn : phase'[d] \in {"serving", "leaving", "gone"}
                            <=> phase[d] \in {"serving", "leaving", "gone"}
        BY <3>2 DEF ReEnroll, Unregister
      <4>3. Registered' = Registered
        BY <4>2 DEF Registered
      <4> QED BY <2>2, <4>1, <4>3 DEF Presence!Next
    <3>3. CASE Authenticate(c) \/ AckFails(c) \/ WireDrops(c) \/ ReaderEnds(c)
      <4>1. registry' = registry
        BY <3>3 DEF Authenticate, AckFails, WireDrops, ReaderEnds
      <4>2. \A d \in Conn : phase'[d] \in {"serving", "leaving", "gone"}
                            <=> phase[d] \in {"serving", "leaving", "gone"}
        BY <3>3 DEF Authenticate, AckFails, WireDrops, ReaderEnds
      <4>3. Registered' = Registered
        BY <4>2 DEF Registered
      <4> QED BY <2>3, <4>1, <4>3
    <3> QED BY <2>4, <3>1, <3>2, <3>3 DEF AgentNext
  <2>5. ASSUME NEW w \in Socket, SocketNext(w) PROVE UNCHANGED Presence!vars
    <3>1. registry' = registry /\ Registered' = Registered
      BY <2>5 DEF SocketNext, SocketOpens, SocketCloses, OpenSubscribes, OpenRefused,
        OpenOffline, OpenLooksUp, OpenEvicts, agentVars, Registered
    <3> QED BY <2>3, <3>1
  <2>6. ASSUME NEW r \in Rpc, RpcNext(r) PROVE UNCHANGED Presence!vars
    <3>1. registry' = registry /\ Registered' = Registered
      BY <2>6 DEF RpcNext, RpcSubscribes, RpcReady, RpcAnswered, RpcTimesOut, RpcLooksUp,
        agentVars, Registered
    <3> QED BY <2>3, <3>1
  <2>7. CASE UNCHANGED vars
    <3>1. registry' = registry /\ Registered' = Registered
      BY <2>7 DEF vars, Registered
    <3> QED BY <2>3, <3>1
  <2> QED BY <1>2, <2>4, <2>5, <2>6, <2>7 DEF Next
<1> QED BY <1>1, <1>2, Invariance, PTL DEF Spec, ImplementsHostPresence, Presence!Spec

-----------------------------------------------------------------------------

\* A socket inside connect_session has room for the sender it is about to cache.
RoomForJoining ==
    \A w \in Socket : joining[w] # NoConn =>
        Cardinality(CachedHosts(w) \ {HostOf[joining[w]]}) < MaxRemoteAgents

LEMMA CachedHostsFinite ==
    ASSUME NEW w \in Socket, NEW S \in SUBSET CachedHosts(w)
    PROVE  /\ IsFiniteSet(S) /\ Cardinality(S) \in Nat
           /\ Cardinality(S) <= Cardinality(CachedHosts(w))
           /\ Cardinality(CachedHosts(w)) \in Nat
<1>1. IsFiniteSet(CachedHosts(w))
  BY LimitAssumption, FS_Subset DEF CachedHosts
<1> QED BY <1>1, FS_Subset, FS_CardinalityType

\* Joining and caching keep the limit: the entry of the joined host was evicted
\* before the limit was tested, and no other is added while the socket waits.
LEMMA NextWithinLimit ==
    Inv /\ CacheBounded /\ RoomForJoining /\ [Next]_vars
    => (CacheBounded /\ RoomForJoining)'
<1> SUFFICES ASSUME Inv, CacheBounded, RoomForJoining, [Next]_vars,
                    NEW v \in Socket
             PROVE  /\ Cardinality(CachedHosts(v)') <= MaxRemoteAgents
                    /\ joining'[v] # NoConn =>
                        Cardinality(CachedHosts(v)' \ {HostOf[joining'[v]]}) < MaxRemoteAgents
  BY DEF CacheBounded, RoomForJoining
<1> USE ConnAssumption, LimitAssumption DEF Inv, TypeOK
<1> DEFINE Goal == /\ Cardinality(CachedHosts(v)') <= MaxRemoteAgents
                   /\ joining'[v] # NoConn =>
                       Cardinality(CachedHosts(v)' \ {HostOf[joining'[v]]}) < MaxRemoteAgents
<1>a. Cardinality(CachedHosts(v)) <= MaxRemoteAgents
  BY DEF CacheBounded
<1>b. joining[v] # NoConn =>
        Cardinality(CachedHosts(v) \ {HostOf[joining[v]]}) < MaxRemoteAgents
  BY DEF RoomForJoining
<1>1. ASSUME cache'[v] = cache[v], joining'[v] = joining[v] PROVE Goal
  <2>1. CachedHosts(v)' = CachedHosts(v)
    BY <1>1 DEF CachedHosts
  <2> QED BY <1>1, <1>a, <1>b, <2>1
<1>2. ASSUME NEW c \in Conn, AgentNext(c) PROVE Goal
  BY <1>1, <1>2 DEF AgentNext, Authenticate, ReEnroll, Register, AckFails, WireDrops,
    ReaderEnds, Unregister, browserVars
<1>3. ASSUME NEW r \in Rpc, RpcNext(r) PROVE Goal
  BY <1>1, <1>3 DEF RpcNext, RpcSubscribes, RpcReady, RpcAnswered, RpcTimesOut, RpcLooksUp, browserVars
<1>4. ASSUME NEW w \in Socket, SocketNext(w), w # v PROVE Goal
  <2>1. cache'[v] = cache[v] /\ joining'[v] = joining[v]
    BY <1>4 DEF SocketNext, SocketOpens, SocketCloses, OpenSubscribes, OpenRefused,
      OpenOffline, OpenLooksUp, OpenEvicts, Evict
  <2> QED BY <2>1, <1>1
<1>5. CASE SocketOpens(v)
  BY <1>1, <1>5 DEF SocketOpens
<1>6. ASSUME joining'[v] = NoConn, CachedHosts(v)' \subseteq CachedHosts(v) PROVE Goal
  <2>1. Cardinality(CachedHosts(v)') <= Cardinality(CachedHosts(v))
    BY <1>6, CachedHostsFinite
  <2>2. /\ Cardinality(CachedHosts(v)) \in Nat
        /\ Cardinality(CachedHosts(v)') \in Nat
    BY <1>6, CachedHostsFinite
  <2> QED BY <1>6, <1>a, <2>1, <2>2
<1>7. CASE SocketCloses(v)
  BY <1>6, <1>7 DEF SocketCloses, Ready, CachedHosts
<1>8. ASSUME NEW h \in Host, OpenRefused(v, h) \/ OpenOffline(v, h) \/ OpenEvicts(v, h) PROVE Goal
  <2>1. joining'[v] = NoConn /\ cache' = Evict(v, h)
    BY <1>8 DEF OpenRefused, OpenOffline, OpenEvicts, Ready
  <2>2. CachedHosts(v)' \subseteq CachedHosts(v)
    BY <2>1 DEF Evict, CachedHosts
  <2> QED BY <1>6, <2>1, <2>2
<1>9. ASSUME NEW h \in Host, OpenLooksUp(v, h) PROVE Goal
  <2>1. CachedHosts(v)' = CachedHosts(v) \ {h}
    BY <1>9 DEF OpenLooksUp, Evict, CachedHosts
  <2>2. joining'[v] = registry[h] /\ HostOf[registry[h]] = h
    BY <1>9 DEF OpenLooksUp, RegisteredIsServed
  <2>3. Cardinality(CachedHosts(v) \ {h}) < MaxRemoteAgents
    BY <1>9 DEF OpenLooksUp
  <2>4. (CachedHosts(v) \ {h}) \ {h} = CachedHosts(v) \ {h}
    OBVIOUS
  <2>5. Cardinality(CachedHosts(v) \ {h}) \in Nat
    BY CachedHostsFinite
  <2>6. Cardinality(CachedHosts(v)') <= MaxRemoteAgents
    BY <2>1, <2>3, <2>5
  <2>7. CachedHosts(v)' \ {HostOf[joining'[v]]} = CachedHosts(v) \ {h}
    BY <2>1, <2>2, <2>4
  <2> QED BY <2>3, <2>6, <2>7
<1>10. CASE OpenSubscribes(v)
  <2> DEFINE g == HostOf[joining[v]]
             S == CachedHosts(v) \ {g}
  <2>1. joining[v] \in Conn /\ g \in Host /\ joining'[v] = NoConn
    BY <1>10 DEF OpenSubscribes
  <2>2. cache' = [cache EXCEPT ![v][g] = joining[v]]
    BY <1>10 DEF OpenSubscribes
  <2>3. CachedHosts(v)' = S \cup {g}
    BY <2>1, <2>2 DEF CachedHosts
  <2>4. IsFiniteSet(S) /\ Cardinality(S) \in Nat
    BY CachedHostsFinite
  <2>5. Cardinality(S \cup {g}) = Cardinality(S) + 1
    BY <2>4, FS_AddElement
  <2> QED BY <2>1, <2>3, <2>4, <2>5, <1>b
<1>11. CASE UNCHANGED vars
  BY <1>1, <1>11 DEF vars
<1>12. CASE SocketNext(v)
  BY <1>5, <1>7, <1>8, <1>9, <1>10, <1>12 DEF SocketNext
<1> QED
  BY <1>2, <1>3, <1>4, <1>11, <1>12 DEF Next

\* A socket never caches more senders than MAX_REMOTE_AGENTS.
THEOREM CacheIsBounded == Spec => []CacheBounded
<1>1. Init => CacheBounded /\ RoomForJoining
  <2> SUFFICES ASSUME Init PROVE CacheBounded /\ RoomForJoining
    OBVIOUS
  <2>1. \A w \in Socket : CachedHosts(w) = {}
    BY DEF Init, CachedHosts
  <2>2. Cardinality({}) = 0
    BY FS_EmptySet
  <2>3. \A w \in Socket : Cardinality(CachedHosts(w)) = 0
    BY <2>1, <2>2
  <2>4. CacheBounded
    BY <2>3, LimitAssumption DEF CacheBounded
  <2> QED BY <2>4 DEF Init, RoomForJoining
<1> QED BY <1>1, Invariance, NextWithinLimit, PTL DEF Spec

=============================================================================
