--------------------------- MODULE MachinesProofs ---------------------------
(***************************************************************************)
(* Safety of the parts of Machines for any constants.  A step of Machines  *)
(* is a step of one part, which leaves the variables of the others alone   *)
(* (the lemmas named ...Steps), so each part has an invariant of its own.  *)
(* Here are those of the command runner, the agent's identity and the      *)
(* login limiter, and the types of all parts together.                     *)
(***************************************************************************)
EXTENDS ChangeProofs

-----------------------------------------------------------------------------
(* The command runner. *)

\* The group dies with its leader's last chance: once it was killed nothing is left to start a
\* process in it.
CommandInv ==
    /\ "leader" \in alive => "leader" \in pgroup
    /\ timedOut => call = "answered"
    /\ call = "reap" \/ timedOut => pgroup = {}

\* A step of Machines is one of the command runner or leaves it alone.
LEMMA CommandSteps ==
    [Next]_machineVars => CommandNext \/ UNCHANGED commandVars
<1>1. ASSUME NEW p, p # "command", On(p) PROVE UNCHANGED commandVars
  BY <1>1 DEF On, Leaves
<1>2. ASSUME UNCHANGED machineVars PROVE UNCHANGED commandVars
  BY <1>2 DEF machineVars, commandRunnerVars
<1>3. ASSUME Next PROVE CommandNext \/ UNCHANGED commandVars
  BY <1>1, <1>3 DEF Next
<1> QED
  BY <1>2, <1>3

\* The processes of the group run, and the counters keep their bounds.
THEOREM CommandTyped == Spec => []CommandTypeOK
<1>1. Init => CommandTypeOK
  <2> SUFFICES ASSUME CommandInit PROVE CommandTypeOK
    BY DEF Init
  <2>1. kept \in [Pipe -> 0..Cap]
    BY CapAssumption DEF CommandInit
  <2> QED
    BY <2>1 DEF CommandInit, CommandTypeOK
<1>2. CommandTypeOK /\ [Next]_machineVars => CommandTypeOK'
  <2> SUFFICES ASSUME CommandTypeOK, CommandNext \/ UNCHANGED commandVars PROVE CommandTypeOK'
    BY CommandSteps
  <2> USE CapAssumption DEF CommandTypeOK, Process
  <2>1. ASSUME Spawn \/ Reaped PROVE CommandTypeOK'
    <3>1. kept' \in [Pipe -> 0..Cap]
      BY <2>1 DEF Spawn, Reaped
    <3> QED
      BY <2>1, <3>1 DEF Spawn, Reaped
  <2>7. CASE Collected \/ Finished \/ Timeout \/ Kill
    BY <2>7 DEF Collected, Finished, Timeout, Kill, Dies
  <2>2. CASE Fork
    BY <2>2 DEF Fork
  <2>3. CASE CloseOutput
    BY <2>3 DEF CloseOutput
  <2>4. ASSUME NEW q \in Process, Exit(q) \/ WriteClosed(q) PROVE CommandTypeOK'
    BY <2>4 DEF Exit, WriteClosed, Dies
  <2>5. ASSUME NEW q \in Process, NEW p \in Pipe, Write(q, p) PROVE CommandTypeOK'
    BY <2>5 DEF Write
  <2>6. CASE UNCHANGED commandVars
    BY <2>6 DEF commandVars
  <2> QED
    BY <2>1, <2>2, <2>3, <2>4, <2>5, <2>6, <2>7 DEF CommandNext, Agent
<1> QED
  BY <1>1, <1>2, PTL DEF Spec

\* Nothing of a timed-out command's group survives its answer: the kill of the whole group in
\* wait_capped_with.
THEOREM TimedOutGone == Spec => []TimedOutIsGone
<1>1. Init => CommandInv
  BY DEF Init, CommandInit, CommandInv
<1>2. CommandTypeOK /\ CommandInv /\ [Next]_machineVars => CommandInv'
  <2> SUFFICES ASSUME CommandTypeOK, CommandInv, CommandNext \/ UNCHANGED commandVars
               PROVE CommandInv'
    BY CommandSteps
  <2> USE DEF CommandInv, CommandTypeOK, Process
  <2>1. CASE Agent
    BY <2>1 DEF Agent, Spawn, Collected, Finished, Timeout, Kill, Reaped, Dies
  <2>2. CASE Fork
    BY <2>2 DEF Fork
  <2>3. CASE CloseOutput
    BY <2>3 DEF CloseOutput
  <2>4. ASSUME NEW q \in Process, Exit(q) \/ WriteClosed(q) PROVE CommandInv'
    BY <2>4 DEF Exit, WriteClosed, Dies
  <2>5. ASSUME NEW q \in Process, NEW p \in Pipe, Write(q, p) PROVE CommandInv'
    BY <2>5 DEF Write
  <2>6. CASE UNCHANGED commandVars
    BY <2>6 DEF commandVars
  <2> QED
    BY <2>1, <2>2, <2>3, <2>4, <2>5, <2>6 DEF CommandNext
<1>3. CommandInv => TimedOutIsGone
  BY DEF CommandInv, TimedOutIsGone
<1> QED
  BY <1>1, <1>2, <1>3, CommandTyped, PTL DEF Spec

-----------------------------------------------------------------------------
(* The binding of an agent to its gateway, for any gateways and ids.       *)
(* PinMatches says nothing of an agent on its way to a signature, nor of a *)
(* gateway that is writing its id: GatewayInv and AgentInv do.  OwnIds     *)
(* is what the drawing of uuids gives.                                     *)

\* A gateway goes by the id on its disk, except while it writes a new one.
GatewayInv ==
    \A g \in Gateway :
        /\ gateway[g] = "writing" => idFile[g] = "empty" /\ gatewayId[g] \in GatewayId
        /\ gateway[g] = "up" => idFile[g] \in GatewayId /\ gatewayId[g] = idFile[g]

\* A gateway's id is one that it has generated, so no other has it.
OwnIds ==
    \A g \in Gateway :
        /\ gatewayId[g] \in GatewayId => drawn[gatewayId[g]] = g
        /\ idFile[g] \in GatewayId => drawn[idFile[g]] = g

\* What the agent has seen of its gateway is that gateway's and, unless it was misread, on its disk;
\* and the pin agrees before anything is signed.
AgentInv ==
    /\ agent \in {"check", "pin", "sign"} =>
            /\ challenge \in GatewayId /\ drawn[challenge] = peer
            /\ peer \notin misread => idFile[peer] = challenge
    /\ agent = "pin" => pinFile = "empty"
    /\ agent = "sign" => pinFile = challenge

\* The pin is an id of every gateway that was answered and, unless it was misread, on its disk.
SignedInv ==
    \A g \in signed :
        /\ pinFile \in GatewayId /\ drawn[pinFile] = g
        /\ g \notin misread => pinFile = idFile[g]

IdentityInv == IdentityTypeOK /\ GatewayInv /\ OwnIds /\ AgentInv /\ SignedInv

-----------------------------------------------------------------------------

\* A step of Machines is one of the agent or a gateway, or leaves them alone.
LEMMA IdentitySteps ==
    [Next]_machineVars => IdentityNext \/ UNCHANGED identityState
<1>1. ASSUME NEW p, p # "identity", On(p) PROVE UNCHANGED identityState
  BY <1>1 DEF On, Leaves
<1>2. ASSUME UNCHANGED machineVars PROVE UNCHANGED identityState
  BY <1>2 DEF machineVars, identityVars
<1>3. ASSUME Next PROVE IdentityNext \/ UNCHANGED identityState
  BY <1>1, <1>3 DEF Next
<1> QED
  BY <1>2, <1>3

\* Nothing is drawn, pinned or signed yet.
LEMMA IdentityStarts == Init => IdentityInv
<1> SUFFICES ASSUME IdentityInit PROVE IdentityInv
  BY DEF Init
<1>1. IdentityTypeOK
  BY IdentityAssumption DEF IdentityInit, IdentityTypeOK
<1> QED
  BY <1>1, IdentityAssumption
  DEF IdentityInit, IdentityInv, GatewayInv, OwnIds, AgentInv, SignedInv

\* A gateway that starts or saves touches no id but its own, which no other gateway has.
LEMMA GatewayStep ==
    ASSUME IdentityInv, NEW g \in Gateway,
           GatewayStartsNew(g) \/ GatewaySavesId(g) \/ GatewayLoadsId(g) \/ GatewayDies(g)
    PROVE  IdentityInv'
<1> USE IdentityAssumption DEF IdentityInv, agentVars
<1>1. IdentityTypeOK'
  BY DEF IdentityTypeOK, GatewayStartsNew, Draws, GatewaySavesId, GatewayLoadsId, GatewayDies, GatewayInv
<1>2. GatewayInv'
  BY DEF IdentityTypeOK, GatewayStartsNew, Draws, GatewaySavesId, GatewayLoadsId, GatewayDies, GatewayInv
<1>3. OwnIds'
  <2> USE DEF IdentityTypeOK, OwnIds, GatewayInv
  <2>1. CASE GatewayStartsNew(g)
    BY <2>1 DEF GatewayStartsNew, Draws
  <2>2. CASE GatewaySavesId(g)
    BY <2>2 DEF GatewaySavesId
  <2>3. CASE GatewayLoadsId(g)
    BY <2>3 DEF GatewayLoadsId
  <2>4. CASE GatewayDies(g)
    BY <2>4 DEF GatewayDies
  <2> QED
    BY <2>1, <2>2, <2>3, <2>4
<1>4. /\ \A h \in Gateway : idFile[h] \in GatewayId => h \in misread' \/ idFile'[h] = idFile[h]
      /\ \A id \in GatewayId : drawn[id] # "none" => drawn'[id] = drawn[id]
      /\ misread \subseteq misread'
  BY DEF IdentityTypeOK, GatewayStartsNew, Draws, GatewaySavesId, GatewayLoadsId, GatewayDies, GatewayInv
<1>5. AgentInv' /\ SignedInv'
  <2>1. /\ UNCHANGED <<pinFile, peer, challenge, signed>>
        /\ agent' = agent \/ agent' = "ready"
    BY DEF GatewayStartsNew, GatewaySavesId, GatewayLoadsId, GatewayDies
  <2>2. \A h \in Gateway : h # "none"
    OBVIOUS
  <2>3. AgentInv'
    BY <1>4, <2>1, <2>2 DEF IdentityTypeOK, AgentInv
  <2>4. SignedInv'
    BY <1>4, <2>1, <2>2 DEF IdentityTypeOK, SignedInv
  <2> QED
    BY <2>3, <2>4
<1> QED
  BY <1>1, <1>2, <1>3, <1>5

\* The agent's steps leave the gateways alone.
LEMMA AgentStep ==
    ASSUME IdentityInv,
           \/ \E g \in Gateway : AgentConnects(g)
           \/ AgentStarts \/ AgentSavesKey \/ AgentIsChallenged \/ AgentChecks \/ AgentPins
           \/ AgentSigns \/ SessionEnds \/ AgentDies
    PROVE  IdentityInv'
<1> USE IdentityAssumption DEF IdentityInv, gatewayVars
<1> USE DEF AgentConnects, AgentStarts, AgentSavesKey, AgentIsChallenged, AgentChecks, AgentPins,
            AgentSigns, SessionEnds, AgentDies, AgentGoes
<1>1. IdentityTypeOK'
  <2> USE DEF IdentityTypeOK
  <2>1. CASE AgentIsChallenged \/ AgentChecks \/ AgentPins
    <3>1. challenge' \in GatewayId \cup {"none"} /\ pinFile' \in {"missing", "empty"} \cup GatewayId
      BY <2>1 DEF AgentInv
    <3> QED
      BY <2>1, <3>1
  <2>2. CASE AgentStarts \/ AgentSavesKey \/ AgentSigns \/ SessionEnds \/ AgentDies
    BY <2>2
  <2>3. ASSUME NEW g \in Gateway, AgentConnects(g) PROVE IdentityTypeOK'
    BY <2>3
  <2> QED
    BY <2>1, <2>2, <2>3
<1>2. GatewayInv' /\ OwnIds'
  BY DEF GatewayInv, OwnIds
<1>3. AgentInv'
  <2> USE DEF IdentityTypeOK, AgentInv, GatewayInv
  <2>1. CASE AgentIsChallenged
    BY <2>1 DEF OwnIds
  <2>2. CASE AgentChecks \/ AgentPins
    BY <2>2
  <2>3. CASE AgentStarts \/ AgentSavesKey \/ AgentSigns \/ SessionEnds \/ AgentDies
    BY <2>3
  <2>4. ASSUME NEW g \in Gateway, AgentConnects(g) PROVE AgentInv'
    BY <2>4
  <2> QED
    BY <2>1, <2>2, <2>3, <2>4
<1>4. SignedInv'
  BY DEF IdentityTypeOK, AgentInv, SignedInv
<1> QED
  BY <1>1, <1>2, <1>3, <1>4

\* The invariant of agent and gateways, which contains their types.
LEMMA IdentityInvariant == Spec => []IdentityInv
<1>1. IdentityInv /\ [Next]_machineVars => IdentityInv'
  <2> SUFFICES ASSUME IdentityInv, IdentityNext \/ UNCHANGED identityState PROVE IdentityInv'
    BY IdentitySteps
  <2>1. CASE IdentityNext
    BY <2>1, GatewayStep, AgentStep DEF IdentityNext
  <2>2. CASE UNCHANGED identityState
    BY <2>2 DEF identityState, agentVars, gatewayVars, IdentityInv, IdentityTypeOK, GatewayInv, OwnIds,
                AgentInv, SignedInv
  <2> QED
    BY <2>1, <2>2
<1> QED
  BY <1>1, IdentityStarts, PTL DEF Spec

\* An agent answers one gateway in its life, and its pin is that gateway's id, across crashes of
\* both at any point of writing their files; a gateway that failed to read its id has lost it, but
\* the agent answers no other for that.
THEOREM AgentIsPinned == Spec => []PinMatches
<1>1. IdentityInv => PinMatches
  <2> SUFFICES ASSUME IdentityInv, NEW g \in signed
               PROVE  /\ signed = {g}
                      /\ g \notin misread => /\ pinFile = idFile[g]
                                             /\ gateway[g] = "up" => gatewayId[g] = pinFile
    BY DEF PinMatches
  <2>1. g \in Gateway
    BY DEF IdentityInv, IdentityTypeOK
  <2>2. ASSUME NEW h \in signed PROVE h = g
    BY DEF IdentityInv, SignedInv
  <2> QED
    BY <2>1, <2>2 DEF IdentityInv, GatewayInv, SignedInv
<1> QED
  BY <1>1, IdentityInvariant, PTL

-----------------------------------------------------------------------------
(* The login limiter. *)

Count == [Age -> Nat]

\* The logins that wait for PAM.
Waiting == {q \in Request : login[q] = "pam"}

\* The entries of the latest k ticks.
Upto(count, k) == Cardinality({r \in Entries(count) : r[1] <= k})

\* Each failure that is recorded may be followed by one of every other request that was waiting
\* for PAM when the limit was met; those that still wait are counted as if they had failed.
LimiterInv ==
    /\ login \in [Request -> {"idle", "pam", "in"}] /\ attempts \in Count /\ failed \in Count
    /\ Total(attempts) <= MaxAttempts
    /\ Limited => Cardinality(Waiting) < Cardinality(Request)
    /\ \A k \in Age : Upto(failed, k) + (IF Limited THEN Cardinality(Waiting) ELSE 0)
                        < (Upto(attempts, k) + 1) * Cardinality(Request)

\* The list is finite, and so is what is counted of it.
LEMMA EntriesFinite ==
    ASSUME NEW count \in Count
    PROVE  /\ IsFiniteSet(Entries(count)) /\ Total(count) \in Nat
           /\ \A k : Upto(count, k) \in Nat
<1>1. IsFiniteSet(Age)
  BY LimiterAssumption, FS_Interval DEF Age
<1>2. ASSUME NEW a \in Age PROVE IsFiniteSet({a} \X (1..count[a]))
  <2>1. count[a] \in Int /\ 1 \in Int
    BY DEF Count
  <2> QED
    BY <2>1, FS_Interval, FS_Singleton, FS_Product
<1> DEFINE parts == {{a} \X (1..count[a]) : a \in Age}
<1>3. IsFiniteSet(parts)
  <2> DEFINE f == [a \in Age |-> {a} \X (1..count[a])]
  <2>1. f \in Surjection(Age, parts)
    BY DEF Surjection
  <2> QED
    BY <1>1, <2>1, FS_Surjection
<1>4. IsFiniteSet(Entries(count))
  <2>1. \A T \in parts : IsFiniteSet(T)
    BY <1>2
  <2> HIDE DEF parts
  <2>2. IsFiniteSet(UNION parts)
    BY <1>3, <2>1, FS_UNION
  <2> QED
    BY <2>2 DEF parts, Entries
<1>5. ASSUME NEW k PROVE Upto(count, k) \in Nat
  <2>1. {r \in Entries(count) : r[1] <= k} \in SUBSET Entries(count)
    OBVIOUS
  <2> QED
    BY <1>4, <2>1, FS_Subset, FS_CardinalityType DEF Upto
<1> QED
  BY <1>4, <1>5, FS_CardinalityType DEF Total

\* What is in the list.
LEMMA EntriesAre ==
    ASSUME NEW count \in Count
    PROVE  /\ \A a, n : <<a, n>> \in Entries(count) <=> a \in Age /\ n \in 1..count[a]
           /\ \A r \in Entries(count) : r = <<r[1], r[2]>> /\ r[1] \in Age
BY DEF Entries

\* A failure now adds one to every count.
LEMMA Recorded ==
    ASSUME NEW count \in Count, NEW k \in Age
    PROVE  LET more == [count EXCEPT ![0] = @ + 1] IN
           /\ more \in Count
           /\ Total(more) = Total(count) + 1
           /\ Upto(more, k) = Upto(count, k) + 1
<1> DEFINE more == [count EXCEPT ![0] = @ + 1]
           e    == <<0, count[0] + 1>>
<1>1. 0 \in Age /\ count[0] \in Nat /\ k \in Nat
  BY LimiterAssumption DEF Age, Count
<1>2. more \in Count
  BY <1>1 DEF Count
<1>3. Entries(more) = Entries(count) \cup {e} /\ e \notin Entries(count)
  <2>1. \A a \in Age : more[a] = IF a = 0 THEN count[a] + 1 ELSE count[a]
    BY <1>1 DEF Count
  <2>2. 1..(count[0] + 1) = 1..count[0] \cup {count[0] + 1}
    BY <1>1
  <2>3. ASSUME NEW r PROVE r \in Entries(more) <=> r \in Entries(count) \cup {e}
    <3>1. \A a, n : <<a, n>> \in Entries(more) <=> <<a, n>> \in Entries(count) \cup {e}
      <4>1. ASSUME NEW a, NEW n
            PROVE  <<a, n>> \in Entries(more) <=> <<a, n>> \in Entries(count) \/ <<a, n>> = e
        <5>1. <<a, n>> \in Entries(more) <=> a \in Age /\ n \in 1..more[a]
          <6> HIDE DEF more
          <6> QED
            BY <1>2, EntriesAre
        <5>2. <<a, n>> \in Entries(count) <=> a \in Age /\ n \in 1..count[a]
          BY EntriesAre
        <5> QED
          BY <1>1, <2>1, <2>2, <5>1, <5>2
      <4> QED
        BY <4>1
    <3>2. r \in Entries(more) => r = <<r[1], r[2]>>
      BY <1>2, EntriesAre
    <3>3. r \in Entries(count) \cup {e} => r = <<r[1], r[2]>>
      BY EntriesAre
    <3> QED
      BY <3>1, <3>2, <3>3
  <2>4. e \notin Entries(count)
    BY <1>1, EntriesAre
  <2> QED
    BY <2>3, <2>4
<1>4. {r \in Entries(more) : r[1] <= k} = {r \in Entries(count) : r[1] <= k} \cup {e}
  <2>1. e[1] <= k
    BY <1>1
  <2> HIDE DEF e, more
  <2> QED
    BY <1>3, <2>1
<1>5. IsFiniteSet(Entries(count)) /\ IsFiniteSet({r \in Entries(count) : r[1] <= k})
  <2>1. {r \in Entries(count) : r[1] <= k} \in SUBSET Entries(count)
    OBVIOUS
  <2> QED
    BY <2>1, EntriesFinite, FS_Subset
<1> HIDE DEF more, e
<1>6. Total(more) = Total(count) + 1
  BY <1>3, <1>5, FS_AddElement DEF Total
<1>7. Upto(more, k) = Upto(count, k) + 1
  BY <1>3, <1>4, <1>5, FS_AddElement DEF Upto
<1> QED
  BY <1>2, <1>6, <1>7 DEF more

\* A tick moves every entry one age on and drops the oldest.
LEMMA Aged ==
    ASSUME NEW count \in Count, NEW k \in Age
    PROVE  /\ Older(count) \in Count
           /\ Upto(Older(count), k) = IF k = 0 THEN 0 ELSE Upto(count, k - 1)
<1> DEFINE now  == {r \in Entries(Older(count)) : r[1] <= k}
           then == {r \in Entries(count) : r[1] <= k - 1}
<1>1. Age = 0..Window - 1 /\ k \in Nat /\ Window \in Nat
  BY LimiterAssumption DEF Age
<1>2. Older(count) \in Count /\ \A a \in Age : Older(count)[a] = IF a = 0 THEN 0 ELSE count[a - 1]
  BY <1>1 DEF Count, Older
<1>3. /\ \A a, n : <<a, n>> \in now <=> a \in 1..k /\ n \in 1..count[a - 1]
      /\ \A r \in now : r = <<r[1], r[2]>>
  <2>1. \A a, n : <<a, n>> \in Entries(Older(count)) <=> a \in Age /\ n \in 1..Older(count)[a]
    BY <1>2, EntriesAre
  <2>2. \A a \in Age : \A n : <<a, n>> \in now <=> a <= k /\ n \in 1..(IF a = 0 THEN 0 ELSE count[a - 1])
    BY <1>2, <2>1
  <2>3. \A r \in now : r = <<r[1], r[2]>> /\ r[1] \in Age
    BY <1>2, EntriesAre
  <2>4. \A a, n : <<a, n>> \in now => a \in Age
    BY <2>1
  <2> HIDE DEF now
  <2> QED
    BY <1>1, <2>2, <2>3, <2>4
<1>4. /\ \A a, n : <<a, n>> \in then <=> a \in 0..k - 1 /\ n \in 1..count[a]
      /\ \A r \in then : r = <<r[1], r[2]>>
  BY <1>1, EntriesAre
<1>5. CASE k = 0
  <2>1. now = {}
    BY <1>3, <1>5
  <2> QED
    BY <1>2, <1>5, <2>1, FS_EmptySet DEF Upto
<1>6. CASE k # 0
  <2> DEFINE f == [r \in then |-> <<r[1] + 1, r[2]>>]
  <2> HIDE DEF now, then
  <2>1. ASSUME NEW r \in then PROVE f[r] \in now /\ r[1] \in Int
    <3>1. r[1] \in 0..k - 1 /\ r[2] \in 1..count[r[1]]
      BY <1>4
    <3>2. r[1] + 1 \in 1..k /\ (r[1] + 1) - 1 = r[1]
      BY <1>1, <3>1
    <3>3. r[1] \in Int
      BY <1>1, <3>1
    <3> QED
      BY <1>3, <3>1, <3>2, <3>3
  <2>2. ASSUME NEW r \in now PROVE \E s \in then : f[s] = r
    <3>1. r = <<r[1], r[2]>> /\ r[1] \in 1..k /\ r[2] \in 1..count[r[1] - 1]
      BY <1>3
    <3>2. r[1] - 1 \in 0..k - 1 /\ (r[1] - 1) + 1 = r[1]
      BY <1>1, <3>1
    <3>3. <<r[1] - 1, r[2]>> \in then
      BY <1>4, <3>1, <3>2
    <3>4. f[<<r[1] - 1, r[2]>>] = r
      BY <3>1, <3>2, <3>3
    <3> QED
      BY <3>3, <3>4
  <2>3. ASSUME NEW r \in then, NEW s \in then, f[r] = f[s] PROVE r = s
    <3>1. r[1] + 1 = s[1] + 1 /\ r[2] = s[2]
      BY <2>3
    <3>2. r[1] = s[1]
      <4>1. r[1] \in Int /\ s[1] \in Int
        BY <2>1
      <4> QED
        BY <3>1, <4>1
    <3> QED
      BY <1>4, <3>1, <3>2
  <2>4. f \in Bijection(then, now)
    <3>1. f \in [then -> now]
      BY <2>1
    <3> HIDE DEF f
    <3>2. f \in Injection(then, now)
      BY <2>3, <3>1 DEF Injection, IsInjective
    <3>3. f \in Surjection(then, now)
      BY <2>2, <3>1 DEF Surjection
    <3> QED
      BY <3>2, <3>3 DEF Bijection
  <2>5. IsFiniteSet(then)
    <3>1. then \in SUBSET Entries(count)
      BY DEF then
    <3> QED
      BY <3>1, EntriesFinite, FS_Subset
  <2>6. Cardinality(now) = Cardinality(then)
    BY <2>4, <2>5, FS_Bijection DEF ExistsBijection
  <2> QED
    BY <1>2, <1>6, <2>6 DEF Upto, now, then
<1> QED
  BY <1>5, <1>6

\* The whole list is that of the longest time, and a shorter time has less of it.
LEMMA Whole ==
    ASSUME NEW count \in Count
    PROVE  /\ Window - 1 \in Age /\ Total(count) = Upto(count, Window - 1)
           /\ \A k \in Age : Upto(count, k) <= Total(count)
<1>1. \A r \in Entries(count) : r[1] \in Age /\ r[1] <= Window - 1
  BY LimiterAssumption, EntriesAre DEF Age
<1>2. {r \in Entries(count) : r[1] <= Window - 1} = Entries(count)
  BY <1>1
<1>3. ASSUME NEW k \in Age PROVE Upto(count, k) <= Total(count)
  <2>1. {r \in Entries(count) : r[1] <= k} \in SUBSET Entries(count)
    OBVIOUS
  <2> QED
    BY <2>1, EntriesFinite, FS_Subset DEF Upto, Total
<1> QED
  BY <1>2, <1>3, LimiterAssumption DEF Upto, Total, Age

\* Not everyone waits unless everyone may, and who is answered or leaves waits no more.
LEMMA WaitingFinite ==
    /\ Cardinality(Request) \in Nat \ {0}
    /\ Cardinality(Waiting) \in Nat /\ Cardinality(Waiting) <= Cardinality(Request)
    /\ \A q \in Request : Cardinality(Waiting \ {q}) <= Cardinality(Waiting)
    /\ \A q \in Waiting : Cardinality(Waiting \ {q}) = Cardinality(Waiting) - 1
<1>1. IsFiniteSet(Request) /\ Cardinality(Request) \in Nat \ {0}
  BY LimiterAssumption, FS_CardinalityType, FS_EmptySet
<1>2. IsFiniteSet(Waiting) /\ Cardinality(Waiting) <= Cardinality(Request)
  BY <1>1, FS_Subset DEF Waiting
<1>3. Cardinality(Waiting) \in Nat
  BY <1>2, FS_CardinalityType
<1>4. ASSUME NEW q
      PROVE  Cardinality(Waiting \ {q}) = IF q \in Waiting THEN Cardinality(Waiting) - 1
                                          ELSE Cardinality(Waiting)
  BY <1>2, FS_RemoveElement
<1> QED
  BY <1>1, <1>2, <1>3, <1>4

\* A step of Machines is one of the limiter or leaves it alone.
LEMMA LimiterSteps ==
    [Next]_machineVars => LimiterNext \/ UNCHANGED limiterState
<1>1. ASSUME NEW p, p # "login", On(p) PROVE UNCHANGED limiterState
  BY <1>1 DEF On, Leaves
<1>2. ASSUME UNCHANGED machineVars PROVE UNCHANGED limiterState
  BY <1>2 DEF machineVars, limiterVars
<1>3. ASSUME Next PROVE LimiterNext \/ UNCHANGED limiterState
  BY <1>1, <1>3 DEF Next
<1> QED
  BY <1>2, <1>3

LEMMA LimiterInitInv == Init => LimiterInv
<1> SUFFICES ASSUME LimiterInit PROVE LimiterInv
  BY DEF Init
<1> DEFINE none == [a \in Age |-> 0]
<1>1. none \in Count /\ attempts = none /\ failed = none /\ Waiting = {}
  BY DEF LimiterInit, Count, Waiting
<1>2. Entries(none) = {}
  BY DEF Entries
<1>3. Total(none) = 0 /\ \A k : Upto(none, k) = 0
  <2>1. \A k : {r \in Entries(none) : r[1] <= k} = {}
    BY <1>2
  <2> QED
    BY <1>2, <2>1, FS_EmptySet DEF Total, Upto
<1> HIDE DEF none
<1>4. ~Limited
  BY <1>1, <1>3, LimiterAssumption DEF Limited
<1>5. \A k \in Age : Upto(failed, k) + (IF Limited THEN Cardinality(Waiting) ELSE 0)
                        < (Upto(attempts, k) + 1) * Cardinality(Request)
  BY <1>1, <1>3, <1>4, WaitingFinite
<1> QED
  BY <1>1, <1>3, <1>4, <1>5, LimiterAssumption DEF LimiterInv, LimiterInit

\* A failure that is recorded pays for those of all who may still wait; one that is not was
\* counted among them.
LEMMA FailureCounted ==
    ASSUME LimiterInv, NEW q \in Request, PamFails(q)
    PROVE  LimiterInv'
<1> DEFINE R == Cardinality(Request)
           w == Cardinality(Waiting)
<1>1. failed' = [failed EXCEPT ![0] = @ + 1] /\ failed \in Count /\ attempts \in Count
  BY DEF PamFails, LimiterInv
<1>2. Waiting' = Waiting \ {q} /\ q \in Waiting
  BY DEF PamFails, Waiting, LimiterInv
<1>3. R \in Nat \ {0} /\ w \in Nat /\ w <= R /\ Cardinality(Waiting') = w - 1
  BY <1>2, WaitingFinite
<1>4. login' \in [Request -> {"idle", "pam", "in"}] /\ failed' \in Count
  <2>1. 0 \in Age
    BY LimiterAssumption DEF Age
  <2>2. failed' \in Count
    BY <1>1, <2>1, Recorded
  <2> QED
    BY <2>2 DEF PamFails, LimiterInv
<1>5. ASSUME NEW k \in Age
      PROVE  /\ Upto(failed', k) = Upto(failed, k) + 1
             /\ Upto(failed, k) \in Nat /\ Upto(attempts, k) \in Nat
             /\ Upto(failed, k) + (IF Limited THEN w ELSE 0) < (Upto(attempts, k) + 1) * R
  BY <1>1, Recorded, EntriesFinite DEF LimiterInv
<1>6. CASE Limited
  <2>1. attempts' = attempts /\ Limited'
    BY <1>6 DEF PamFails, Limited
  <2>2. ASSUME NEW k \in Age
        PROVE  Upto(failed', k) + Cardinality(Waiting') < (Upto(attempts', k) + 1) * R
    <3>1. (Upto(attempts, k) + 1) * R \in Nat
      BY <1>3, <1>5
    <3> HIDE DEF R, w
    <3> QED
      BY <1>3, <1>5, <1>6, <2>1, <3>1
  <2>3. Total(attempts') <= MaxAttempts /\ attempts' \in Count
    BY <2>1 DEF LimiterInv
  <2>4. Cardinality(Waiting') < R
    BY <1>3
  <2> QED
    BY <1>4, <2>1, <2>2, <2>3, <2>4 DEF LimiterInv
<1>7. CASE ~Limited
  <2>1. attempts' = [attempts EXCEPT ![0] = @ + 1]
    BY <1>7 DEF PamFails
  <2>2. attempts' \in Count /\ Total(attempts') = Total(attempts) + 1 /\ Total(attempts) \in Nat
    BY <1>1, <2>1, LimiterAssumption, Recorded, EntriesFinite, Whole
  <2>3. Total(attempts') <= MaxAttempts
    BY <1>7, <2>2, LimiterAssumption DEF Limited
  <2>4. ASSUME NEW k \in Age
        PROVE  Upto(failed', k) + (IF Limited' THEN Cardinality(Waiting') ELSE 0)
                 < (Upto(attempts', k) + 1) * R
    <3>1. Upto(attempts', k) = Upto(attempts, k) + 1
      BY <1>1, <2>1, Recorded
    <3> DEFINE m == (Upto(attempts, k) + 1) * R
    <3>2. m \in Nat /\ (Upto(attempts', k) + 1) * R = m + R
      BY <1>3, <1>5, <3>1
    <3>3. Upto(failed, k) < m
      BY <1>5, <1>7
    <3> HIDE DEF m, R, w
    <3> QED
      BY <1>3, <1>5, <3>2, <3>3
  <2> QED
    BY <1>3, <1>4, <2>2, <2>3, <2>4 DEF LimiterInv
<1> QED
  BY <1>6, <1>7

\* Entries only grow older with time: what was said of the last k ticks is said of the last k + 1,
\* and nobody is waiting for a limit that was not met before.
LEMMA TimeCounted ==
    ASSUME LimiterInv, Tick
    PROVE  LimiterInv'
<1> DEFINE R == Cardinality(Request)
           w == Cardinality(Waiting)
<1>1. failed' = Older(failed) /\ attempts' = Older(attempts) /\ UNCHANGED login
      /\ failed \in Count /\ attempts \in Count
  BY DEF Tick, LimiterInv
<1>2. Waiting' = Waiting /\ R \in Nat \ {0} /\ w \in Nat /\ w <= R
  BY <1>1, WaitingFinite DEF Waiting
<1>3. failed' \in Count /\ attempts' \in Count /\ Total(attempts') <= Total(attempts)
      /\ Total(attempts) \in Nat /\ Total(attempts') \in Nat
  <2>1. Window - 1 \in Age /\ failed' \in Count /\ attempts' \in Count
    BY <1>1, Whole, Aged
  <2>2. Total(attempts') = IF Window - 1 = 0 THEN 0 ELSE Upto(attempts, (Window - 1) - 1)
    BY <1>1, <2>1, Whole, Aged
  <2>3. Window - 1 = 0 \/ (Window - 1) - 1 \in Age
    BY LimiterAssumption DEF Age
  <2>4. Total(attempts) \in Nat /\ Total(attempts') \in Nat
    BY <1>1, <2>1, EntriesFinite
  <2> QED
    BY <1>1, <2>1, <2>2, <2>3, <2>4, Whole
<1>4. Limited' => Limited
  BY <1>3, LimiterAssumption DEF Limited
<1>5. Limited => w < R
  BY DEF LimiterInv
<1>6. ASSUME NEW k \in Age
      PROVE  Upto(failed', k) + (IF Limited' THEN w ELSE 0) < (Upto(attempts', k) + 1) * R
  <2>1. CASE k = 0
    <3>1. Upto(failed', k) = 0 /\ Upto(attempts', k) = 0
      BY <1>1, <2>1, Aged
    <3> HIDE DEF R, w
    <3> QED
      BY <1>2, <1>4, <1>5, <3>1
  <2>2. CASE k # 0
    <3>1. k - 1 \in Age
      BY <2>2, LimiterAssumption DEF Age
    <3>2. Upto(failed', k) = Upto(failed, k - 1) /\ Upto(attempts', k) = Upto(attempts, k - 1)
      BY <1>1, <2>2, Aged
    <3> DEFINE m == (Upto(attempts, k - 1) + 1) * R
    <3>3. Upto(failed, k - 1) + (IF Limited THEN w ELSE 0) < m
      BY <3>1 DEF LimiterInv
    <3>4. m \in Nat /\ Upto(failed, k - 1) \in Nat
      BY <1>1, <1>2, EntriesFinite
    <3> HIDE DEF m, w
    <3>5. Upto(failed, k - 1) + (IF Limited' THEN w ELSE 0) < m
      BY <1>2, <1>4, <3>3, <3>4
    <3> QED
      BY <3>2, <3>5 DEF m
  <2> QED
    BY <2>1, <2>2
<1>7. Total(attempts') <= MaxAttempts
  BY <1>3, LimiterAssumption DEF LimiterInv
<1>8. Limited' => Cardinality(Waiting') < R
  BY <1>2, <1>4, <1>5
<1>9. \A k \in Age : Upto(failed', k) + (IF Limited' THEN Cardinality(Waiting') ELSE 0)
                      < (Upto(attempts', k) + 1) * R
  BY <1>2, <1>6
<1> QED
  BY <1>1, <1>3, <1>7, <1>8, <1>9 DEF LimiterInv

\* Failures and successes of PAM, time and new logins in any order.
LEMMA LimiterNextInv == LimiterInv /\ [Next]_machineVars => LimiterInv'
<1> SUFFICES ASSUME LimiterInv, LimiterNext \/ UNCHANGED limiterState PROVE LimiterInv'
  BY LimiterSteps
<1>1. ASSUME NEW q \in Request, AskPam(q) PROVE LimiterInv'
  <2>1. login' \in [Request -> {"idle", "pam", "in"}] /\ UNCHANGED <<attempts, failed>> /\ ~Limited
    BY <1>1 DEF AskPam, LimiterInv
  <2>2. ~Limited'
    BY <2>1 DEF Limited
  <2> QED
    BY <2>1, <2>2 DEF LimiterInv
<1>2. ASSUME NEW q \in Request, PamAccepts(q) \/ Leave(q) PROVE LimiterInv'
  <2>1. /\ login' \in [Request -> {"idle", "pam", "in"}] /\ UNCHANGED <<attempts, failed>>
        /\ Waiting' = Waiting \ {q}
    BY <1>2 DEF PamAccepts, Leave, Waiting, LimiterInv
  <2>2. Limited' <=> Limited
    BY <2>1 DEF Limited
  <2>3. /\ Cardinality(Waiting) \in Nat /\ Cardinality(Waiting') \in Nat
        /\ Cardinality(Waiting') <= Cardinality(Waiting) /\ Cardinality(Request) \in Nat
    <3>1. Cardinality(Waiting \ {q}) = IF q \in Waiting THEN Cardinality(Waiting) - 1
                                       ELSE Cardinality(Waiting)
      <4>1. q \notin Waiting => Waiting \ {q} = Waiting
        OBVIOUS
      <4> QED
        BY <4>1, WaitingFinite
    <3>2. q \in Waiting => Cardinality(Waiting) # 0
      <4>1. IsFiniteSet(Waiting)
        BY LimiterAssumption, FS_Subset DEF Waiting
      <4> QED
        BY <4>1, FS_EmptySet
    <3> QED
      BY <2>1, <3>1, <3>2, WaitingFinite
  <2>4. ASSUME NEW k \in Age
        PROVE  Upto(failed', k) + (IF Limited' THEN Cardinality(Waiting') ELSE 0)
                 < (Upto(attempts', k) + 1) * Cardinality(Request)
    <3> DEFINE m == (Upto(attempts, k) + 1) * Cardinality(Request)
    <3>1. m \in Nat /\ Upto(failed, k) \in Nat
      BY <2>3, EntriesFinite DEF LimiterInv
    <3>2. Upto(failed, k) + (IF Limited THEN Cardinality(Waiting) ELSE 0) < m
      BY DEF LimiterInv
    <3> HIDE DEF m
    <3>3. Upto(failed, k) + (IF Limited THEN Cardinality(Waiting') ELSE 0) < m
      BY <2>3, <3>1, <3>2
    <3> QED
      BY <2>1, <2>2, <3>3 DEF m
  <2> QED
    BY <2>1, <2>2, <2>3, <2>4 DEF LimiterInv
<1>3. CASE UNCHANGED limiterState
  BY <1>3 DEF limiterState, LimiterInv, Limited, Waiting
<1> QED
  BY <1>1, <1>2, <1>3, FailureCounted, TimeCounted DEF LimiterNext

\* In any window PAM refuses an address so often and no more, however many logins are under way
\* between is_limited and check_and_record.
THEOREM WindowIsBounded == Spec => []FailuresBounded
<1>1. LimiterInv => FailuresBounded
  <2> SUFFICES ASSUME LimiterInv
               PROVE  Total(failed) <= (MaxAttempts + 1) * Cardinality(Request) - 1
    BY DEF FailuresBounded
  <2> DEFINE R == Cardinality(Request)
             n == Total(attempts)
  <2>1. R \in Nat \ {0} /\ n \in Nat /\ Total(failed) \in Nat /\ MaxAttempts \in Nat /\ n <= MaxAttempts
    BY WaitingFinite, EntriesFinite, LimiterAssumption DEF LimiterInv
  <2>2. Total(failed) + (IF Limited THEN Cardinality(Waiting) ELSE 0) < (n + 1) * R
    BY Whole DEF LimiterInv
  <2>3. Total(failed) < (n + 1) * R
    <3>1. (n + 1) * R \in Nat
      BY <2>1
    <3> HIDE DEF n, R
    <3> QED
      BY <2>1, <2>2, <3>1, WaitingFinite
  <2> HIDE DEF n, R
  <2>4. (n + 1) * R <= (MaxAttempts + 1) * R
    BY <2>1
  <2>5. (n + 1) * R \in Nat /\ (MaxAttempts + 1) * R \in Nat
    BY <2>1
  <2> QED
    BY <2>1, <2>3, <2>4, <2>5 DEF R
<1> QED
  BY <1>1, LimiterInitInv, LimiterNextInv, PTL DEF Spec

-----------------------------------------------------------------------------
(* The types, part by part.  What the invariants above have already is not shown again. *)

\* A variable starts with one of the values it may start with.
LEMMA Starts ==
    ASSUME NEW p, NEW S, S # {}
    PROVE  StartsIn(p, S) \subseteq S
BY DEF StartsIn

\* A step of Machines is one of a part or leaves its variables alone.
LEMMA PartSteps ==
    ASSUME [Next]_machineVars
    PROVE  /\ TrustNext \/ UNCHANGED trustVars
           /\ PairNext \/ UNCHANGED pairVars
           /\ TerminalNext \/ UNCHANGED terminalState
           /\ TransportNext \/ UNCHANGED transportState
           /\ PackagesNext \/ UNCHANGED packageVars
           /\ LinkNext \/ UNCHANGED linkVars
<1>1. ASSUME NEW p, On(p)
      PROVE  /\ p # "trust" => UNCHANGED trustVars
             /\ p # "certs" => UNCHANGED pairVars
             /\ p # "terminal" => UNCHANGED terminalState
             /\ p # "page" => UNCHANGED transportState
             /\ p \notin {"packages", "repos"} => UNCHANGED packageVars
             /\ p \notin {"links", "firewall"} => UNCHANGED linkVars
  BY <1>1 DEF On, Leaves
<1>2. ReposNext => UNCHANGED packageVars
  BY DEF ReposNext, AddRepo, RemoveRepo
<1>3. FirewallNext => UNCHANGED linkVars
  BY DEF FirewallNext, LoadFirewall, Toggle, AddRule, RemoveShown, RemoveShownFirewalld, RemoveNamed, OutsideRemoves
<1>4. CASE UNCHANGED machineVars
  BY <1>4 DEF machineVars, networkVars, packagesVars, certsVars, terminalVars, transportVars
<1>5. CASE Next
  BY <1>1, <1>2, <1>3, <1>5 DEF Next
<1> QED
  BY <1>4, <1>5

\* Links.
LinkTypes == nmcli \in BOOLEAN /\ link \in [Link -> {"none", "down", "up"}] /\ profile \subseteq Link

LEMMA LinksTypes == Spec => []LinkTypes
<1>1. Init => LinkTypes
  BY Starts DEF Init, NetworkInit, LinkTypes
<1>2. LinkTypes /\ LinksTable' /\ [Next]_machineVars => LinkTypes'
  <2> SUFFICES ASSUME LinkTypes, LinksTable', LinkNext \/ UNCHANGED linkVars PROVE LinkTypes'
    BY PartSteps
  <2>1. nmcli' = nmcli
    BY DEF LinkNext, AddBridge, AddVlan, NetworkManagerActs, RemoveInterface, SetLink, SetVpn, linkVars
  <2>2. profile' \subseteq Link
    BY DEF LinkTypes, LinkNext, AddBridge, AddVlan, NmAdds, IpAdds, NetworkManagerActs,
           RemoveInterface, SetLink, SetVpn, linkVars
  <2> QED
    BY <2>1, <2>2 DEF LinkTypes, LinksTable
<1> QED
  BY <1>1, <1>2, LinksTyped, PTL DEF Spec

\* Packages.
PackageTypes ==
    /\ manager \in Manager /\ packages \subseteq Package
    /\ behind \in BOOLEAN /\ listsOld \in BOOLEAN

LEMMA PackagesTypes == Spec => []PackageTypes
<1>1. Init => PackageTypes
  <2>1. StartsIn("packages", Manager) \cup StartsIn("repos", Manager) \subseteq Manager
    BY Starts DEF Manager
  <2>2. StartsIn("packages", SUBSET Package) \subseteq SUBSET Package
    BY Starts
  <2> QED
    BY <2>1, <2>2 DEF Init, PackagesInit, PackageTypes
<1>2. PackageTypes /\ [Next]_machineVars => PackageTypes'
  <2> SUFFICES ASSUME PackageTypes, PackagesNext \/ UNCHANGED packageVars PROVE PackageTypes'
    BY PartSteps
  <2> USE DEF PackageTypes
  <2>1. ASSUME NEW op, NEW names \in SUBSET Package, ChangePackages(op, names) PROVE PackageTypes'
    BY <2>1 DEF ChangePackages
  <2>2. NewRelease \/ RefreshRepos \/ UpdateSystem \/ CheckUpdates => PackageTypes'
    <3>1. NewRelease \/ RefreshRepos \/ CheckUpdates => PackageTypes'
      BY DEF NewRelease, RefreshRepos, CheckUpdates, packageVars
    <3>2. ASSUME UpdateSystem PROVE PackageTypes'
      <4>1. manager' = manager /\ packages' = packages
        BY <3>2, Zenon DEF UpdateSystem
      <4>2. listsOld' \in BOOLEAN
        BY <3>2 DEF UpdateSystem, Refuse
      <4>3. behind' \in BOOLEAN
        BY <3>2 DEF UpdateSystem, Refuse, Upgraded
      <4> QED
        BY <4>1, <4>2, <4>3
    <3> QED
      BY <3>1, <3>2
  <2>3. ASSUME NEW unneeded, AutoRemove(unneeded) PROVE PackageTypes'
    BY <2>3 DEF AutoRemove
  <2> QED
    BY <2>1, <2>2, <2>3 DEF PackagesNext, packageVars
<1> QED
  BY <1>1, <1>2, PTL DEF Spec

\* Repositories: pacman.conf does not outgrow its bound, and drop-in files hold repositories.
RepoTypes == Len(conf) <= MaxLines /\ dropIn \in [File -> SUBSET Repo]

LEMMA ReposTypes == Spec => []RepoTypes
<1>1. Init => RepoTypes
  <2> SUFFICES ASSUME PackagesInit PROVE RepoTypes
    BY DEF Init
  <2>1. PICK rs \in StartsIn("repos", SUBSET Repo) : dropIn = [f \in File |-> IF f = Vendor THEN rs ELSE {}]
    BY DEF PackagesInit
  <2>2. rs \subseteq Repo
    BY <2>1, Starts
  <2>3. Len(conf) = 2
    BY DEF PackagesInit
  <2> QED
    BY <2>1, <2>2, <2>3, PackagesAssumption DEF RepoTypes
<1>2. RepoTypes /\ ConfTable /\ [Next]_machineVars => RepoTypes'
  <2> SUFFICES ASSUME RepoTypes, ConfTable, ReposNext \/ UNCHANGED <<conf, dropIn>> PROVE RepoTypes'
    BY ConfSteps
  <2>1. ASSUME NEW r \in Repo, NEW f \in File, AddRepo(r, f) PROVE RepoTypes'
    <3>1. dropIn' \in [File -> SUBSET Repo]
      BY <2>1 DEF AddRepo, Teed, RepoTypes
    <3>2. Len(Block(r)) = 2 /\ Block(r) \in Seq(Line) /\ Len(conf) \in Nat
      BY DEF Block, Line, ConfTable
    <3>3. Len(conf \o Block(r)) = Len(conf) + 2
      <4>1. PICK b : b = Block(r)
        OBVIOUS
      <4>2. b \in Seq(Line) /\ Len(b) = 2 /\ conf \in Seq(Line)
        BY <3>2, <4>1 DEF ConfTable
      <4>3. Len(conf \o b) = Len(conf) + Len(b)
        BY <4>2, Joined
      <4> QED
        BY <4>1, <4>2, <4>3
    <3>4. conf' = conf \/ (conf' \in Cuts(conf \o Block(r)) /\ Len(conf) + 2 <= MaxLines)
      BY <2>1, ConfAfter DEF AddRepo
    <3>5. ASSUME conf' \in Cuts(conf \o Block(r))
          PROVE  Len(conf') \in Nat /\ Len(conf') <= Len(conf \o Block(r))
      <4>1. PICK new : new = conf \o Block(r)
        OBVIOUS
      <4>2. new \in Seq(Line) /\ Sectioned(new) /\ conf' \in Cuts(new)
        BY <3>5, <4>1, BlockAppended
      <4>3. conf' \in Seq(Line) /\ Len(conf') <= Len(new)
        BY <4>2, CutsAreSectioned
      <4> QED
        BY <4>1, <4>3
    <3> QED
      BY <3>1, <3>2, <3>3, <3>4, <3>5, PackagesAssumption DEF RepoTypes
  <2>2. ASSUME NEW r \in Repo, NEW f \in File, RemoveRepo(r, f) PROVE RepoTypes'
    <3>1. dropIn' \in [File -> SUBSET Repo]
      BY <2>2 DEF RemoveRepo, RepoTypes
    <3>2. conf' = conf \/ conf' \in Cuts(Kept(conf, Others(r)))
      BY <2>2, ConfAfter
    <3>3. Kept(conf, Others(r)) \in Seq(Line) /\ Len(Kept(conf, Others(r))) <= Len(conf)
      BY KeptIs DEF ConfTable
    <3>4. conf' \in Cuts(Kept(conf, Others(r))) =>
              conf' \in Seq(Line) /\ Len(conf') <= Len(Kept(conf, Others(r)))
      BY <3>3, FilterKeepsSections, CutsAreSectioned DEF ConfTable
    <3>5. Len(conf') \in Nat /\ Len(conf) \in Nat /\ Len(conf') <= Len(conf)
      BY <3>2, <3>3, <3>4 DEF ConfTable
    <3> QED
      BY <3>1, <3>5, PackagesAssumption DEF RepoTypes
  <2>3. CASE UNCHANGED <<conf, dropIn>>
    BY <2>3 DEF RepoTypes
  <2> QED
    BY <2>1, <2>2, <2>3 DEF ReposNext
<1> QED
  BY <1>1, <1>2, ConfSectioned, PTL DEF Spec

\* Automatic updates.
AutoTypes ==
    /\ updater \in Updater /\ tool \in BOOLEAN
    /\ periodic \in [unattended : BOOLEAN, download : BOOLEAN]
    /\ managed \in Scope /\ timerOn \in BOOLEAN /\ readable \in BOOLEAN
TimerTypes == timerFile \in Schedule \ {"refused"} /\ timerRuns \in Schedule \ {"refused"}

LEMMA AutosTypes == Spec => []AutoTypes
<1>1. Init => AutoTypes
  <2> SUFFICES ASSUME AutoUpdatesInit PROVE AutoTypes
    BY DEF Init
  <2>1. /\ updater \in StartsIn("auto", Updater) /\ tool \in StartsIn("auto", BOOLEAN)
        /\ \E on \in StartsIn("auto", BOOLEAN) : periodic = [unattended |-> on, download |-> on]
        /\ managed = "security" /\ timerOn \in StartsIn("auto", BOOLEAN)
        /\ readable \in BOOLEAN \/ readable \in {TRUE}
    BY Zenon DEF AutoUpdatesInit
  <2>2. StartsIn("auto", Updater) \subseteq Updater /\ StartsIn("auto", BOOLEAN) \subseteq BOOLEAN
    BY Starts, AutoUpdatesAssumption
  <2>3. periodic \in [unattended : BOOLEAN, download : BOOLEAN]
    BY <2>1, <2>2
  <2>4. readable \in BOOLEAN
    BY <2>1
  <2> QED
    BY <2>1, <2>2, <2>3, <2>4 DEF AutoTypes, Scope
<1>2. AutoTypes /\ [Next]_machineVars => AutoTypes'
  <2> SUFFICES ASSUME AutoTypes, AutoUpdatesNext \/ UNCHANGED autoVars PROVE AutoTypes'
    BY AutoSteps DEF Stays
  <2>1. ASSUME NEW s \in Settings, NEW on \in BOOLEAN, AptSet(on, s) PROVE AutoTypes'
    <3>1. PICK c \in Chain(4) :
              /\ tool' = (tool \/ (on /\ c.done >= 1))
              /\ periodic' \in Teed(periodic, AptPeriodic(on, s.mode), PeriodicCuts(on), c.done >= 1, c.done >= 2)
              /\ managed' \in Teed(managed, s.scope, {"security"}, c.done >= 2, c.done >= 3)
              /\ timerOn' \in IF on /\ c.ok THEN {timerOn, TRUE} ELSE {timerOn}
      BY <2>1, Zenon DEF AptSet
    <3>2. updater' = updater /\ readable' = readable
      BY <2>1, Zenon DEF AptSet
    <3>3. AptPeriodic(on, s.mode) \in [unattended : BOOLEAN, download : BOOLEAN]
      <4>1. PICK u \in BOOLEAN : u = (on /\ s.mode = "install")
        OBVIOUS
      <4>2. AptPeriodic(on, s.mode) = [unattended |-> u, download |-> on]
        BY <4>1, Zenon DEF AptPeriodic
      <4> QED
        BY <4>2
    <3>4. s.scope \in Scope
      <4> USE DEF Settings
      <4>1. PICK S : S = Schedule
        OBVIOUS
      <4>2. s \in [mode : Mode, scope : Scope, schedule : S]
        BY <4>1, Zenon
      <4> QED
        BY <4>2
    <3>5. PeriodicCuts(on) \subseteq [unattended : BOOLEAN, download : BOOLEAN]
      <4>1. ASSUME NEW d \in {FALSE, on}
            PROVE  [unattended |-> FALSE, download |-> d] \in [unattended : BOOLEAN, download : BOOLEAN]
        <5>1. d \in BOOLEAN
          BY <4>1
        <5> QED
          BY <5>1
      <4> HIDE DEF Scope
      <4> QED
        BY <4>1, Zenon DEF PeriodicCuts
    <3>6. periodic' \in [unattended : BOOLEAN, download : BOOLEAN]
      BY <3>1, <3>3, <3>5, Zenon DEF Teed, AutoTypes
    <3>7. managed' \in Scope
      BY <3>1, <3>4 DEF Teed, AutoTypes, Scope
    <3>8. tool' \in BOOLEAN /\ timerOn' \in BOOLEAN
      BY <3>1 DEF AutoTypes
    <3> QED
      BY <3>2, <3>6, <3>7, <3>8 DEF AutoTypes
  <2>2. ASSUME NEW s, DnfOff(s) PROVE AutoTypes'
    <3>1. /\ \E c \in Chain(1) : timerOn' = (timerOn /\ c.done = 0)
          /\ UNCHANGED <<updater, tool, periodic, managed, readable>>
      BY <2>2, Zenon DEF DnfOff
    <3> QED
      BY <3>1 DEF AutoTypes
  <2>3. ASSUME NEW s, DnfOn(s) PROVE AutoTypes'
    <3>1. /\ \E c \in Chain(4) : tool' = (tool \/ c.done >= 1) /\ timerOn' = (timerOn \/ c.done = 4)
          /\ UNCHANGED <<updater, periodic, managed>>
      BY <2>3, Zenon DEF DnfOn
    <3>2. readable' \in BOOLEAN
      BY <2>3, DnfOnIs DEF DnfWrites, AutoTypes
    <3> QED
      BY <3>1, <3>2 DEF AutoTypes
  <2>4. CASE UNCHANGED autoVars
    BY <2>4 DEF autoVars, AutoTypes
  <2> QED
    BY <2>1, <2>2, <2>3, <2>4, Zenon DEF AutoUpdatesNext
<1> QED
  BY <1>1, <1>2, PTL DEF Spec

\* A schedule that is refused is not written, and the timer has one that was.
LEMMA TimersTypes == Spec => []TimerTypes
<1>1. Init => TimerTypes
  BY Zenon DEF Init, AutoUpdatesInit, TimerTypes, Schedule
<1> DEFINE Good == Schedule \ {"refused"}
<1>2. TimerTypes /\ [Next]_machineVars => TimerTypes'
  <2> SUFFICES ASSUME timerFile \in Good, timerRuns \in Good, AutoUpdatesNext \/ UNCHANGED autoVars
               PROVE  timerFile' \in Good /\ timerRuns' \in Good
    BY AutoSteps, Zenon DEF Stays, TimerTypes
  <2>1. ASSUME NEW s \in Settings, NEW started, NEW written, Reschedule(s.schedule, started, written)
        PROVE  timerFile' \in Good /\ timerRuns' \in Good
    <3>1. s.schedule \in Schedule
      <4>1. PICK S : S = Schedule
        OBVIOUS
      <4>2. s \in [mode : Mode, scope : Scope, schedule : S]
        BY <4>1, Zenon DEF Settings
      <4>3. s.schedule \in S
        BY <4>2
      <4> QED
        BY <4>1, <4>3
    <3>2. PICK g : g = s.schedule
      OBVIOUS
    <3>3. /\ g \in {"", "refused"} => timerFile' \in {timerFile}
          /\ g \notin {"", "refused"} => timerFile' \in Teed(timerFile, g, {""}, started, written)
          /\ timerRuns' \in {timerRuns, timerFile'}
      BY <2>1, <3>2, Zenon DEF Reschedule
    <3>4. g \notin {"", "refused"} => g \in Good
      BY <3>1, <3>2, Zenon
    <3>5. "" \in Good
      BY Zenon DEF Schedule
    <3>6. timerFile' \in Good
      BY <3>3, <3>4, <3>5, Zenon DEF Teed
    <3> QED
      BY <3>3, <3>6, Zenon
  <2>2. ASSUME NEW s \in Settings, NEW on, AptSet(on, s) PROVE timerFile' \in Good /\ timerRuns' \in Good
    BY <2>1, <2>2, Zenon DEF AptSet
  <2>3. ASSUME NEW s \in Settings, DnfOn(s) PROVE timerFile' \in Good /\ timerRuns' \in Good
    BY <2>1, <2>3, Zenon DEF DnfOn
  <2>4. ASSUME NEW s, DnfOff(s) PROVE timerFile' \in Good /\ timerRuns' \in Good
    BY <2>4, Zenon DEF DnfOff
  <2>5. CASE UNCHANGED autoVars
    BY <2>5, Zenon DEF autoVars
  <2> QED
    BY <2>2, <2>3, <2>4, <2>5, Zenon DEF AutoUpdatesNext
<1> QED
  BY <1>1, <1>2, PTL DEF Spec

\* Accounts: the groups there are.
LEMMA GroupsTypes == Spec => [](group \subseteq Group)
<1>1. Init => group \subseteq Group
  BY DEF Init, AccountsInit
<1>2. group \subseteq Group /\ [Next]_machineVars => (group \subseteq Group)'
  <2> SUFFICES ASSUME group \subseteq Group, AccountsNext \/ UNCHANGED accountVars PROVE group' \subseteq Group
    BY AccountsSteps DEF Stays
  <2> QED
    BY DEF AccountsNext, CreateUser, SetPassword, ModifyUser, DeleteUser, LockUser, UnlockUser, One,
           CreateGroup, DeleteGroup, accountVars
<1> QED
  BY <1>1, <1>2, PTL DEF Spec

\* Containers.
ContainerTypes == member \in BOOLEAN /\ up \in BOOLEAN /\ running \subseteq Container /\ table \subseteq Row

LEMMA ContainersTypes == Spec => []ContainerTypes
<1>1. Init => ContainerTypes
  BY Starts DEF Init, ContainersInit, ContainerTypes
<1>2. ContainerTypes /\ ContainersInv /\ [Next]_machineVars => ContainerTypes'
  <2> SUFFICES ASSUME ContainerTypes, ContainersInv, ContainersNext \/ UNCHANGED containerVars
               PROVE  ContainerTypes'
    BY ContainersSteps DEF Stays
  <2> USE DEF ContainerTypes
  <2>1. ASSUME NEW pw, List(pw) PROVE ContainerTypes'
    <3>1. \A o \in Owner : Seen(o) \subseteq Thing
      BY DEF Seen, Home, Owner, ContainersInv
    <3>2. Merged(pw) \subseteq Row
      BY <3>1 DEF Merged, Row, Owner
    <3> QED
      BY <2>1, <3>2 DEF List
  <2>2. ASSUME NEW row, NEW pw, RemoveRow(row, pw) PROVE ContainerTypes'
    BY <2>2 DEF RemoveRow
  <2>3. ASSUME NEW row, NEW pw, NEW op, RunRow(row, pw, op) PROVE ContainerTypes'
    BY <2>3 DEF RunRow
  <2>4. ASSUME NEW t \in Container, NEW pw, CreateContainer(t, pw) PROVE ContainerTypes'
    BY <2>4 DEF CreateContainer
  <2>5. ASSUME NEW on \in BOOLEAN, NEW pw, SetService(on, pw) PROVE ContainerTypes'
    BY <2>5 DEF SetService
  <2>6. ASSUME NEW x, CreateVolume(x) \/ PruneStore(x) \/ UserCreates(x) PROVE ContainerTypes'
    BY <2>6 DEF CreateVolume, PruneStore, UserCreates
  <2>7. CASE UNCHANGED containerVars
    BY <2>7 DEF containerVars
  <2> QED
    BY <2>1, <2>2, <2>3, <2>4, <2>5, <2>6, <2>7 DEF ContainersNext, RemoveVolume
<1> QED
  BY <1>1, <1>2, ContainersInvariant, PTL DEF Spec

\* Certificates.
CertTypes ==
    /\ distro \in {"debian", "fedora", "arch", "unknown"}
    /\ trusted \subseteq Material /\ private \subseteq CertName

LEMMA CertsTypes == Spec => []CertTypes
<1>1. Init => CertTypes
  BY Starts DEF Init, CertsInit, CertTypes, Taken
<1>2. CertTypes /\ [Next]_machineVars => CertTypes'
  <2> SUFFICES ASSUME CertTypes, TrustNext \/ UNCHANGED trustVars, PairNext \/ UNCHANGED pairVars
               PROVE  CertTypes'
    BY PartSteps
  <2>1. distro' = distro /\ trusted' \subseteq Material
    BY DEF CertTypes, TrustNext, TrustAdd, TrustRemove, Taken, trustVars
  <2>2. private' \subseteq CertName
    BY DEF CertTypes, PairNext, CertSave, SavePem, pairVars
  <2> QED
    BY <2>1, <2>2 DEF CertTypes
<1> QED
  BY <1>1, <1>2, PTL DEF Spec

\* Services: whatever the daemon, it has loaded a configuration.
ServiceTypes == daemon \in Daemon /\ file \in Config /\ runs \in Config /\ serves \in BOOLEAN

LEMMA ServicesTypes == Spec => []ServiceTypes
<1>1. Init => ServiceTypes
  <2> SUFFICES ASSUME ServicesInit PROVE ServiceTypes
    BY DEF Init
  <2>1. PICK s \in Setting : TRUE
    BY ServicesAssumption
  <2>2. {c \in Config : c.others /\ c.valid} # {}
    <3>1. [set |-> s, others |-> TRUE, valid |-> TRUE] \in {c \in Config : c.others /\ c.valid}
      BY DEF Config
    <3> QED
      BY <3>1
  <2>3. StartsIn("services", {c \in Config : c.others /\ c.valid}) \subseteq Config
    BY <2>2, Starts
  <2>4. StartsIn("services", Daemon) \subseteq Daemon /\ StartsIn("services", BOOLEAN) \subseteq BOOLEAN
    BY Starts, ServicesAssumption
  <2> QED
    BY <2>3, <2>4 DEF ServicesInit, ServiceTypes
<1>2. ServiceTypes /\ [Next]_machineVars => ServiceTypes'
  <2> SUFFICES ASSUME ServiceTypes, ServicesNext \/ UNCHANGED serviceState PROVE ServiceTypes'
    BY ServicesSteps DEF Stays, KeysNext
  <2> USE DEF ServiceTypes
  <2>1. ASSUME NEW new \in Config, WriteAndRestart(new)
        PROVE  file' \in Config /\ runs' \in Config /\ serves' \in BOOLEAN
    BY <2>1 DEF WriteAndRestart, Writes, Teed, Pieces, StartsOn, Config
  <2>2. ASSUME NEW new \in Config, KdumpSet(new) PROVE ServiceTypes'
    BY <2>2 DEF KdumpSet, Writes, Teed, Pieces, StartsOn, Config
  <2>3. ASSUME NEW new \in Config, SetSshd(new) \/ SaveConfig(new) PROVE ServiceTypes'
    BY <2>1, <2>3 DEF SetSshd, SaveConfig
  <2>4. ASSUME NEW s \in Setting, SetServers(s) \/ SetResolved(s) PROVE ServiceTypes'
    <3>1. [file EXCEPT !.set = s] \in Config /\ MadeFrom(s) \in Config
      BY DEF Config, MadeFrom
    <3>2. SetServers(s) => ServiceTypes'
      BY <2>1, <3>1 DEF SetServers
    <3>3. ASSUME SetResolved(s) PROVE ServiceTypes'
      BY <3>1, <3>3 DEF SetResolved, Writes, Teed, Pieces, StartsOn, Config
    <3> QED
      BY <2>4, <3>2, <3>3
  <2>5. ASSUME NEW verb, Command(verb) PROVE ServiceTypes'
    BY <2>5 DEF Command, StartsOn, Config
  <2>6. CASE UNCHANGED serviceState
    BY <2>6 DEF serviceState
  <2> QED
    BY <2>2, <2>3, <2>4, <2>5, <2>6 DEF ServicesNext, Config
<1> QED
  BY <1>1, <1>2, PTL DEF Spec

\* Terminals: the queue keeps its bound.
LEMMA TerminalsTypes == Spec => []TerminalTypeOK
<1>1. Init => TerminalTypeOK
  BY OutRoomAssumption DEF Init, TerminalInit, TerminalTypeOK
<1>2. TerminalTypeOK /\ [Next]_machineVars => TerminalTypeOK'
  <2> SUFFICES ASSUME TerminalTypeOK, TerminalNext \/ UNCHANGED terminalState PROVE TerminalTypeOK'
    BY PartSteps
  <2> USE OutRoomAssumption DEF TerminalTypeOK, Goes
  <2>1. Drain \/ Lost => TerminalTypeOK'
    <3>1. Drain => room' \in 0..OutRoom
      BY DEF Drain
    <3> QED
      BY <3>1 DEF Drain, Lost
  <2>2. ASSUME NEW s \in Stream, Open(s) \/ Close(s) \/ Output(s) \/ ShellExit(s) \/ Shutdown(s)
        PROVE  TerminalTypeOK'
    BY <2>2 DEF Open, Close, Output, ShellExit, Shutdown
  <2>3. ASSUME NEW s \in Stream, Start(s) \/ Hangup(s) \/ Cleanup(s) PROVE TerminalTypeOK'
    BY <2>3 DEF Start, Hangup, Cleanup
  <2>4. ASSUME NEW s \in Stream, Send(s) \/ Announce(s) PROVE TerminalTypeOK'
    BY <2>4 DEF Send, Announce
  <2>5. CASE UNCHANGED terminalState
    BY <2>5 DEF terminalState
  <2> QED
    BY <2>1, <2>2, <2>3, <2>4, <2>5 DEF TerminalNext, Runs
<1> QED
  BY <1>1, <1>2, PTL DEF Spec

\* The page's connection.
LEMMA TransportsTypes == Spec => []TransportTypeOK
<1>1. Init => TransportTypeOK
  <2> SUFFICES ASSUME TransportInit PROVE TransportTypeOK
    BY DEF Init
  <2>1. socket \in [WebSocket -> Phase]
    BY DEF TransportInit, Phase
  <2>2. faults \in 0..MaxFaults
    BY TransportAssumption DEF TransportInit
  <2> QED
    BY <2>1, <2>2 DEF TransportInit, TransportTypeOK
<1>2. TransportTypeOK /\ [Next]_machineVars => TransportTypeOK'
  <2> SUFFICES ASSUME TransportTypeOK, TransportNext \/ UNCHANGED transportState PROVE TransportTypeOK'
    BY PartSteps
  <2> USE TransportAssumption DEF TransportTypeOK
  <2>1. \A S : Closed(S) \in [WebSocket -> Phase]
    BY DEF Closed, Phase
  <2>2. Fault => faults' \in 0..MaxFaults
    BY DEF Fault
  <2>3. EndsSession => old' \subseteq WebSocket
    BY DEF EndsSession
  <2>4. Dials => socket' \in [WebSocket -> Phase] /\ ws' \in WebSocket /\ promise' \in WebSocket
    BY DEF Dials, Phase
  <2>5. Login => TransportTypeOK'
    BY <2>4 DEF Login
  <2>6. Logout => TransportTypeOK'
    BY <2>1, <2>2, <2>3 DEF Logout
  <2>7. TimerFires => TransportTypeOK'
    BY <2>4 DEF TimerFires
  <2>8. SessionExpires => TransportTypeOK'
    BY <2>2, <2>3 DEF SessionExpires
  <2>9. ASSUME NEW s \in WebSocket, Opens(s) \/ OnClose(s) \/ Accepted(s) PROVE TransportTypeOK'
    BY <2>9 DEF Opens, OnClose, Accepted, Phase
  <2>10. ASSUME NEW s \in WebSocket, Rejected(s) \/ Invalidated(s) \/ Dropped(s) PROVE TransportTypeOK'
    BY <2>1, <2>2, <2>10 DEF Rejected, Invalidated, Dropped
  <2>11. CASE UNCHANGED transportState
    BY <2>11 DEF transportState
  <2> QED
    BY <2>5, <2>6, <2>7, <2>8, <2>9, <2>10, <2>11 DEF TransportNext
<1> QED
  BY <1>1, <1>2, PTL DEF Spec

\* The limiter: no age has more records than the limit.
LEMMA LimiterTypes == LimiterInv => LimiterTypeOK
<1> SUFFICES ASSUME LimiterInv, NEW a \in Age PROVE attempts[a] \in 0..MaxAttempts
  BY DEF LimiterInv, LimiterTypeOK, Count
<1> DEFINE here == {a} \X (1..attempts[a])
<1>1. attempts \in Count /\ attempts[a] \in Nat
  BY DEF LimiterInv, Count
<1>2. here \subseteq Entries(attempts)
  BY DEF Entries
<1>3. Cardinality(here) = attempts[a]
  <2>1. IsFiniteSet(1..attempts[a]) /\ Cardinality(1..attempts[a]) = attempts[a]
    BY <1>1, FS_Interval
  <2>2. IsFiniteSet({a}) /\ Cardinality({a}) = 1
    BY FS_Singleton
  <2>3. Cardinality(here) = Cardinality({a}) * Cardinality(1..attempts[a])
    BY <2>1, <2>2, FS_Product
  <2> QED
    BY <1>1, <2>1, <2>2, <2>3
<1>4. Cardinality(here) <= Total(attempts)
  <2> HIDE DEF here
  <2> QED
    BY <1>1, <1>2, EntriesFinite, FS_Subset DEF Total
<1> QED
  BY <1>1, <1>3, <1>4, LimiterAssumption, EntriesFinite DEF LimiterInv

\* An answer is one: every handler gives an answer or leaves the latest.
LEMMA RepliesTyped == Spec => []ReplyTyped
<1> USE DEF ReplyTyped, NoReply, Answer, Refuse
<1>1. Init => ReplyTyped
  BY DEF Init, NetworkInit
<1>2. ReplyTyped /\ [Next]_machineVars => ReplyTyped'
  <2> SUFFICES ASSUME ReplyTyped, Next PROVE ReplyTyped'
    BY DEF machineVars, networkVars
  <2>1. FirewallNext => ReplyTyped'
    BY DEF FirewallNext, LoadFirewall, Toggle, AddRule, RemoveShown, RemoveShownFirewalld, RemoveNamed, OutsideRemoves
  <2>2. LinkNext => ReplyTyped'
    BY DEF LinkNext, AddBridge, AddVlan, NmAdds, IpAdds, NetworkManagerActs, RemoveInterface, SetLink, SetVpn
  <2>3. PackagesNext => ReplyTyped'
    BY DEF PackagesNext, ChangePackages, NewRelease, RefreshRepos, UpdateSystem, CheckUpdates, AutoRemove
  <2>4. ReposNext => ReplyTyped'
    BY DEF ReposNext, AddRepo, RemoveRepo
  <2>5. AutoUpdatesNext => ReplyTyped'
    BY DEF AutoUpdatesNext, AptSet, DnfOff, DnfOn
  <2>6. AccountsNext => ReplyTyped'
    BY DEF AccountsNext, CreateUser, SetPassword, ModifyUser, DeleteUser, LockUser, UnlockUser, One,
           CreateGroup, DeleteGroup
  <2>7. ContainersNext => ReplyTyped'
    BY DEF ContainersNext, List, RemoveVolume, RemoveRow, RunRow, CreateContainer, SetService,
           CreateVolume, PruneStore, UserCreates
  <2>8. TrustNext \/ PairNext => ReplyTyped'
    BY DEF TrustNext, TrustAdd, TrustRemove, PairNext, CertSave, SavePem
  <2>9. ServicesNext => ReplyTyped'
    <3>1. ASSUME NEW new, WriteAndRestart(new) PROVE ReplyTyped'
      BY <3>1 DEF WriteAndRestart
    <3>2. ASSUME NEW new, SetSshd(new) \/ SaveConfig(new) \/ KdumpSet(new) PROVE ReplyTyped'
      BY <3>1, <3>2 DEF SetSshd, SaveConfig, KdumpSet
    <3>3. ASSUME NEW s, SetServers(s) \/ SetResolved(s) PROVE ReplyTyped'
      BY <3>1, <3>3 DEF SetServers, SetResolved
    <3>4. ASSUME NEW verb, Command(verb) PROVE ReplyTyped'
      BY <3>4 DEF Command
    <3> QED
      BY <3>2, <3>3, <3>4 DEF ServicesNext
  <2>10. KeysNext => ReplyTyped'
    BY DEF KeysNext, AddKey, RemoveKey, EditKey, ApplyKeys
  <2>11. CommandNext \/ TerminalNext \/ LimiterNext \/ IdentityNext \/ TransportNext => ReplyTyped'
    BY DEF CommandNext, TerminalNext, LimiterNext, IdentityNext, TransportNext
  <2> QED
    BY <2>1, <2>2, <2>3, <2>4, <2>5, <2>6, <2>7, <2>8, <2>9, <2>10, <2>11 DEF Next
<1> QED
  BY <1>1, <1>2, PTL DEF Spec

\* All the state of the host, of the page's connection and of the agent's identity keeps its
\* types, whatever the requests, the commands that fail half-way and the steps of others.
THEOREM MachinesTyped == Spec => []TypeOK
<1>1. Spec => [](part \in Part)
  <2>1. Init => part \in Part
    BY DEF Init
  <2>2. part \in Part /\ [Next]_machineVars => (part \in Part)'
    BY DEF Next, On, machineVars
  <2> QED
    BY <2>1, <2>2, PTL DEF Spec
<1>2. ReplyTyped /\ FirewallTable /\ LinkTypes => NetworkTypeOK
  BY DEF FirewallTable, LinkTypes, NetworkTypeOK
<1>3. ReplyTyped /\ PackageTypes /\ ConfTable /\ RepoTypes => PackagesTypeOK
  BY DEF PackageTypes, ConfTable, RepoTypes, PackagesTypeOK
<1>4. ReplyTyped /\ AutoTypes /\ IniTable /\ TimerTypes => AutoUpdatesTypeOK
  <2> SUFFICES ASSUME ReplyTyped, AutoTypes, IniTable, TimerTypes PROVE AutoUpdatesTypeOK
    OBVIOUS
  <2>1. ini \in Seq(IniText)
    BY DEF IniTable
  <2> QED
    BY <2>1, Zenon DEF AutoTypes, TimerTypes, AutoUpdatesTypeOK
<1>5. ReplyTyped /\ AccountsTable /\ group \subseteq Group => AccountsTypeOK
  BY DEF AccountsTable, AccountsTypeOK
<1>6. ReplyTyped /\ ContainersInv /\ ContainerTypes => ContainersTypeOK
  BY DEF ContainersInv, ContainerTypes, ContainersTypeOK
<1>7. ReplyTyped /\ anchor \in [CertName -> Content] /\ {crt, keyOf} \subseteq [CertName -> Content] /\ CertTypes
        => CertsTypeOK
  BY DEF CertTypes, CertsTypeOK
<1>8. ReplyTyped /\ ServiceTypes /\ KeysTable => ServicesTypeOK
  BY DEF ServiceTypes, KeysTable, ServicesTypeOK
<1>9. IdentityInv => IdentityTypeOK
  BY DEF IdentityInv
<1>10. Spec => []LimiterInv
  BY LimiterInitInv, LimiterNextInv, PTL DEF Spec
<1>11. /\ part \in Part /\ NetworkTypeOK /\ PackagesTypeOK /\ AutoUpdatesTypeOK /\ AccountsTypeOK
       /\ ContainersTypeOK /\ CertsTypeOK /\ CommandTypeOK /\ TerminalTypeOK /\ LimiterTypeOK
       /\ IdentityTypeOK /\ ServicesTypeOK /\ TransportTypeOK
       => TypeOK
  BY DEF TypeOK
<1> QED
  BY <1>1, <1>2, <1>3, <1>4, <1>5, <1>6, <1>7, <1>8, <1>9, <1>10, <1>11, RepliesTyped, FirewallTyped,
     LinksTypes, PackagesTypes, ConfSectioned, ReposTypes, AutosTypes, IniTyped, TimersTypes,
     AccountsTyped, GroupsTypes, ContainersInvariant, ContainersTypes, AnchorsTyped, PairsTyped,
     CertsTypes, CommandTyped, TerminalsTypes, LimiterTypes, IdentityInvariant, ServicesTypes,
     KeysAreAsTold, TransportsTypes, PTL
=============================================================================
