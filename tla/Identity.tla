------------------------------ MODULE Identity ------------------------------
(***************************************************************************)
(* Who an agent and its gateway take each other for, across restarts: the  *)
(* agent's key and pinned gateway (identity.rs, run_session of main.rs),   *)
(* and the gateway's id (load_or_create_gateway_id of hosts_config.rs).    *)
(*                                                                         *)
(* A file is created or truncated in one step and written in another; a    *)
(* process may die between any two.  The agent may be pointed at one       *)
(* gateway after another.  What is written survives: no power failure.     *)
(***************************************************************************)
EXTENDS HostCommand

CONSTANTS
    Gateway,    \* gateways the agent may reach
    GatewayId   \* ids; bound: how many are generated

ASSUME IdentityAssumption ==
    Gateway # {} /\ \A x \in {"missing", "empty", "none"} : x \notin GatewayId \cup Gateway

VARIABLES
    keyFile,    \* agent.key: "missing", "empty" or "key"
    pinFile,    \* gateway-id of the agent: "missing", "empty" or an id
    agent,      \* where the agent process is
    peer,       \* the gateway it talks to
    challenge,  \* the id in that gateway's Challenge
    idFile,     \* idFile[g]: gateway-id of the gateway
    gateway,    \* gateway[g]: "down", "writing" or "up"
    gatewayId,  \* gatewayId[g]: the id it goes by
    drawn,      \* drawn[id]: (history) the gateway that generated the id, or "none"
    misread,    \* (history) gateways that could not read the id on their disk once
    signed      \* (history) the gateways whose challenge was answered

agentVars    == <<keyFile, pinFile, agent, peer, challenge, signed>>
gatewayVars  == <<idFile, gateway, gatewayId, drawn, misread>>
identityState == <<agentVars, gatewayVars>>
identityVars == <<reply, identityState>>

IdentityTypeOK ==
    /\ keyFile \in {"missing", "empty", "key"}
    /\ pinFile \in {"missing", "empty"} \cup GatewayId
    /\ agent \in {"off", "newKey", "ready", "hello", "check", "pin", "sign", "session"}
    /\ peer \in Gateway
    /\ challenge \in GatewayId \cup {"none"}
    /\ idFile \in [Gateway -> {"missing", "empty"} \cup GatewayId]
    /\ gateway \in [Gateway -> {"down", "writing", "up"}]
    /\ gatewayId \in [Gateway -> GatewayId \cup {"none"}]
    /\ drawn \in [GatewayId -> Gateway \cup {"none"}]
    /\ misread \subseteq Gateway
    /\ signed \subseteq Gateway

IdentityInit ==
    /\ reply = NoReply
    /\ keyFile = "missing" /\ pinFile = "missing"
    /\ agent = "off" /\ peer = (CHOOSE g \in Gateway : TRUE) /\ challenge = "none"
    /\ idFile = [g \in Gateway |-> "missing"]
    /\ gateway = [g \in Gateway |-> "down"]
    /\ gatewayId = [g \in Gateway |-> "none"]
    /\ drawn = [id \in GatewayId |-> "none"]
    /\ misread = {} /\ signed = {}

-----------------------------------------------------------------------------
(* A gateway. *)

\* A new id, at each call another.
Draws(g) ==
    \E id \in GatewayId :
        /\ drawn[id] = "none"
        /\ gatewayId' = [gatewayId EXCEPT ![g] = id]
        /\ drawn' = [drawn EXCEPT ![id] = g]

\* Mutant: a new id is used before it is on disk.
GatewayStartsEarly(g) ==
    /\ gateway[g] = "down" /\ idFile[g] \in {"missing", "empty"}
    /\ Draws(g)
    /\ idFile' = [idFile EXCEPT ![g] = "empty"]
    /\ gateway' = [gateway EXCEPT ![g] = "up"]
    /\ UNCHANGED <<agentVars, misread>>

\* Without an id, with an empty file or with one that it fails to read: a new one, and the file is
\* truncated.
GatewayStartsNew(g) ==
    /\ gateway[g] = "down"
    /\ Draws(g)
    /\ misread' = IF idFile[g] \in GatewayId THEN misread \cup {g} ELSE misread
    /\ idFile' = [idFile EXCEPT ![g] = "empty"]
    /\ gateway' = [gateway EXCEPT ![g] = "writing"]
    /\ UNCHANGED agentVars

GatewaySavesId(g) ==
    /\ gateway[g] = "writing"
    /\ idFile' = [idFile EXCEPT ![g] = gatewayId[g]]
    /\ gateway' = [gateway EXCEPT ![g] = "up"]
    /\ UNCHANGED <<agentVars, gatewayId, drawn, misread>>

GatewayLoadsId(g) ==
    /\ gateway[g] = "down" /\ idFile[g] \in GatewayId
    /\ gatewayId' = [gatewayId EXCEPT ![g] = idFile[g]]
    /\ gateway' = [gateway EXCEPT ![g] = "up"]
    /\ UNCHANGED <<agentVars, idFile, drawn, misread>>

\* It crashes or is stopped; a session with it ends.
GatewayDies(g) ==
    /\ gateway[g] # "down"
    /\ gateway' = [gateway EXCEPT ![g] = "down"]
    /\ gatewayId' = [gatewayId EXCEPT ![g] = "none"]
    /\ agent' = IF peer = g /\ agent \in {"hello", "session"} THEN "ready" ELSE agent
    /\ UNCHANGED <<keyFile, pinFile, peer, challenge, signed, idFile, drawn, misread>>

-----------------------------------------------------------------------------
(* The agent. *)

AgentGoes(at) == agent' = at

\* load_or_create: load the key, or create its file, which must not exist.  A key of the wrong
\* size is refused, at every start.
AgentStarts ==
    /\ agent = "off"
    /\ \/ keyFile = "key" /\ AgentGoes("ready") /\ UNCHANGED keyFile
       \/ keyFile = "missing" /\ AgentGoes("newKey") /\ keyFile' = "empty"
    /\ UNCHANGED <<pinFile, peer, challenge, signed, gatewayVars>>

AgentSavesKey ==
    /\ agent = "newKey"
    /\ keyFile' = "key"
    /\ AgentGoes("ready")
    /\ UNCHANGED <<pinFile, peer, challenge, signed, gatewayVars>>

\* Connect and Hello.
AgentConnects(g) ==
    /\ agent = "ready" /\ gateway[g] = "up"
    /\ AgentGoes("hello") /\ peer' = g
    /\ UNCHANGED <<keyFile, pinFile, challenge, signed, gatewayVars>>

\* The Challenge arrives.
AgentIsChallenged ==
    /\ agent = "hello" /\ gateway[peer] = "up"
    /\ challenge' = gatewayId[peer]
    /\ AgentGoes("check")
    /\ UNCHANGED <<keyFile, pinFile, peer, signed, gatewayVars>>

\* Mutant: a gateway is pinned when its challenge has been answered.
AgentChecksLate ==
    /\ agent = "check"
    /\ AgentGoes(IF pinFile \in GatewayId \ {challenge} THEN "ready" ELSE "sign")
    /\ UNCHANGED <<keyFile, pinFile, peer, challenge, signed, gatewayVars>>

\* Against the pinned id; without one the file is truncated to pin this, unless the operator
\* expects another (TENODERA_GATEWAY_ID).
AgentChecks ==
    /\ agent = "check"
    /\ \/ pinFile = challenge /\ AgentGoes("sign") /\ UNCHANGED pinFile
       \/ pinFile # challenge /\ AgentGoes("ready") /\ UNCHANGED pinFile
       \/ pinFile \in {"missing", "empty"} /\ AgentGoes("pin") /\ pinFile' = "empty"
    /\ UNCHANGED <<keyFile, peer, challenge, signed, gatewayVars>>

\* save_gateway_id writes, or fails.
AgentPins ==
    /\ agent = "pin"
    /\ \/ pinFile' = challenge /\ AgentGoes("sign")
       \/ AgentGoes("ready") /\ UNCHANGED pinFile
    /\ UNCHANGED <<keyFile, peer, challenge, signed, gatewayVars>>

\* ChallengeResponse; the gateway may be gone meanwhile.
AgentSigns ==
    /\ agent = "sign"
    /\ signed' = signed \cup {peer}
    /\ AgentGoes("session")
    /\ UNCHANGED <<keyFile, pinFile, peer, challenge, gatewayVars>>

\* Rejected, or the connection is lost: the loop of main sleeps and tries again.
SessionEnds ==
    /\ agent \in {"hello", "check", "sign", "session"}
    /\ AgentGoes("ready")
    /\ UNCHANGED <<keyFile, pinFile, peer, challenge, signed, gatewayVars>>

AgentDies ==
    /\ agent # "off"
    /\ AgentGoes("off")
    /\ UNCHANGED <<keyFile, pinFile, peer, challenge, signed, gatewayVars>>

IdentityNext ==
    /\ \/ \E g \in Gateway : \/ GatewayStartsNew(g) \/ GatewaySavesId(g) \/ GatewayLoadsId(g)
                             \/ GatewayDies(g) \/ AgentConnects(g)
       \/ AgentStarts \/ AgentSavesKey \/ AgentIsChallenged \/ AgentChecks \/ AgentPins
       \/ AgentSigns \/ SessionEnds \/ AgentDies
    /\ reply' = reply

-----------------------------------------------------------------------------
(* Properties. *)

\* An agent that has answered a gateway is bound to it and answers no other, whatever either could
\* not write or read; and its pin is the id on that gateway's disk and the one it goes by, whichever
\* of the two died while writing its file, unless the gateway once failed to read its own
\* (load_or_create_gateway_id, save_gateway_id before the signature in run_session).
PinMatches ==
    \A g \in signed :
        /\ signed = {g}
        /\ g \notin misread => /\ pinFile = idFile[g]
                               /\ gateway[g] = "up" => gatewayId[g] = pinFile
=============================================================================
