----------------------------- MODULE Enrollment -----------------------------
(***************************************************************************)
(* How an agent becomes a host: the paths of resolve_auth_path and the     *)
(* wait for approval (agent_ws.rs), bootstrap tokens and the registry of   *)
(* pending agents (agent_auth.rs), the administrator's REST calls that     *)
(* approve and remove (main.rs), and hosts.json, which every one of them   *)
(* rewrites whole after reading it whole (hosts_config.rs).                *)
(*                                                                         *)
(* A load, a save and each lock acquisition is a step.  What a read sees   *)
(* of a write in progress is left to another model; the signature check is *)
(* taken to hold, so a connection is identified by its key.                *)
(***************************************************************************)
EXTENDS FiniteSets, Naturals

CONSTANTS
    Conn,        \* agent connections whose signature was verified
    Approval,    \* pending_approve calls
    Removal,     \* hosts_remove calls
    Key,         \* public keys
    Name,        \* hostnames
    HostId,      \* host ids
    Token,       \* bootstrap tokens
    KeyOf,       \* the key of a connection
    NameOf,      \* the hostname in its Hello
    TokenOf,     \* the token in its Hello, or None
    IpOf,        \* the address a connection comes from
    Loopback,    \* the connections from 127.0.0.1 or ::1
    MaxUses,     \* how often a token may be used, 1 if single_use
    BoundTo,     \* the hostname a token is bound to, or None
    ReEnroll,    \* the tokens with re_enroll set
    Enrolled,    \* hosts.json at the start
    MaxPending,  \* MAX_PENDING
    MaxPerIp,    \* MAX_PENDING_PER_IP
    None

Entry == [id : HostId, name : Name, key : Key]
Admin == Approval \cup Removal
Task == Conn \cup Admin

ASSUME EnrollmentAssumption ==
    /\ KeyOf \in [Conn -> Key]
    /\ NameOf \in [Conn -> Name]
    /\ TokenOf \in [Conn -> Token \cup {None}]
    /\ None \notin Conn \cup HostId \cup Token \cup Name \cup Key
    /\ Enrolled \subseteq Entry
    /\ Conn \cap Admin = {} /\ Approval \cap Removal = {}
    /\ MaxUses \in [Token -> Nat]
    /\ BoundTo \in [Token -> Name \cup {None}]

VARIABLES
    file,     \* hosts.json
    uses,     \* use_count of each token, MaxUses once it is gone
    pending,  \* PendingRegistry: the handler waiting under a key, or None
    offer,    \* offer[c]: the host sent through c's approval channel, or None
    phase,    \* where a task is
    mode,     \* what the task does to the file
    target,   \* the id it does it to
    ask,      \* the key and hostname an approval is about
    copy,     \* the file as the task has read it
    host,     \* the host id a connection or approval ended up with
    consent,  \* (history) keys let in by a token, an approval or loopback
    written   \* (history) every entry a task has put into the file

vars == <<file, uses, pending, offer, phase, mode, target, ask, copy, host, consent, written>>
history == <<consent, written>>

ConnPhase == {"idle", "byKey", "byName", "knownToken", "newToken", "load", "save", "insert",
              "waiting", "withdraw", "acking", "acked", "gone"}
AdminPhase == {"idle", "byName", "load", "save", "answer", "approved", "notFound", "done"}

TypeOK ==
    /\ file \subseteq Entry
    /\ uses \in [Token -> Nat]
    /\ pending \in [Key -> Conn \cup {None}]
    /\ offer \in [Conn -> HostId \cup {None}]
    /\ phase \in [Task -> ConnPhase \cup AdminPhase]
    /\ mode \in [Task -> {"none", "register", "replace", "touch", "remove"}]
    /\ target \in [Task -> HostId \cup {None}]
    /\ ask \in [Approval -> [key : Key \cup {None}, name : Name \cup {None}]]
    /\ copy \in [Task -> SUBSET Entry]
    /\ host \in [Task -> HostId \cup {None}]
    /\ consent \subseteq Key
    /\ written \subseteq Entry

Init ==
    /\ file = Enrolled
    /\ uses = [t \in Token |-> 0]
    /\ pending = [k \in Key |-> None]
    /\ offer = [c \in Conn |-> None]
    /\ phase = [t \in Task |-> "idle"]
    /\ mode = [t \in Task |-> "none"]
    /\ target = [t \in Task |-> None]
    /\ ask = [a \in Approval |-> [key |-> None, name |-> None]]
    /\ copy = [t \in Task |-> {}]
    /\ host = [t \in Task |-> None]
    /\ consent = {}
    /\ written = Enrolled

-----------------------------------------------------------------------------
(* Helpers *)

KeyFor(t)  == IF t \in Conn THEN KeyOf[t] ELSE ask[t].key
NameFor(t) == IF t \in Conn THEN NameOf[t] ELSE ask[t].name

WithKey(k)  == {e \in file : e.key = k}
WithName(n) == {e \in file : e.name = n}

Goes(t, p) == phase' = [phase EXCEPT ![t] = p]

\* The task sets out to rewrite the file, at id for modes that need one.
Plans(t, m, id) ==
    /\ Goes(t, "load")
    /\ mode' = [mode EXCEPT ![t] = m]
    /\ target' = [target EXCEPT ![t] = id]

Consents(k) == consent' = consent \cup {k}

TokenValid(t, n) == uses[t] < MaxUses[t] /\ BoundTo[t] \in {n, None}

-----------------------------------------------------------------------------
(* An agent connection, from its verified signature to HelloAck *)

Connect(c) ==
    /\ phase[c] = "idle"
    /\ Goes(c, "byKey")
    /\ UNCHANGED <<file, uses, pending, offer, mode, target, ask, copy, host, history>>

\* Path 1: a known key is its host, whatever hostname comes with it.
FindByKey(c) ==
    /\ phase[c] = "byKey"
    /\ \/ /\ WithKey(KeyOf[c]) = {}
          /\ Goes(c, "byName")
          /\ UNCHANGED host
       \/ \E e \in WithKey(KeyOf[c]) :
            /\ host' = [host EXCEPT ![c] = e.id]
            /\ Goes(c, "acking")
    /\ UNCHANGED <<file, uses, pending, offer, mode, target, ask, copy, history>>

\* Mutant of FindKnownName: the hostname is taken for the identity.
FindTrustedName(c) ==
    /\ phase[c] = "byName"
    /\ \E e \in WithName(NameOf[c]) : host' = [host EXCEPT ![c] = e.id]
    /\ Goes(c, "acking")
    /\ UNCHANGED <<file, uses, pending, offer, mode, target, ask, copy, history>>

\* A known hostname with an unknown key needs a token; without one it is rejected.
FindKnownName(c) ==
    /\ phase[c] = "byName"
    /\ \E e \in WithName(NameOf[c]) : target' = [target EXCEPT ![c] = e.id]
    /\ Goes(c, IF TokenOf[c] = None THEN "gone" ELSE "knownToken")
    /\ UNCHANGED <<file, uses, pending, offer, mode, ask, copy, host, history>>

\* A new host: by token, or without one from loopback, or else by approval.
FindNewName(c) ==
    /\ phase[c] = "byName"
    /\ WithName(NameOf[c]) = {}
    /\ \/ /\ TokenOf[c] # None
          /\ Goes(c, "newToken")
          /\ UNCHANGED <<mode, target, consent>>
       \/ /\ TokenOf[c] = None /\ c \in Loopback
          /\ Plans(c, "register", None)
          /\ Consents(KeyOf[c])
       \/ /\ TokenOf[c] = None /\ c \notin Loopback
          /\ Goes(c, "insert")
          /\ UNCHANGED <<mode, target, consent>>
    /\ UNCHANGED <<file, uses, pending, offer, ask, copy, host, written>>

\* Path 2: the token is spent whether or not it is a re_enroll token.
UseKnownToken(c) ==
    LET t == TokenOf[c] IN
    /\ phase[c] = "knownToken"
    /\ IF TokenValid(t, NameOf[c])
       THEN uses' = [uses EXCEPT ![t] = @ + 1]
       ELSE UNCHANGED uses
    /\ IF TokenValid(t, NameOf[c]) /\ t \in ReEnroll
       THEN Plans(c, "replace", target[c]) /\ Consents(KeyOf[c])
       ELSE Goes(c, "gone") /\ UNCHANGED <<mode, target, consent>>
    /\ UNCHANGED <<file, pending, offer, ask, copy, host, written>>

\* Path 3: a valid token enrols, an invalid one sends the agent to approval.
UseNewToken(c) ==
    LET t == TokenOf[c] IN
    /\ phase[c] = "newToken"
    /\ IF TokenValid(t, NameOf[c])
       THEN /\ uses' = [uses EXCEPT ![t] = @ + 1]
            /\ Plans(c, "register", None)
            /\ Consents(KeyOf[c])
       ELSE /\ Goes(c, "insert")
            /\ UNCHANGED <<uses, mode, target, consent>>
    /\ UNCHANGED <<file, pending, offer, ask, copy, host, written>>

\* Mutant of InsertPending: the registry keeps the key in place of the handler.
InsertKey(c) ==
    /\ phase[c] = "insert"
    /\ Goes(c, "waiting")
    /\ pending' = [pending EXCEPT ![KeyOf[c]] = KeyOf[c]]
    /\ UNCHANGED <<file, uses, offer, mode, target, ask, copy, host, history>>

\* Too many agents are pending, in all or from the address of c.
PendingFull(c) ==
    LET waiting == {k \in Key : pending[k] # None}
    IN \/ Cardinality(waiting) >= MaxPending
       \/ Cardinality({k \in waiting : IpOf[pending[k]] = IpOf[c]}) >= MaxPerIp

\* insert: a full registry turns a new key away; a waiting one is overwritten.
InsertPending(c) ==
    /\ phase[c] = "insert"
    /\ IF pending[KeyOf[c]] = None /\ PendingFull(c)
       THEN Goes(c, "gone") /\ UNCHANGED pending
       ELSE Goes(c, "waiting") /\ pending' = [pending EXCEPT ![KeyOf[c]] = c]
    /\ UNCHANGED <<file, uses, offer, mode, target, ask, copy, host, history>>

\* The approval channel yields the host.
TakeApproval(c) ==
    /\ phase[c] = "waiting"
    /\ offer[c] # None
    /\ host' = [host EXCEPT ![c] = offer[c]]
    /\ Goes(c, "acking")
    /\ UNCHANGED <<file, uses, pending, offer, mode, target, ask, copy, history>>

\* Mutant of GiveUp: the handler returns without removing its entry.
GiveUpAtOnce(c) ==
    /\ phase[c] = "waiting"
    /\ Goes(c, "gone")
    /\ UNCHANGED <<file, uses, pending, offer, mode, target, ask, copy, host, history>>

\* The connection closes or fails, or its sender has been dropped.
GiveUp(c) ==
    /\ phase[c] = "waiting"
    /\ Goes(c, "withdraw")
    /\ UNCHANGED <<file, uses, pending, offer, mode, target, ask, copy, host, history>>

\* remove takes whatever entry the key has, this connection's or a later one's.
Withdraw(c) ==
    /\ phase[c] = "withdraw"
    /\ pending' = [pending EXCEPT ![KeyOf[c]] = None]
    /\ Goes(c, "gone")
    /\ UNCHANGED <<file, uses, offer, mode, target, ask, copy, host, history>>

\* HelloAck is sent, or cannot be.
Ack(c) ==
    /\ phase[c] = "acking"
    /\ Goes(c, "acked") \/ Goes(c, "gone")
    /\ UNCHANGED <<file, uses, pending, offer, mode, target, ask, copy, host, history>>

\* The served connection ends: update_last_seen.
Leave(c) ==
    /\ phase[c] = "acked"
    /\ Plans(c, "touch", host[c])
    /\ UNCHANGED <<file, uses, pending, offer, ask, copy, host, history>>

-----------------------------------------------------------------------------
(* Rewriting the file: read it whole, write it whole *)

\* What a task about to change the host target[t] finds missing ends it there.
LoadFile(t) ==
    /\ phase[t] = "load"
    /\ copy' = [copy EXCEPT ![t] = file]
    /\ IF mode[t] = "register" \/ \E e \in file : e.id = target[t]
       THEN Goes(t, "save")
       ELSE Goes(t, IF t \in Conn THEN "gone" ELSE "done")
    /\ UNCHANGED <<file, uses, pending, offer, mode, target, ask, host, history>>

\* The id a register draws is fresh; the others keep the target's.
IdsFor(t) == IF mode[t] = "register" THEN HostId \ {e.id : e \in written} ELSE {target[t]}

\* The entries that are in the file once t has done what it set out to do to e.
Edit(t, id) ==
    CASE mode[t] = "register" ->
            copy[t] \cup {[id |-> id, name |-> NameFor(t), key |-> KeyFor(t)]}
      [] mode[t] = "replace" ->
            {IF e.id = id THEN [e EXCEPT !.key = KeyFor(t)] ELSE e : e \in copy[t]}
      [] mode[t] = "remove" -> {e \in copy[t] : e.id # id}
      [] OTHER -> copy[t]

\* Who wrote a host's key goes on with that host; the others are finished.
Finishes(t) ==
    /\ Goes(t, IF mode[t] \in {"register", "replace"}
               THEN IF t \in Conn THEN "acking" ELSE "answer"
               ELSE IF t \in Conn THEN "gone" ELSE "done")
    /\ mode' = [mode EXCEPT ![t] = "none"]
    /\ copy' = [copy EXCEPT ![t] = {}]

\* Mutant of SaveFile: a host that is enrolled keeps the key it had.
SaveOldKey(t) ==
    /\ phase[t] = "save"
    /\ \E id \in IdsFor(t) :
        /\ file' = IF mode[t] = "replace" THEN copy[t] ELSE Edit(t, id)
        /\ host' = [host EXCEPT ![t] = id]
    /\ written' = written \cup file'
    /\ Finishes(t)
    /\ UNCHANGED <<uses, pending, offer, target, ask, consent>>

\* The file becomes what the task makes of its copy, whoever has written since.
SaveFile(t) ==
    /\ phase[t] = "save"
    /\ \E id \in IdsFor(t) :
        /\ file' = Edit(t, id)
        /\ host' = [host EXCEPT ![t] = id]
    /\ written' = written \cup file'
    /\ Finishes(t)
    /\ UNCHANGED <<uses, pending, offer, target, ask, consent>>

-----------------------------------------------------------------------------
(* The administrator's calls *)

\* entry_for_fingerprint: the call fails if nobody waits under the key.
ApproveFinds(a, k) ==
    /\ phase[a] = "idle"
    /\ pending[k] # None
    /\ ask' = [ask EXCEPT ![a] = [key |-> k, name |-> NameOf[pending[k]]]]
    /\ Consents(k)
    /\ Goes(a, "byName")
    /\ UNCHANGED <<file, uses, pending, offer, mode, target, copy, host, written>>

\* A hostname that is enrolled gets the new key, another a new entry.
ApproveByName(a) ==
    /\ phase[a] = "byName"
    /\ \/ WithName(ask[a].name) = {} /\ Plans(a, "register", None)
       \/ \E e \in WithName(ask[a].name) : Plans(a, "replace", e.id)
    /\ UNCHANGED <<file, uses, pending, offer, ask, copy, host, history>>

\* approve: the entry is taken out and the host sent to the handler behind it,
\* which may be another one by now, or have stopped listening.
ApproveAnswers(a) ==
    LET k == ask[a].key
        c == pending[k]
        told == c # None /\ phase[c] = "waiting"
    IN
    /\ phase[a] = "answer"
    /\ pending' = [pending EXCEPT ![k] = None]
    /\ offer' = IF told THEN [offer EXCEPT ![c] = host[a]] ELSE offer
    /\ Goes(a, IF told THEN "approved" ELSE "notFound")
    /\ UNCHANGED <<file, uses, mode, target, ask, copy, host, history>>

Remove(r, id) ==
    /\ phase[r] = "idle"
    /\ Plans(r, "remove", id)
    /\ UNCHANGED <<file, uses, pending, offer, ask, copy, host, history>>

\* A token expires or is revoked: the same to an agent as one that is used up.
TokenEnds(t) ==
    /\ uses[t] < MaxUses[t]
    /\ uses' = [uses EXCEPT ![t] = MaxUses[t]]
    /\ UNCHANGED <<file, pending, offer, phase, mode, target, ask, copy, host, history>>

-----------------------------------------------------------------------------

ConnNext(c) ==
    \/ Connect(c) \/ FindByKey(c) \/ FindKnownName(c) \/ FindNewName(c)
    \/ UseKnownToken(c) \/ UseNewToken(c) \/ InsertPending(c) \/ TakeApproval(c)
    \/ GiveUp(c) \/ Withdraw(c) \/ Ack(c) \/ Leave(c)

AdminNext ==
    \/ \E a \in Approval :
        ApproveByName(a) \/ ApproveAnswers(a) \/ \E k \in Key : ApproveFinds(a, k)
    \/ \E r \in Removal, id \in HostId : Remove(r, id)
    \/ \E t \in Token : TokenEnds(t)

Next ==
    \/ \E c \in Conn : ConnNext(c)
    \/ \E t \in Task : LoadFile(t) \/ SaveFile(t)
    \/ AdminNext

Spec == Init /\ [][Next]_vars
-----------------------------------------------------------------------------
(* Properties *)

\* A connection that comes to be served, and every host in the file, has a key
\* that was enrolled to begin with or was let in by a token that was valid for
\* it, by an approval of that very key or by loopback (agent_ws.rs:332-473).
\* Lost updates of the file bring back no key that was never let in.
Admitted == consent \cup {e.key : e \in Enrolled}
KeysAreAdmitted ==
    /\ \A e \in file : e.key \in Admitted
    /\ \A c \in Conn : phase[c] \in {"acking", "acked"} => KeyOf[c] \in Admitted

\* A connection is served only as a host that some save gave its key to, also
\* when an approval was started for an earlier connection (main.rs:568-618).
ServedAsOwnHost ==
    \A c \in Conn : phase[c] \in {"acking", "acked"} =>
        \E e \in written : e.id = host[c] /\ e.key = KeyOf[c]

\* Nobody who has gone is left in the pending registry, where the entry would
\* count towards MAX_PENDING for ever (agent_ws.rs:226-230).
PendingHasHandler ==
    \A k \in Key : pending[k] # None => phase[pending[k]] \in {"waiting", "withdraw"}

\* DOCS.md:1141, the hosts list "Shows all hosts that have successfully completed
\* the TOFU handshake and are registered with the gateway": while its agent is
\* served, a host whose key nobody has replaced or removed since is in the file.
ServedIsListed ==
    \A c \in Conn :
        ( /\ phase[c] = "acked"
          /\ \A e \in written : e.id = host[c] => e.key = KeyOf[c]
          /\ \A r \in Removal : target[r] # host[c] )
        => \E e \in file : e.id = host[c]
=============================================================================
