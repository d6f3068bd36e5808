---------------------------- MODULE HostPresence ----------------------------
(***************************************************************************)
(* What the gateway's registry of agent connections promises to the rest   *)
(* of the gateway, with no handler, task or lock in sight: a host is       *)
(* reached through at most one connection, every connection is current at  *)
(* most once, and one that has been replaced or removed never becomes      *)
(* current again.  The liveness tokens handed to browser sessions          *)
(* (agent_registry.rs:162-165) are only meaningful under this contract.    *)
(***************************************************************************)
CONSTANTS Host,    \* enrolled hosts, by id
          Conn,    \* agent connections, each accepted at most once
          NoConn   \* no connection, not a member of Conn

VARIABLES current, \* the connection a host is reached through, or NoConn
          retired  \* the connections that have been current and no longer are

vars == <<current, retired>>

Init ==
    /\ current = [h \in Host |-> NoConn]
    /\ retired = {}

\* A fresh connection becomes the way to reach h; a previous one is retired.
Connect(h, c) ==
    /\ c \notin retired
    /\ \A g \in Host : current[g] # c
    /\ current' = [current EXCEPT ![h] = c]
    /\ retired' = retired \cup ({current[h]} \ {NoConn})

\* h is no longer reachable; whatever connection it had is retired.
Disconnect(h) ==
    /\ current[h] # NoConn
    /\ current' = [current EXCEPT ![h] = NoConn]
    /\ retired' = retired \cup {current[h]}

Next == \E h \in Host : Disconnect(h) \/ \E c \in Conn : Connect(h, c)

Spec == Init /\ [][Next]_vars
=============================================================================
