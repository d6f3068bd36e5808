--------------------------- MODULE MCAgentRegistry ---------------------------
(***************************************************************************)
(* A small instance of AgentRegistry: h1 is dialled twice, h2 once, by     *)
(* three agent connections; one browser socket and one REST call.          *)
(***************************************************************************)
EXTENDS AgentRegistry, TLC

CONSTANTS h1, h2, c1, c2, c3, w1, p1, r1

MCHostOf == (c1 :> h1) @@ (c2 :> h1) @@ (c3 :> h2)
MCPrefixOf == (w1 :> p1)
=============================================================================
