----------------------------- MODULE MCSessions -----------------------------
(***************************************************************************)
(* A small instance of Sessions: a login that two browser sockets use.       *)
(***************************************************************************)
EXTENDS Sessions, TLC

CONSTANTS s1, w1, w2
=============================================================================
