---------------------------- MODULE MCEnrollment ----------------------------
(***************************************************************************)
(* A small instance of Enrollment.  n1 is enrolled with key k1 as i1.  c1  *)
(* is its agent, on the gateway's own machine; c2 presents a new key for   *)
(* n1 and a re_enroll token that may be used once (which enrols it as new  *)
(* if n1 was removed before); c3 and c4 are two dials of a new host.       *)
(***************************************************************************)
EXTENDS Enrollment, TLC

CONSTANTS c1, c2, c3, c4, k1, k2, k3, n1, n2, i1, i2, i3, i4, t1

File1 == {[id |-> i1, name |-> n1, key |-> k1]}
MCKeyOf == [c \in Conn |-> CASE c = c1 -> k1 [] c = c2 -> k2 [] OTHER -> k3]
MCNameOf == [c \in Conn |-> IF c \in {c1, c2} THEN n1 ELSE n2]
MCIpOf == [c \in Conn |-> IF c = c1 THEN "local" ELSE "remote"]
MCTokenOf == [c \in Conn |-> IF c = c2 THEN t1 ELSE None]
\* Ids are drawn at random, and the two dials c3 and c4 are alike.
Alike == Permutations({i2, i3, i4}) \cup Permutations({c3, c4})
MCMaxUses == (t1 :> 1)
MCBoundTo == (t1 :> n1)
=============================================================================
