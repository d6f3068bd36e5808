---------------------------- MODULE HostCommand ----------------------------
(***************************************************************************)
(* What a request handler of the agent does to its host: a chain of        *)
(* commands, run one after the other as the requesting user (util.rs), and *)
(* one answer.                                                             *)
(*                                                                         *)
(* The router serves one request at a time, so a handler is one step whose *)
(* outcome says how far its chain came.  A command that fails changes      *)
(* nothing; one that is killed at its timeout, or whose agent dies, may or *)
(* may not have taken effect, and then the page is not told of success.    *)
(***************************************************************************)
EXTENDS Naturals

VARIABLES
    part,   \* the part of the host a behaviour is about: parts share no state, and requests
            \* to different parts commute, so each is explored on its own
    reply   \* the operation and argument that the agent's latest answer says are done; NoReply
            \* when it was an error, a listing, or did not arrive

\* The values a variable of part p may start with; one will do in behaviours of another part.
StartsIn(p, S) == IF part = p THEN S ELSE {CHOOSE x \in S : TRUE}

NoReply == [op |-> "none", arg |-> "none"]

ReplyTyped == DOMAIN reply = {"op", "arg"}

\* A chain of n commands that stops at the first that does not answer ok: "done" of them
\* took effect, and the last of those may have been killed or its answer lost.
Chain(n) == {c \in [done : 0..n, ok : BOOLEAN] : c.ok => c.done = n}

Answer(op, arg, ok) == reply' = IF ok THEN [op |-> op, arg |-> arg] ELSE NoReply

\* What a file holds after a tee that truncates it and then writes: the new content when the tee
\* is done, the old when it did not start, one of the cuts when it was the one that failed.
Teed(old, new, cuts, started, done) ==
    IF done THEN {new} ELSE IF started THEN {old} \cup cuts ELSE {old}

\* The handler refuses before it runs anything.
Refuse == reply' = NoReply

Told(p, op) == part = p /\ reply.op = op
=============================================================================
