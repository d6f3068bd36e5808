---------------------------- MODULE CommandRunner ----------------------------
(***************************************************************************)
(* util.rs: one command run by the agent, with a timeout and a cap on its  *)
(* output, from spawn to answer.                                           *)
(*                                                                         *)
(* The command (leader) may start another process (worker), which stays in *)
(* its group or leaves it, and keeps the pipes open or not.  Both run as   *)
(* they like: they may never end, ignore SIGTERM, or write without end.    *)
(***************************************************************************)
EXTENDS HostCommand

CONSTANT Cap  \* bound and limit: chunks of one pipe that are kept

ASSUME CapAssumption == Cap \in Nat

Pipe    == {"stdout", "stderr"}
Process == {"leader", "worker"}

VARIABLES
    call,     \* where wait_capped_with is; "idle" and "answered" are outside it
    alive,    \* the processes that run
    pgroup,   \* ... of the command's process group
    holds,    \* ... with the pipes open
    kept,     \* kept[p]: chunks collected from the pipe
    cut,      \* the pipes closed at the cap
    timedOut  \* the last answer says so

commandVars == <<call, alive, pgroup, holds, kept, cut, timedOut>>
commandRunnerVars == <<reply, commandVars>>

CommandTypeOK ==
    /\ call \in {"idle", "collect", "wait", "grace", "reap", "answered"}
    /\ pgroup \cup holds \subseteq alive /\ alive \subseteq Process
    /\ timedOut \in BOOLEAN
    /\ kept \in [Pipe -> 0..Cap]
    /\ cut \subseteq Pipe

CommandInit ==
    /\ reply = NoReply
    /\ call = "idle"
    /\ alive = {} /\ pgroup = {} /\ holds = {}
    /\ timedOut = FALSE
    /\ kept = [p \in Pipe |-> 0]
    /\ cut = {}

-----------------------------------------------------------------------------
(* The processes. *)

\* The processes in dead end.
Dies(dead) ==
    /\ alive' = alive \ dead /\ pgroup' = pgroup \ dead /\ holds' = holds \ dead

\* The leader starts a worker, perhaps as a daemon of its own session.
Fork ==
    /\ alive = {"leader"}
    /\ \E stays \in BOOLEAN, keeps \in BOOLEAN :
        /\ alive' = Process
        /\ pgroup' = pgroup \cup (IF stays THEN {"worker"} ELSE {})
        /\ holds' = holds \cup (IF keeps /\ "leader" \in holds THEN {"worker"} ELSE {})
    /\ UNCHANGED <<call, kept, cut, timedOut>>

\* The leader closes its output and goes on.
CloseOutput ==
    /\ "leader" \in holds
    /\ holds' = holds \ {"leader"}
    /\ UNCHANGED <<call, alive, pgroup, kept, cut, timedOut>>

Exit(q) ==
    /\ q \in alive
    /\ Dies({q})
    /\ UNCHANGED <<call, kept, cut, timedOut>>

\* A process writes: read_capped keeps it, or at the cap drops the pipe.
Write(q, p) ==
    /\ q \in holds /\ call = "collect" /\ p \notin cut
    /\ IF kept[p] < Cap
       THEN kept' = [kept EXCEPT ![p] = @ + 1] /\ UNCHANGED cut
       ELSE cut' = cut \cup {p} /\ UNCHANGED kept
    /\ UNCHANGED <<call, alive, pgroup, holds, timedOut>>

\* ... to a pipe that was dropped: SIGPIPE ends it unless it is ignored.
WriteClosed(q) ==
    /\ q \in holds /\ cut # {}
    /\ Dies({q})
    /\ UNCHANGED <<call, kept, cut, timedOut>>

-----------------------------------------------------------------------------
(* The agent. *)

\* run_cmd, sudo_as_user and run_cmd_as_user: spawn in a group of its own.  What does not start,
\* as for a user without an account, is answered at once.
Spawn ==
    /\ call \in {"idle", "answered"} /\ alive = {}
    /\ call' = "collect"
    /\ alive' = {"leader"} /\ pgroup' = {"leader"} /\ holds' = {"leader"}
    /\ kept' = [p \in Pipe |-> 0] /\ cut' = {}
    /\ timedOut' = FALSE

\* Both pipes are at their end or dropped.
Collected ==
    /\ call = "collect"
    /\ holds = {} \/ cut = Pipe
    /\ call' = "wait"
    /\ UNCHANGED <<alive, pgroup, holds, kept, cut, timedOut>>

\* child.wait(): answered with the status.
Finished ==
    /\ call = "wait" /\ "leader" \notin alive
    /\ call' = "answered"
    /\ UNCHANGED <<alive, pgroup, holds, kept, cut, timedOut>>

\* Mutant: the timeout is on the collection of output only.
TimeoutWhileCollecting ==
    /\ call = "collect"
    /\ \E dead \in SUBSET pgroup : Dies(dead)
    /\ call' = "grace"
    /\ UNCHANGED <<kept, cut, timedOut>>

\* The timeout: SIGTERM to the group, which processes may ignore.
Timeout ==
    /\ call \in {"collect", "wait"}
    /\ \E dead \in SUBSET pgroup : Dies(dead)
    /\ call' = "grace"
    /\ UNCHANGED <<kept, cut, timedOut>>

\* Mutant: the leader alone is signalled.
KillLeader ==
    /\ call = "grace"
    /\ Dies({"leader"})
    /\ call' = "reap"
    /\ UNCHANGED <<kept, cut, timedOut>>

\* After KILL_GRACE: SIGKILL.
Kill ==
    /\ call = "grace"
    /\ Dies(pgroup)
    /\ call' = "reap"
    /\ UNCHANGED <<kept, cut, timedOut>>

\* child.wait() again: answered as timed out, without the output.
Reaped ==
    /\ call = "reap" /\ "leader" \notin alive
    /\ call' = "answered"
    /\ timedOut' = TRUE
    /\ kept' = [p \in Pipe |-> 0] /\ cut' = {}
    /\ UNCHANGED <<alive, pgroup, holds>>

Agent == Spawn \/ Collected \/ Finished \/ Timeout \/ Kill \/ Reaped

CommandNext ==
    /\ \/ Agent \/ Fork \/ CloseOutput
       \/ \E q \in Process : Exit(q) \/ WriteClosed(q) \/ \E p \in Pipe : Write(q, p)
    /\ reply' = reply

\* The agent goes on; its processes need not.  SIGKILL is always the end of a group.
CommandFairness ==
    WF_commandVars(Collected \/ Finished \/ Timeout) /\ WF_commandVars(Kill) /\ WF_commandVars(Reaped)

-----------------------------------------------------------------------------
(* Properties. *)

\* Nothing of a command that is answered as timed out goes on working in its group, whatever the
\* command started and ignores: killpg of wait_capped_with.
TimedOutIsGone == call = "answered" /\ timedOut => pgroup = {}

\* Every command is answered, also one that never ends, never closes its output, or closes it and
\* never ends: wait_capped_with.
CallEnds == [](call = "collect" => <>(call = "answered"))
=============================================================================
