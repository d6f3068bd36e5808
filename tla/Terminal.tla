------------------------------ MODULE Terminal ------------------------------
(***************************************************************************)
(* terminal_pty.rs: terminals of one agent connection, each a task beside  *)
(* the router, from Open to the last Close message.  Every stream has a    *)
(* channel of its own: the gateway refuses an id in use.                   *)
(***************************************************************************)
EXTENDS HostCommand

CONSTANTS
    Stream,   \* terminals opened in a behaviour, named by their channel
    OutRoom   \* bound and limit: the queue of outgoing messages

ASSUME OutRoomAssumption == OutRoom \in Nat \ {0}

VARIABLES
    task,     \* task[s]: where the stream's task is
    shell,    \* shell[s]: its shell runs
    asked,    \* the streams whose shutdown flag is set
    routed,   \* active_channels of the router
    writers,  \* the streams whose descriptor data() can find
    room,     \* free places in the queue
    linked    \* the connection to the gateway is there

terminalState == <<task, shell, asked, routed, writers, room, linked>>
terminalVars  == <<reply, terminalState>>

TerminalTypeOK ==
    /\ task \in [Stream -> {"none", "ready", "starting", "reading", "sending", "closing", "last", "ended"}]
    /\ shell \in [Stream -> BOOLEAN]
    /\ asked \cup routed \cup writers \subseteq Stream
    /\ room \in 0..OutRoom
    /\ linked \in BOOLEAN

TerminalInit ==
    /\ reply = NoReply
    /\ task = [s \in Stream |-> "none"]
    /\ shell = [s \in Stream |-> FALSE]
    /\ asked = {} /\ routed = {} /\ writers = {}
    /\ room = OutRoom
    /\ linked = TRUE

Goes(s, to) == task' = [task EXCEPT ![s] = to]

-----------------------------------------------------------------------------
(* The router and the connection. *)

Open(s) ==
    /\ linked /\ task[s] = "none"
    /\ Goes(s, "ready")
    /\ routed' = routed \cup {s}
    /\ UNCHANGED <<shell, asked, writers, room, linked>>

\* A Close from the page.
Close(s) ==
    /\ linked /\ s \in routed
    /\ routed' = routed \ {s} /\ asked' = asked \cup {s}
    /\ UNCHANGED <<task, shell, writers, room, linked>>

\* The writer task sends a message to the gateway.
Drain ==
    /\ linked /\ room < OutRoom
    /\ room' = room + 1
    /\ UNCHANGED <<task, shell, asked, routed, writers, linked>>

\* The connection ends: the router goes with its channels, and no flag is set.
Lost ==
    /\ linked
    /\ linked' = FALSE
    /\ routed' = {}
    /\ UNCHANGED <<task, shell, asked, writers, room>>

-----------------------------------------------------------------------------
(* A stream. *)

\* Up to the loop: refused (password, shell, no terminal), or started.
Start(s) ==
    /\ task[s] = "starting"
    /\ \/ Goes(s, "last") /\ UNCHANGED <<shell, writers>>
       \/ /\ Goes(s, "reading")
          /\ shell' = [shell EXCEPT ![s] = TRUE]
          /\ writers' = writers \cup {s}
    /\ UNCHANGED <<asked, routed, room, linked>>

\* There is output to read.
Output(s) ==
    /\ task[s] = "reading" /\ shell[s]
    /\ Goes(s, "sending")
    /\ UNCHANGED <<shell, asked, routed, writers, room, linked>>

\* The shell ends on its own.
ShellExit(s) ==
    /\ shell[s]
    /\ shell' = [shell EXCEPT ![s] = FALSE]
    /\ UNCHANGED <<task, asked, routed, writers, room, linked>>

\* tx.send waits for a free place; it fails when the connection is gone.
Send(s) ==
    /\ task[s] = "sending"
    /\ \/ linked /\ room > 0 /\ room' = room - 1 /\ Goes(s, "reading")
       \/ ~linked /\ Goes(s, "closing") /\ UNCHANGED room
    /\ UNCHANGED <<shell, asked, routed, writers, linked>>

\* End of file of the terminal.
Hangup(s) ==
    /\ task[s] = "reading" /\ ~shell[s]
    /\ Goes(s, "closing")
    /\ UNCHANGED <<shell, asked, routed, writers, room, linked>>

\* Mutant: the flag is looked at before the loop only.
ShutdownAtStart(s) ==
    /\ task[s] = "starting" /\ s \in asked
    /\ Goes(s, "last")
    /\ UNCHANGED <<shell, asked, routed, writers, room, linked>>

\* The other branch of the select.  A sender that is gone without setting the flag (Lost) wakes
\* it again and again, to no effect.
Shutdown(s) ==
    /\ task[s] = "reading" /\ s \in asked
    /\ Goes(s, "closing")
    /\ UNCHANGED <<shell, asked, routed, writers, room, linked>>

Cleanup(s) ==
    /\ task[s] = "closing"
    /\ Goes(s, "last")
    /\ writers' = writers \ {s}
    /\ UNCHANGED <<shell, asked, routed, room, linked>>

\* Ready before the stream and Close after it: sent if the connection is there.
Announce(s) ==
    /\ task[s] \in {"ready", "last"}
    /\ IF linked THEN room > 0 /\ room' = room - 1 ELSE UNCHANGED room
    /\ Goes(s, IF task[s] = "ready" THEN "starting" ELSE "ended")
    /\ UNCHANGED <<shell, asked, routed, writers, linked>>

\* What the runtime schedules whatever the shell and the page do.
Runs(s) == Start(s) \/ Send(s) \/ Hangup(s) \/ Cleanup(s) \/ Announce(s)

TerminalNext ==
    /\ \/ Drain \/ Lost
       \/ \E s \in Stream : \/ Runs(s) \/ Shutdown(s)
                            \/ Open(s) \/ Close(s) \/ Output(s) \/ ShellExit(s)
    /\ reply' = reply

\* Tasks are scheduled and the queue is drained; Send and Announce wait in line for a place, and
\* select! takes one of its ready branches at random, so a flag that is set is seen.
TerminalFairness ==
    /\ WF_terminalState(Drain)
    /\ \A s \in Stream : /\ WF_terminalState(Start(s) \/ Hangup(s) \/ Cleanup(s))
                         /\ SF_terminalState(Send(s) \/ Announce(s))
                         /\ SF_terminalState(Shutdown(s))

-----------------------------------------------------------------------------
(* Properties. *)

\* A terminal that the page closes ends and lets go of its descriptor, although its shell may
\* write without end, the queue may be full, the Close may come before it has started or the
\* connection be lost after it (TerminalPtyHandler::stream).
ClosedTerminalEnds ==
    \A s \in Stream : [](s \in asked => <>(task[s] = "ended" /\ s \notin writers))
=============================================================================
