------------------------------ MODULE Services ------------------------------
(***************************************************************************)
(* Handlers that write a daemon's configuration and have the daemon load   *)
(* it (ssh_manage.rs, chrony.rs, timesync.rs, dns.rs, kdump.rs and the NTP *)
(* servers of system_settings.rs), and the authorized_keys of an account.  *)
(*                                                                         *)
(* A configuration is what the page edits in it, whether its other lines   *)
(* are still there, and whether the daemon accepts it.                     *)
(***************************************************************************)
EXTENDS HostCommand, Lines, FiniteSets, SequencesExt

CONSTANTS
    Daemon,   \* the daemons considered, of sshd, chronyd, timesyncd, resolved and kdump
    Setting,  \* values of what the page edits: servers, or the text
    Key,      \* key lines that parse_key_line and ssh-keygen accept
    MaxKeys   \* bound: lines of authorized_keys

ASSUME ServicesAssumption ==
    /\ Daemon # {} /\ Daemon \subseteq {"sshd", "chronyd", "timesyncd", "resolved", "kdump"}
    /\ Setting # {} /\ MaxKeys \in Nat

Config == [set : Setting, others : BOOLEAN, valid : BOOLEAN]

\* A line of authorized_keys that is no key.
Remark == "#"

VARIABLES
    daemon,   \* the daemon
    file,     \* its configuration on disk
    runs,     \* the configuration it last loaded
    serves,   \* it is running
    keys      \* authorized_keys, as its lines

serviceState == <<daemon, file, runs, serves>>
servicesVars == <<reply, serviceState, keys>>

ServicesTypeOK ==
    /\ ReplyTyped
    /\ daemon \in Daemon
    /\ file \in Config
    /\ runs \in Config
    /\ serves \in BOOLEAN
    /\ keys \in Seq(Key \cup {Remark}) /\ Len(keys) <= MaxKeys

ServicesInit ==
    /\ reply = NoReply
    /\ daemon \in StartsIn("services", Daemon)
    /\ file \in StartsIn("services", {c \in Config : c.others /\ c.valid})
    /\ runs = file
    /\ serves \in IF daemon = "sshd" THEN {TRUE} ELSE StartsIn("services", BOOLEAN)
    /\ keys \in StartsIn("keys", UNION {[1..n -> Key \cup {Remark}] : n \in 0..MaxKeys})

-----------------------------------------------------------------------------
(* Configurations. *)

\* A daemon (re)started on a configuration: it does not come up on one it refuses.
StartsOn(c) ==
    /\ serves' = c.valid
    /\ runs' = IF c.valid THEN c ELSE runs

\* What a cut write leaves of a configuration: the daemon may or may not accept it.
Pieces(new) == {[new EXCEPT !.others = FALSE, !.valid = v] : v \in BOOLEAN}

Writes(new, c) == file' \in Teed(file, new, Pieces(new), TRUE, c.done >= 1)

\* Write the file, then restart the daemon, whose failure is the answer.
WriteAndRestart(new) ==
    \E c \in Chain(2) :
        /\ c.ok => new.valid
        /\ Writes(new, c)
        /\ IF c.done = 2 THEN StartsOn(new) ELSE UNCHANGED <<runs, serves>>
        /\ Answer("set", new, c.ok)

\* Mutant: the configuration is not tried first.
SetSshdUnchecked(new) ==
    daemon = "sshd" /\ WriteAndRestart(new) /\ UNCHANGED daemon

\* set_sshd: sshd -t on a scratch copy, a backup nobody looks at again, the file, a reload.
SetSshd(new) ==
    /\ daemon = "sshd"
    /\ IF new.valid
       THEN WriteAndRestart(new)
       ELSE Refuse /\ UNCHANGED <<file, runs, serves>>
    /\ UNCHANGED daemon

\* save_config of chrony.rs and timesync.rs: the text of the page, unseen.
SaveConfig(new) ==
    /\ daemon \in {"chronyd", "timesyncd"}
    /\ WriteAndRestart(new)
    /\ UNCHANGED daemon

\* A configuration that is made from what the page sends and nothing else.
MadeFrom(s) == [set |-> s, others |-> FALSE, valid |-> TRUE]

\* set_servers and set_chrony_servers keep every line that names no server, the faulty ones
\* included, unless the file cannot be read, when there are none; set_timesyncd_servers writes a
\* drop-in that the others do not depend on.
SetServers(s) ==
    /\ daemon \in {"chronyd", "timesyncd"}
    /\ \E new \in {[file EXCEPT !.set = s], MadeFrom(s)} : WriteAndRestart(new)
    /\ UNCHANGED daemon

\* set_resolved_config: the file is made from the eight keys of the page; resolved takes no line of
\* it amiss.  A signal tells it to load the file, which a resolved that is stopped does not, and
\* the answer is ok when the signal is sent; only when it is not, resolved is restarted.
SetResolved(s) ==
    /\ daemon = "resolved"
    /\ \E c, restart \in Chain(1), hup \in BOOLEAN :
        /\ Writes(MadeFrom(s), c)
        /\ IF c.ok /\ ~hup /\ restart.done = 1
           THEN StartsOn(MadeFrom(s))
           ELSE /\ runs' \in IF c.ok /\ serves THEN {runs, MadeFrom(s)} ELSE {runs}
                /\ UNCHANGED serves
        /\ Answer("set", MadeFrom(s), c.ok /\ (hup \/ restart.ok))
    /\ UNCHANGED daemon

\* kdump_set_config: written, then tested, then restarted if the test passes (kdumpctl reload
\* does both, and may have unloaded the old one by then).  The answer is ok whenever the file was
\* written; "restarted" tells the rest.
KdumpSet(new) ==
    /\ daemon = "kdump"
    /\ \E c \in Chain(2) :
        /\ c.ok => new.valid
        /\ Writes(new, c)
        /\ IF c.done = 2 /\ new.valid
           THEN StartsOn(new)
           ELSE serves' \in (IF c.done = 2 THEN {serves, FALSE} ELSE {serves}) /\ UNCHANGED runs
        /\ Answer(IF c.ok THEN "set" ELSE "written", new, c.done >= 1)
    /\ UNCHANGED daemon

\* The buttons: restart, start and stop, where the daemon's page has them.
Command(verb) ==
    /\ daemon \in IF verb = "restart" THEN {"chronyd", "timesyncd", "resolved"} ELSE {"resolved"}
    /\ \E c \in Chain(1) :
        /\ CASE c.done = 0 \/ (verb = "start" /\ serves) -> UNCHANGED <<runs, serves>>
             [] c.done = 1 /\ verb = "stop" -> serves' = FALSE /\ UNCHANGED runs
             [] OTHER -> StartsOn(file)
        /\ c.ok /\ verb # "stop" => serves'
        /\ Answer(verb, daemon, c.ok)
    /\ UNCHANGED <<daemon, file>>

ServicesNext ==
    /\ \/ \E others, valid \in BOOLEAN, s \in Setting :
            LET new == [set |-> s, others |-> others, valid |-> valid] IN
            SetSshd(new) \/ SaveConfig(new) \/ KdumpSet(new)
       \/ \E s \in Setting : SetServers(s) \/ SetResolved(s)
       \/ \E verb \in {"restart", "start", "stop"} : Command(verb)
    /\ UNCHANGED keys

-----------------------------------------------------------------------------
(* authorized_keys. *)

\* The lines as the handlers read them: a file that cannot be read has none.
KeysAsRead == {keys, <<>>}

\* apply_authkeys: the directory, the file, its owner and mode.  An error after the write
\* leaves the new file.
ApplyKeys(op, arg, new) ==
    \E c \in Chain(4) :
        /\ keys' \in Teed(keys, new, Cuts(new), c.done >= 1, c.done >= 2)
        /\ Answer(op, arg, c.ok)

\* add_key.
AddKey(k, lines) ==
    /\ Len(lines) < MaxKeys
    /\ IF k \in Range(lines)
       THEN Refuse /\ UNCHANGED keys
       ELSE ApplyKeys("add_key", k, Append(lines, k))

\* Mutant: only the first of several equal lines goes.
RemoveOneKey(k, lines) == ApplyKeys("remove_key", k, RemoveFirst(lines, k))

\* remove_key: every line that is the key; there need be none.
RemoveKey(k, lines) == ApplyKeys("remove_key", k, Kept(lines, Range(lines) \ {k}))

\* edit_key: the first line that is the old key, which the page may have read long ago.
EditKey(old, new, lines) ==
    IF old \notin Range(lines) \/ (new # old /\ new \in Range(lines))
    THEN Refuse /\ UNCHANGED keys
    ELSE ApplyKeys("edit_key", new,
                   [lines EXCEPT ![SelectInSeq(lines, LAMBDA l : l = old)] = new])

KeysNext ==
    /\ \E k \in Key, lines \in KeysAsRead :
            AddKey(k, lines) \/ RemoveKey(k, lines) \/ \E new \in Key : EditKey(k, new, lines)
    /\ UNCHANGED serviceState

-----------------------------------------------------------------------------
(* Properties. *)

\* A configuration reported as saved is whole on disk, whatever earlier writes left cut, and is the
\* one its daemon runs (the restarts and reloads after each write) unless the daemon is resolved,
\* which is only sent a signal; and a text that sshd would refuse never takes it down, nor does a
\* write that is cut (set_sshd).
ConfigIsInForce ==
    /\ \A op \in {"set", "written"} : Told("services", op) => file = reply.arg
    /\ Told("services", "set") /\ daemon # "resolved" => serves /\ runs = file
    /\ part = "services" /\ daemon = "sshd" => serves

\* A key that was removed opens the account no more, however often it was listed (remove_key),
\* and one that was added or edited does.
KeysAreInForce ==
    /\ Told("keys", "remove_key") => reply.arg \notin Range(keys)
    /\ \A op \in {"add_key", "edit_key"} : Told("keys", op) => reply.arg \in Range(keys)

\* What a page was told of a saved configuration or of the keys of an account holds on the host.
SavedIsInForce == ConfigIsInForce /\ KeysAreInForce
=============================================================================
