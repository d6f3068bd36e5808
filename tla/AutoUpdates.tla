---------------------------- MODULE AutoUpdates ----------------------------
(***************************************************************************)
(* packages.rs, automatic updates: the page (Packages.tsx) loads the       *)
(* settings from the configuration of unattended-upgrades or dnf-automatic *)
(* and its timer, and saves all of them at once.                           *)
(*                                                                         *)
(* automatic.conf is kept as its lines, because ini_get and ini_set edit   *)
(* it in place; the two apt files are written whole and kept as settings.  *)
(* Reboot and clean-up settings are written and read like the scope.       *)
(***************************************************************************)
EXTENDS HostCommand, Lines, FiniteSets, SequencesExt

CONSTANTS
    Updater,  \* {"apt"}, {"dnf"} or both: the hosts considered
    IniFile   \* what automatic.conf may hold before the panel edits it, as sequences of lines

Mode     == {"install", "download"}
Scope    == {"all", "security"}
Schedule == {"", "daily", "refused"}  \* "refused" does not pass is_valid_oncalendar

Settings == [mode : Mode, scope : Scope, schedule : Schedule]

\* Lines of automatic.conf: section headers and assignments.
Header(s)    == [key |-> "section", val |-> s]
Assign(k, v) == [key |-> k, val |-> v]
IniKey  == {"apply_updates", "upgrade_type"}
IniVal  == {"commands", "emitters", "yes", "no", "security", "default"}
IniText == [key : IniKey \cup {"section"}, val : IniVal]

ASSUME AutoUpdatesAssumption ==
    /\ Updater # {} /\ Updater \subseteq {"apt", "dnf"}
    /\ \A lines \in IniFile : lines \in Seq(IniText)

VARIABLES
    updater,   \* the package manager
    tool,      \* unattended-upgrade or dnf-automatic is installed
    periodic,  \* 20auto-upgrades: [unattended, download]
    managed,   \* the scope in 51tenodera-unattended
    ini,       \* automatic.conf, as its lines
    readable,  \* automatic.conf is the UTF-8 text that read_to_string asks for
    timerFile, \* the OnCalendar of the drop-in, "" when there is none
    timerRuns, \* ... of the timer as systemd has loaded it
    timerOn    \* the timer is enabled and active

autoVars == <<updater, tool, periodic, managed, ini, readable, timerFile, timerRuns, timerOn>>
autoUpdatesVars == <<reply, autoVars>>

AutoUpdatesTypeOK ==
    /\ ReplyTyped
    /\ updater \in Updater
    /\ tool \in BOOLEAN
    /\ periodic \in [unattended : BOOLEAN, download : BOOLEAN]
    /\ managed \in Scope
    /\ ini \in Seq(IniText)
    /\ readable \in BOOLEAN
    /\ {timerFile, timerRuns} \subseteq Schedule \ {"refused"}
    /\ timerOn \in BOOLEAN

AutoUpdatesInit ==
    /\ reply = NoReply
    /\ updater \in StartsIn("auto", Updater)
    /\ tool \in StartsIn("auto", BOOLEAN)
    /\ \E on \in StartsIn("auto", BOOLEAN) : periodic = [unattended |-> on, download |-> on]
    /\ managed = "security"
    /\ ini \in IF part = "auto" /\ updater = "dnf" /\ tool
               THEN IniFile ELSE {<<>>}
    /\ readable \in IF part = "auto" /\ updater = "dnf" /\ tool THEN BOOLEAN ELSE {TRUE}
    /\ timerFile = "" /\ timerRuns = ""
    /\ timerOn \in StartsIn("auto", BOOLEAN)

-----------------------------------------------------------------------------
(* ini_get and ini_set. *)

\* The section line i belongs to; "" before the first header.
SectionAt(lines, i) ==
    LET above == {j \in 1..i : lines[j].key = "section"}
    IN  IF above = {} THEN "" ELSE lines[CHOOSE j \in above : \A k \in above : k <= j].val

\* The first assignment of the key in the section, or the default.
IniGet(lines, section, key, default) ==
    LET hits == {i \in DOMAIN lines : lines[i].key = key /\ SectionAt(lines, i) = section}
    IN  IF hits = {} THEN default ELSE lines[CHOOSE i \in hits : \A j \in hits : i <= j].val

\* What ini_set appends at the end of a section: the keys it has not met.
MissingKeys(kv, met) ==
    Kept(kv, {l \in Range(kv) : l.key \notin met})

\* Mutant: a key is replaced in every section.
IniStepAnywhere(section, kv, acc, l) ==
    LET closed == IF acc.in THEN acc.out \o MissingKeys(kv, acc.met) ELSE acc.out
        mine   == {i \in DOMAIN kv : kv[i].key = l.key}
    IN  CASE l.key = "section" ->
                [out |-> Append(closed, l), met |-> acc.met,
                 in |-> l.val = section, seen |-> acc.seen \/ l.val = section]
          [] l.key # "section" /\ mine # {} ->
                [acc EXCEPT !.out = Append(@, kv[CHOOSE i \in mine : TRUE]),
                            !.met = IF acc.in THEN @ \cup {l.key} ELSE @]
          [] OTHER -> [acc EXCEPT !.out = Append(@, l)]

\* One turn of ini_set's loop over the lines.
IniStep(section, kv, acc, l) ==
    LET closed == IF acc.in THEN acc.out \o MissingKeys(kv, acc.met) ELSE acc.out
        mine   == {i \in DOMAIN kv : kv[i].key = l.key}
    IN  CASE l.key = "section" ->
                [out |-> Append(closed, l), met |-> acc.met,
                 in |-> l.val = section, seen |-> acc.seen \/ l.val = section]
          [] l.key # "section" /\ acc.in /\ mine # {} ->
                [acc EXCEPT !.out = Append(@, kv[CHOOSE i \in mine : TRUE]),
                            !.met = @ \cup {l.key}]
          [] OTHER -> [acc EXCEPT !.out = Append(@, l)]

\* The loop of ini_set.
IniLoop(lines, section, kv) ==
    LET after[n \in 0..Len(lines)] ==
            IF n = 0 THEN [out |-> <<>>, met |-> {}, in |-> FALSE, seen |-> FALSE]
            ELSE IniStep(section, kv, after[n - 1], lines[n])
    IN  after[Len(lines)]

\* Mutant: the keys the last section lacks are forgotten.
IniSetShort(lines, section, kv) ==
    LET end == IniLoop(lines, section, kv)
    IN  IF end.seen THEN end.out ELSE Append(end.out, Header(section)) \o kv

IniSet(lines, section, kv) ==
    LET end == IniLoop(lines, section, kv)
        out == IF end.in THEN end.out \o MissingKeys(kv, end.met) ELSE end.out
    IN  IF end.seen THEN out ELSE Append(out, Header(section)) \o kv

-----------------------------------------------------------------------------
(* Status: what the page is shown. *)

AptStatus ==
    [enabled |-> tool /\ (periodic.unattended \/ periodic.download),
     mode |-> IF periodic.unattended THEN "install" ELSE "download",
     scope |-> managed, schedule |-> timerRuns]

\* Lines as the handlers read them: an unreadable file has none.
TextOf(lines) == IF readable THEN lines ELSE <<>>

DnfStatus ==
    [enabled |-> timerOn,
     mode |-> IF IniGet(TextOf(ini), "commands", "apply_updates", "") = "yes"
              THEN "install" ELSE "download",
     scope |-> IF IniGet(TextOf(ini), "commands", "upgrade_type", "default") = "security"
               THEN "security" ELSE "all",
     schedule |-> timerRuns]

Status == IF updater = "apt" THEN AptStatus ELSE DnfStatus

-----------------------------------------------------------------------------
(* Saving. *)

\* set_timer_schedule: the drop-in is written, and the results of daemon-reload and restart are
\* not looked at.  A drop-in that is cut empties the timer's schedule.
Reschedule(schedule, started, written) ==
    /\ timerFile' \in IF schedule \in {"", "refused"} THEN {timerFile}
                      ELSE Teed(timerFile, schedule, {""}, started, written)
    /\ timerRuns' \in {timerRuns, timerFile'}

\* build_apt_periodic.  The mode is not kept while updates are off.
AptPeriodic(on, mode) == [unattended |-> on /\ mode = "install", download |-> on]

\* What a cut leaves of it: the second setting is missing, or both.
PeriodicCuts(on) == {[unattended |-> FALSE, download |-> d] : d \in {FALSE, on}}

\* apt_set: install the tool if it is needed, write the two files, set the schedule.  A bad
\* schedule is refused after the files are written.  Enabling the timers is not looked at.
AptSet(on, s) ==
    /\ updater = "apt"
    /\ \E c \in Chain(4) :
        LET refused == s.schedule = "refused" IN
        /\ refused => c.done <= 3 /\ ~c.ok
        /\ (tool \/ ~on) => c.done # 0
        /\ tool' = (tool \/ (on /\ c.done >= 1))
        /\ periodic' \in Teed(periodic, AptPeriodic(on, s.mode), PeriodicCuts(on), c.done >= 1, c.done >= 2)
        /\ managed' \in Teed(managed, s.scope, {"security"}, c.done >= 2, c.done >= 3)
        /\ Reschedule(s.schedule, c.done >= 3, c.done = 4)
        /\ timerOn' \in IF on /\ c.ok THEN {timerOn, TRUE} ELSE {timerOn}
        /\ Answer("autoupdate_set", [on |-> on, settings |-> s], c.ok)
    /\ UNCHANGED <<updater, ini, readable>>

\* dnf_set, to turn updates off: the timer and nothing else.
DnfOff(s) ==
    /\ updater = "dnf"
    /\ \E c \in Chain(1) :
        /\ timerOn' = (timerOn /\ c.done = 0)
        /\ Answer("autoupdate_set", [on |-> FALSE, settings |-> s], c.ok)
    /\ UNCHANGED <<updater, tool, periodic, managed, ini, readable, timerFile, timerRuns>>

DnfKeys(s) ==
    <<Assign("apply_updates", IF s.mode = "install" THEN "yes" ELSE "no"),
      Assign("upgrade_type", IF s.scope = "security" THEN "security" ELSE "default")>>

\* External: automatic.conf as the package brings it.
PackagedIni == <<Header("commands"), Assign("apply_updates", "no"), Header("emitters")>>

\* ... and on: install, edit automatic.conf in place, schedule, enable the timer.  What is written
\* is built from what could be read; the file may be cut inside a character.
DnfOn(s) ==
    /\ updater = "dnf"
    /\ \E c \in Chain(4) :
        /\ s.schedule = "refused" => c.done <= 2 /\ ~c.ok
        /\ tool => c.done # 0
        /\ tool' = (tool \/ c.done >= 1)
        /\ LET held == IF tool \/ c.done = 0 THEN ini ELSE PackagedIni
               new  == IniSet(TextOf(held), "commands", DnfKeys(s))
           IN  \E file \in Teed(<<held, readable>>, <<new, TRUE>>, Cuts(new) \X BOOLEAN,
                                c.done >= 1, c.done >= 2) :
                    ini' = file[1] /\ readable' = file[2]
        /\ Reschedule(s.schedule, c.done >= 2, c.done >= 3)
        /\ timerOn' = (timerOn \/ c.done = 4)
        /\ Answer("autoupdate_set", [on |-> TRUE, settings |-> s], c.ok)
    /\ UNCHANGED <<updater, periodic, managed>>

AutoUpdatesNext ==
    \E s \in Settings :
        \/ \E on \in BOOLEAN : AptSet(on, s)
        \/ DnfOff(s) \/ DnfOn(s)

-----------------------------------------------------------------------------
(* Properties. *)

\* Settings the panel says it saved are the ones it shows next: what apt_set and dnf_set
\* write is what apt_status and dnf_status read back, whatever automatic.conf held before.
\* (The schedule is read from systemd, which may not have been reloaded.)
SavedIsShown ==
    Told("auto", "autoupdate_set") =>
        LET saved == reply.arg.settings IN
        /\ Status.enabled = reply.arg.on
        /\ reply.arg.on => /\ Status.mode = saved.mode
                           /\ Status.scope = saved.scope

\* A save of automatic.conf adds nothing to its other sections, and one that is reported done
\* leaves them as they were, unless the file could not be read: ini_set and the tee of dnf_set.
OtherSettingsStay ==
    [][LET foreign(lines) == {x \in {<<SectionAt(lines, i), lines[i]>> : i \in DOMAIN lines} :
                                x[1] # "commands"}
       IN  tool => /\ foreign(ini') \subseteq foreign(ini)
                   /\ readable /\ reply'.op = "autoupdate_set" => foreign(ini') = foreign(ini)
      ]_autoUpdatesVars
=============================================================================
