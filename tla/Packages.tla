------------------------------ MODULE Packages ------------------------------
(***************************************************************************)
(* packages.rs: packages, system updates and repositories of a host with   *)
(* one of three package managers.  A command of the manager is the         *)
(* manager's own transaction; what is modelled is what the handler asks of *)
(* it, in which order, and the repository files it edits itself.           *)
(***************************************************************************)
EXTENDS HostCommand, Lines, FiniteSets, SequencesExt

CONSTANTS
    Package,    \* package names that pass is_valid_package_name
    Repo,       \* repository names
    Vendor,     \* a drop-in file of the distribution, named after none of its repositories
    MaxLines    \* bound: lines of pacman.conf

ASSUME PackagesAssumption == Vendor \notin Repo /\ "options" \notin Repo /\ MaxLines \in Nat \ {0, 1}

Manager == {"pacman", "apt", "dnf", "none"}

VARIABLES
    manager,    \* what detect_backend finds
    packages,   \* installed packages
    behind,     \* a newer version of an installed package exists
    listsOld,   \* ... which the local package lists do not know
    conf,       \* pacman.conf: its section headers and the lines under them
    dropIn      \* dropIn[f]: the repositories in file f of sources.list.d or yum.repos.d

packageVars  == <<manager, packages, behind, listsOld>>
packagesVars == <<reply, packageVars, conf, dropIn>>

File == Repo \cup {Vendor}

\* A header opens its section; other lines are known by the section they were written for.
Line == [head : BOOLEAN, of : Repo \cup {"options"}]

PackagesTypeOK ==
    /\ ReplyTyped
    /\ manager \in Manager
    /\ packages \subseteq Package
    /\ behind \in BOOLEAN /\ listsOld \in BOOLEAN
    /\ conf \in Seq(Line) /\ Len(conf) <= MaxLines
    /\ dropIn \in [File -> SUBSET Repo]

PackagesInit ==
    /\ reply = NoReply
    /\ manager \in StartsIn("packages", Manager) \cup StartsIn("repos", Manager)
    /\ packages \in StartsIn("packages", SUBSET Package)
    /\ behind = FALSE /\ listsOld = FALSE
    /\ conf = <<[head |-> TRUE, of |-> "options"], [head |-> FALSE, of |-> "options"]>>
    /\ \E rs \in StartsIn("repos", SUBSET Repo) : dropIn = [f \in File |-> IF f = Vendor THEN rs ELSE {}]

-----------------------------------------------------------------------------
(* Packages and updates. *)

\* install_packages and remove_packages.  A command killed on the way may have handled some.
ChangePackages(op, names) ==
    /\ names # {}
    /\ IF manager = "none"
       THEN Refuse /\ UNCHANGED packages
       ELSE \E some \in SUBSET names, ok \in BOOLEAN :
                /\ ok => some = names
                /\ packages' = IF op = "install" THEN packages \cup some ELSE packages \ some
                /\ Answer(op, names, ok)
    /\ UNCHANGED <<manager, behind, listsOld, conf, dropIn>>

\* A release appears upstream.
NewRelease ==
    /\ behind' = TRUE /\ listsOld' = TRUE
    /\ reply' = NoReply
    /\ UNCHANGED <<manager, packages, conf, dropIn>>

\* refresh_repos.
RefreshRepos ==
    /\ IF manager = "none"
       THEN Refuse /\ UNCHANGED listsOld
       ELSE \E c \in Chain(1) :
                /\ listsOld' = (listsOld /\ c.done = 0)
                /\ Answer("refresh", manager, c.ok)
    /\ UNCHANGED <<manager, packages, behind, conf, dropIn>>

\* External: an upgrade brings the installed packages to what the lists know.
Upgraded(old) == behind /\ old

\* Mutant: dist-upgrade without the apt-get update before it.
UpgradeOnly ==
    /\ manager # "none"
    /\ \E c \in Chain(1) :
        /\ listsOld' = listsOld
        /\ behind' = IF c.done = 1 THEN Upgraded(listsOld') ELSE behind
        /\ Answer("update_system", manager, c.ok)
    /\ UNCHANGED <<manager, packages, conf, dropIn>>

\* update_system: apt refreshes its lists in a command of its own, which must succeed; the
\* others do both in one command, which may be killed in between.
UpdateSystem ==
    /\ IF manager = "none"
       THEN Refuse /\ UNCHANGED <<listsOld, behind>>
       ELSE \E c \in Chain(2) :
                /\ listsOld' = (listsOld /\ c.done = 0)
                /\ behind' = IF c.done = 2 THEN Upgraded(listsOld') ELSE behind
                /\ Answer("update_system", manager, c.ok)
    /\ UNCHANGED <<manager, packages, conf, dropIn>>

\* check_updates.  run_cmd gives the complaint of a command that fails for its output, and the
\* lines of that are taken for updates, so the list may hold some that do not exist.
CheckUpdates ==
    /\ \E found \in BOOLEAN : Answer("check_updates", found, manager # "none")
    /\ UNCHANGED <<packageVars, conf, dropIn>>

\* cleanup_packages with "autoremove", where the manager has it: what nothing needs.
AutoRemove(unneeded) ==
    /\ unneeded \subseteq packages
    /\ IF manager \in {"apt", "dnf"}
       THEN \E c \in Chain(1) :
                /\ packages' = IF c.done = 1 THEN packages \ unneeded ELSE packages
                /\ Answer("cleanup", manager, c.ok)
       ELSE Refuse /\ UNCHANGED packages
    /\ UNCHANGED <<manager, behind, listsOld, conf, dropIn>>

-----------------------------------------------------------------------------
(* Repositories. *)

Block(r) == <<[head |-> TRUE, of |-> r], [head |-> FALSE, of |-> r]>>

\* Mutant: the section is dropped to the end of the file.
WithoutRest(r) ==
    LET from == SelectInSeq(conf, LAMBDA l : l.head /\ l.of = r)
    IN  IF from = 0 THEN conf ELSE SubSeq(conf, 1, from - 1)

\* The loop of remove_repo: from the section's header, each of them, up to the next header.
WithoutSection(r) ==
    LET turn(acc, l) ==
            LET skip == IF l.head THEN l.of = r ELSE acc.skip
            IN  [skip |-> skip, out |-> IF skip THEN acc.out ELSE Append(acc.out, l)]
        after[n \in 0..Len(conf)] ==
            IF n = 0 THEN [skip |-> FALSE, out |-> <<>>] ELSE turn(after[n - 1], conf[n])
    IN  after[Len(conf)].out

\* add_repo.  The name is the section or the drop-in file; apt overwrites a file it has (the
\* name is "custom" when the page leaves it empty), pacman.conf gets another section.  Both are
\* written by tee, dnf's file by dnf.
AddRepo(r, f) ==
    /\ manager = "pacman" => Len(conf) + 2 <= MaxLines
    /\ IF manager = "none"
       THEN Refuse /\ UNCHANGED <<conf, dropIn>>
       ELSE \E c \in Chain(1) :
            /\ conf' \in Teed(conf, conf \o Block(r), {conf \o cut : cut \in Cuts(Block(r))},
                              manager = "pacman", manager = "pacman" /\ c.done = 1)
            /\ \E rs \in Teed(dropIn[f], {r}, {{}}, manager = "apt",
                              manager \in {"apt", "dnf"} /\ c.done = 1) :
                    dropIn' = [dropIn EXCEPT ![f] = rs]
            /\ Answer("add_repo", <<r, f>>, c.ok)
    /\ UNCHANGED packageVars

\* remove_repo as the page calls it: pacman by section, apt by the drop-in file it shows, dnf
\* by the repository's id, which it takes for a file name; `rm -f` is content with no file.
\* pacman.conf is written in place, so what follows a cut is lost.
RemoveRepo(r, f) ==
    /\ IF manager = "apt" THEN r \in dropIn[f] ELSE f = r
    /\ manager = "dnf" => \E g \in File : r \in dropIn[g]
    /\ manager = "pacman" => [head |-> TRUE, of |-> r] \in Range(conf)
    /\ IF manager = "none"
       THEN Refuse /\ UNCHANGED <<conf, dropIn>>
       ELSE \E c \in Chain(1) :
            /\ conf' \in Teed(conf, WithoutSection(r), Cuts(WithoutSection(r)),
                              manager = "pacman", manager = "pacman" /\ c.done = 1)
            /\ dropIn' = IF manager \in {"apt", "dnf"} /\ c.done = 1
                         THEN [dropIn EXCEPT ![f] = {}] ELSE dropIn
            /\ Answer("remove_repo", r, c.ok)
    /\ UNCHANGED packageVars

PackagesNext ==
    \/ \E op \in {"install", "remove"}, names \in SUBSET Package : ChangePackages(op, names)
    \/ NewRelease \/ RefreshRepos \/ UpdateSystem \/ CheckUpdates
    \/ \E unneeded \in SUBSET Package : AutoRemove(unneeded)

ReposNext ==
    \E r \in Repo, f \in File : AddRepo(r, f) \/ RemoveRepo(r, f)

-----------------------------------------------------------------------------
(* Properties. *)

\* What update_system reports as done is done: a release that was out when it started is not
\* missed because the lists it upgrades from were old (packages.rs:776-799).
UpdatedIsCurrent == Told("packages", "update_system") => ~behind

\* Removing a pacman repository takes its sections whole and, when it is reported done, leaves
\* every other line of pacman.conf where it was: the line filter of remove_repo.  A removal that
\* fails leaves the old file, or the first lines of the new one.
OtherSectionsStay ==
    [][\A r \in Repo, f \in File : manager = "pacman" /\ RemoveRepo(r, f) =>
        LET left == Kept(conf, {l \in Line : l.of # r}) IN
        /\ conf' \in {conf} \cup Cuts(left)
        /\ reply'.op = "remove_repo" => conf' = left]_packagesVars
=============================================================================
