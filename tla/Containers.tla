----------------------------- MODULE Containers -----------------------------
(***************************************************************************)
(* containers.rs: the containers and volumes of a host's docker or podman, *)
(* and the page that lists them with their owner (Containers.tsx).         *)
(*                                                                         *)
(* docker keeps one store, which members of its group reach; podman keeps  *)
(* one for root and one for every user.  Container ids are unique, volume  *)
(* names only within a store.  Images are listed and removed like          *)
(* containers, networks like volumes.                                      *)
(***************************************************************************)
EXTENDS HostCommand

CONSTANTS
    Container,  \* container ids
    Volume      \* volume names

VARIABLES
    engine,     \* what detect_runtime finds
    member,     \* the administrator is a member of docker's group
    up,         \* docker's daemon runs; podman needs none
    store,      \* store[o]: what root and the user have
    running,    \* containers that run
    table       \* the rows the page shows

containerVars  == <<engine, member, up, store, running, table>>
containersVars == <<reply, containerVars>>

Owner == {"user", "root"}
Thing == Container \cup Volume
Row   == [id : Thing, owner : Owner]

ContainersTypeOK ==
    /\ ReplyTyped
    /\ engine \in {"docker", "podman"} /\ {member, up} \subseteq BOOLEAN
    /\ store \in [Owner -> SUBSET Thing]
    /\ running \subseteq Container
    /\ table \subseteq Row

ContainersInit ==
    /\ reply = NoReply
    /\ engine \in StartsIn("containers", {"docker", "podman"})
    /\ member \in StartsIn("containers", BOOLEAN)
    /\ up = TRUE
    /\ store = [o \in Owner |-> {}]
    /\ running = {} /\ table = {}

-----------------------------------------------------------------------------
(* Listing. *)

Works == engine = "podman" \/ up

\* Where the things are that a listing as this account shows.
Home(o) == IF engine = "docker" THEN "root" ELSE o

\* What the command lists when it runs as the user, and as root.
Seen(o) ==
    IF ~Works \/ (engine = "docker" /\ o = "user" /\ ~member) THEN {} ELSE store[Home(o)]

\* Mutant: the things already listed as the user's are listed again as root's.
MergedTwice(pw) ==
    {[id |-> t, owner |-> "user"] : t \in Seen("user")} \cup
    {[id |-> t, owner |-> "root"] : t \in IF pw THEN Seen("root") ELSE {}}

\* list_containers_merged, list_images_merged, volumes_list and networks_list: the user's, then
\* with the password root's, without those whose id or name was listed.
Merged(pw) ==
    {[id |-> t, owner |-> "user"] : t \in Seen("user")} \cup
    {[id |-> t, owner |-> "root"] : t \in IF pw THEN Seen("root") \ Seen("user") ELSE {}}

List(pw) ==
    /\ table' = Merged(pw)
    /\ reply' = NoReply
    /\ UNCHANGED <<engine, member, up, store, running>>

-----------------------------------------------------------------------------
(* Operations. *)

\* Root's things need the password.
Allowed(row, pw) == row.owner = "root" => pw

\* Commands run through sudo, or without it as the agent, which is root: in either case they
\* find what root's store holds.
Finds(row) == Works /\ row.id \in store["root"]

\* container_action on a row: start, stop; a restart starts.
RunRow(row, pw, op) ==
    /\ row \in table /\ row.id \in Container
    /\ IF ~Allowed(row, pw) \/ ~Finds(row)
       THEN Refuse /\ UNCHANGED running
       ELSE \E c \in Chain(1) :
                /\ running' = IF c.done = 0 THEN running
                              ELSE IF op = "stop" THEN running \ {row.id} ELSE running \cup {row.id}
                /\ Answer(op, row, c.ok)
    /\ UNCHANGED <<engine, member, up, store, table>>

\* Mutant: the command runs as the user in every case.
RemoveRowAsUser(row, pw) ==
    /\ row \in table
    /\ IF ~Allowed(row, pw) \/ row.id \notin store[Home("user")]
       THEN Refuse /\ UNCHANGED store
       ELSE store' = [store EXCEPT ![Home("user")] = @ \ {row.id}] /\ Answer("remove", row, TRUE)
    /\ UNCHANGED <<engine, member, up, running, table>>

\* remove_container and remove_image, forced as the page asks for.
RemoveRow(row, pw) ==
    /\ row \in table
    /\ IF ~Allowed(row, pw) \/ ~Finds(row)
       THEN Refuse /\ UNCHANGED <<store, running>>
       ELSE \E c \in Chain(1) :
                /\ store' = IF c.done = 1 THEN [store EXCEPT !["root"] = @ \ {row.id}] ELSE store
                /\ running' = IF c.done = 1 THEN running \ {row.id} ELSE running
                /\ Answer("remove", row, c.ok)
    /\ UNCHANGED <<engine, member, up, table>>

\* volume_remove: the same of a volume.
RemoveVolume(row, pw) == row.id \in Volume /\ RemoveRow(row, pw)

\* create_container: run -d through sudo.  A container that does not start is still created.
CreateContainer(t, pw) ==
    /\ t \notin store["user"] \cup store["root"]
    /\ IF ~pw \/ ~Works
       THEN Refuse /\ UNCHANGED <<store, running>>
       ELSE \E c \in Chain(2) :
                /\ store' = IF c.done > 0 THEN [store EXCEPT !["root"] = @ \cup {t}] ELSE store
                /\ running' = IF c.done = 2 THEN running \cup {t} ELSE running
                /\ Answer("create", t, c.ok)
    /\ UNCHANGED <<engine, member, up, table>>

\* volume_create and network_create: as the agent without a password, through sudo with it.
CreateVolume(v) ==
    /\ \E c \in Chain(IF Works THEN 1 ELSE 0) :
        /\ store' = IF c.done = 1 THEN [store EXCEPT !["root"] = @ \cup {v}] ELSE store
        /\ Answer("create_volume", v, c.ok /\ Works)
    /\ UNCHANGED <<engine, member, up, running, table>>

\* container_prune, volume_prune and system_prune: what is not running, or not used.
PruneStore(kind) ==
    /\ \E gone \in (IF Works THEN SUBSET ((store["root"] \cap kind) \ running) ELSE {{}}), ok \in BOOLEAN :
        /\ ok => Works
        /\ store' = [store EXCEPT !["root"] = @ \ gone]
        /\ Answer("prune", kind, ok)
    /\ UNCHANGED <<engine, member, up, running, table>>

\* service_action_sudo on docker.service; its containers stop with it.  podman.socket carries no
\* container.
SetService(on, pw) ==
    /\ IF ~pw
       THEN Refuse /\ UNCHANGED <<up, running>>
       ELSE \E c \in Chain(1) :
                /\ up' = IF c.done = 1 /\ engine = "docker" THEN on ELSE up
                /\ running' = IF up' THEN running ELSE {}
                /\ Answer("service", on, c.ok)
    /\ UNCHANGED <<engine, member, store, table>>

\* The user at a shell, with podman.
UserCreates(t) ==
    /\ engine = "podman" /\ t \notin store["user"]
    /\ t \in Container => t \notin store["root"]
    /\ store' = [store EXCEPT !["user"] = @ \cup {t}]
    /\ reply' = NoReply
    /\ UNCHANGED <<engine, member, up, running, table>>

ContainersNext ==
    \/ \E pw \in BOOLEAN :
        \/ List(pw)
        \/ \E row \in table : \/ row.id \in Container /\ RemoveRow(row, pw)
                            \/ RemoveVolume(row, pw)
                            \/ \E op \in {"start", "stop"} : RunRow(row, pw, op)
        \/ \E t \in Container : CreateContainer(t, pw)
        \/ \E on \in BOOLEAN : SetService(on, pw)
    \/ \E v \in Volume : CreateVolume(v)
    \/ \E kind \in {Container, Volume} : PruneStore(kind)
    \/ \E t \in Thing : UserCreates(t)

-----------------------------------------------------------------------------
(* Properties. *)

\* A thing has one row, of the account whose commands reach it, although the two listings of a
\* member of docker's group are of one store (list_containers_merged).
OneRowEach == \A r \in table, s \in table : r.id = s.id => r = s

\* What is reported done to the thing a row shows is done to that thing.
DoneToRow ==
    /\ Told("containers", "remove") => reply.arg.id \notin store[Home(reply.arg.owner)]
    /\ Told("containers", "start") => reply.arg.id \in running \cap store[Home(reply.arg.owner)]
    /\ Told("containers", "stop") => reply.arg.id \notin running

\* ... for docker, and for root's things: also when the table is older than what it shows.
SharedRowsAct == part = "containers" /\ reply.op \in {"remove", "start", "stop"} =>
                    (Home(reply.arg.owner) = "root" => DoneToRow)

\* ... for the user's own: container actions run "as you" (docs/DOCS.md:489) on a list "from both user
\* namespace (rootless) and root namespace" (docs/DOCS.md:810).
OwnRowsAct == DoneToRow
=============================================================================
