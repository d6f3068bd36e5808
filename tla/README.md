# A formal model of Tenodera

Tenodera is a web panel for managing Linux hosts. A *gateway* (`src/panel/crates/gateway`)
serves a browser UI (`src/panel/ui`) and keeps one outbound-dialled WebSocket to an *agent*
(`src/agent`) on each host. Browser and agent speak the same channel protocol
(`src/protocol`); the gateway authenticates users and agents and multiplexes channels.

This directory holds TLA+ specifications of the parts where tasks interleave or a request
changes a host in several steps, the TLC configurations that check them on small instances,
and proofs of safety for all instances. Everything here is translated from the Rust and
TypeScript sources; the comments name the functions, and the `map` of `PROJECT.json` names
the lines.

    tlc -workers 2 -config MCSessions.cfg MCSessions     # check one run
    tlapm SessionsProofs.tla                             # check one module's proofs

## 1. Inventory

| Component | State | Operations | Correct when |
|---|---|---|---|
| **Agent registry** (`agent_registry.rs`, tail of `agent_ws.rs`, `remote_senders` in `ws.rs`) | `inner`: host -> `Arc<AgentConn>`; each connection's `subscribers` map; each browser socket's cache of senders with `Weak` liveness tokens | register, unregister, `connect_session`, `execute_rpc`, cache lookup and eviction | a host is reached only through a live handler; a valid cached sender is subscribed; a call takes its subscription with it; the cache is bounded; a reconnected agent is online |
| **Channel multiplexing** (`transport.ts`, `ws.rs`, `agent_registry.rs`, `agent_ws.rs`, `router.rs`, `main.rs` of the agent, streaming handlers) | the page's listeners; `channel_routes`; `close_notify`; bounded queues; the router's three maps; streaming tasks and their `watch` | open, data, close, page reload, forward, route, stream | answers in order and only to the page that asked; routes and served channels agree; every Open is answered; a closed stream stops; no deadlock of full queues |
| **Enrolment** (`agent_ws.rs`, `agent_auth.rs`, `main.rs`, `hosts_config.rs`) | `hosts.json`; bootstrap tokens; the pending registry and its one-shot approval channels | the paths of `resolve_auth_path`; wait for approval; approve; remove; expire or revoke a token; `update_last_seen` | no key gets in without consent; nobody is served as another host; pending entries do not outlive handlers; an enrolled host is listed |
| **Sessions** (`session.rs`, `auth.rs`, `ws.rs`) | the session store with creation and activity times; each socket's session id and check interval | login, extractor, logout, reaper, socket authentication, touch per frame, session check | expired sessions go; removed ones do not return; sockets do not outlive their session; an expired session is not accepted |
| **Login rate limiter** (`rate_limit.rs`, `login` of `auth.rs`) | failures per address within a window | `is_limited` before and `check_and_record` after the wait for PAM | concurrent logins pass the limit by a bounded number |
| **hosts.json on disk** (`hosts_config.rs`) | the file, truncated and rewritten in place | load, save | a reader or a restart sees an old or a new file |
| **Browser transport** (`transport.ts`, `Shell.tsx`) | socket, promise of `connect`, reconnect timer, `intentionalClose` | connect, disconnect, the handlers of a socket, reconnect | whatever an old socket's events do, a page with a session comes to be connected |
| **Agent identity and reconnect** (`identity.rs`, agent `main.rs`, `config.rs`, `hosts_config.rs`) | key file, gateway pin; the gateway's id file | load or create key and id, challenge, pin, sign | an agent signs only for the gateway it has pinned, across crashes of either side |
| **Terminal and scan tasks** (`terminal_pty.rs`, `storage_du.rs`) | `writers` map, PTY descriptor, shell; the scan flag | stream, data, shutdown, timeout | a closed terminal ends and lets go of its descriptor; the flag is always released |
| **Command runner** (`util.rs`) | child process and its group, capped output | spawn, collect, timeout, TERM, KILL, reap | every call returns, and a timed-out command leaves nothing of its group |
| **Network and firewall handlers** (`networking.rs`) | the host's firewalls and links; the rows a page shows | list, add, remove, enable; bridges, VLANs, links, VPN | a removal by number takes the rule the page showed; what is reported done is done |
| **Package and update handlers** (`packages.rs`) | packages, lists, repository files, settings of automatic updates | install, remove, update, repositories, save and show settings | an update fetches lists first; an edit leaves the rest of a file alone; what is saved is shown |
| **Account handlers** (`users.rs`) | accounts and groups | create, modify, delete, passwords, locks, groups | a reported change is complete |
| **Container handlers** (`containers.rs`) | docker's or podman's stores; the rows a page shows | merged list, start, stop, remove, create, prune, service | one row a thing; a command acts on the row's thing |
| **Certificate handlers** (`certs.rs`) | anchor files, the built trust store, certificate and key files | trust, distrust, save pairs, edit | the store is as told; a saved pair is whole and private |
| **Service configuration and SSH keys** (`ssh_manage.rs`, `chrony.rs`, `timesync.rs`, `dns.rs`, `kdump.rs`, `system_settings.rs`) | a daemon's file and what the daemon has loaded; `authorized_keys` | save, restart, start, stop; add, edit, remove a key | what is reported saved is in force |
| **Other request and monitoring handlers** | none of their own | one command, read or file edit per request | results of the system's commands |
| **Protocol messages, PAM helper, configuration, TLS, audit, UI pages** | none that lasts | serialisation, start-up, output | - |

How they interact. A page opens a WebSocket and authenticates with a session id. Its `Open`
makes the gateway's socket loop look up the host in the registry, clone the connection,
subscribe to it under the session's *prefix* (derived from the session id) and cache the
sender. From then on frames go through a proxy task that adds the prefix, the connection's
writer task, the agent's router, and back through the connection's reader, which picks the
subscriber by prefix, and a forwarder task that writes to the page and reports a Close to
the socket loop through `close_notify`. A REST call for one host does the same once
(`execute_rpc`) under a random prefix. An agent connection reaches the registry only at the
end of enrolment; enrolment, the administrator's calls and the end of every connection read
and rewrite `hosts.json`. Logout, the reaper and expiry touch only the session store; a
socket notices at its next check.

What is hard. Everything runs as tokio tasks over shared maps, and most operations take
several locks or awaits with other tasks in between: lookup then subscribe, check then
insert, read then write of a file, pending lookup then approval. Connections are replaced
while others hold clones of the old one. All queues but one are bounded and form a cycle.
Ids are unique per page and prefixes per session, but a session outlives its pages. Time
drives expiry, the reaper, the session check and several timeouts. On a host, a request is a
chain of commands of which any may fail or be killed, pages act on lists that are old, and
files are written in place and may be cut. `PROJECT.json` lists these hazards one by one, at
their lines.

## 2. Modules

| Module | Models | Checked by | Proved in |
|---|---|---|---|
| `HostPresence` | the abstract contract of the registry: who is reachable, and that a replaced connection never is again | refinement in `registry` | `AgentRegistryProofs` |
| `AgentRegistry` | registration, replacement, cached senders, `execute_rpc` | `MCAgentRegistry` | `AgentRegistryProofs` |
| `ChannelMux` | channels end to end over one agent connection | `MCChannelMux` | `ChannelMuxProofs`, `ChannelOrderProofs` |
| `Enrollment` | how a connection becomes a host, and `hosts.json` | `MCEnrollment` | `EnrollmentProofs` |
| `Sessions` | sessions and sockets in time | `MCSessions` | `SessionsProofs` |
| `HostCommand` | a chain of commands, its ways to stop, and the answer | through its users | - |
| `Lines` | the filter over the lines of a file | through its users | `HostProofs` |
| `Network`, `Packages`, `AutoUpdates`, `Accounts`, `Containers`, `Certs`, `Services` | the handlers that change a host | `MCMachines` | `HostProofs` (containers, packages, pacman.conf, certificates), `ChangeProofs` (accounts, links, firewalls, configurations, keys, automatic.conf) |
| `CommandRunner` | one command under its timeout | `MCMachines` | `MachinesProofs` |
| `Terminal` | terminals of one agent connection | `MCMachines` | - |
| `LoginLimiter` | failed logins of an address | `MCMachines` | `MachinesProofs` |
| `Identity` | agent and gateways across crashes | `MCMachines` | `MachinesProofs` |
| `Transport` | the page's connection | `MCMachines` | - |
| `Machines` | the composition of the parts above | `MCMachines` | `HostProofs`, `ChangeProofs`, `MachinesProofs` |

Definitions used as seeded defects stand directly before the definition they vary and are
marked *Mutant*; no specification uses them. Each property is violated when one of them
takes the place of its original.

### AgentRegistry and HostPresence

A step is what happens between two points where another task can run. The handler of an
agent connection goes `idle -> acked -> serving -> leaving -> gone`: HelloAck sent,
`register`, end of the read loop, `unregister`. `wire[c]` is the agent's end; the gateway
notices a drop at any later time or never. `AgentConn` is reference counted: the registry,
a `connect_session` between its lookup and its subscription (`joining`), and a running
`execute_rpc` (`rpcConn`) each keep one alive, and `TokenAlive` says that a `Weak` to it
upgrades. A call ends with an answer, with a Close in its place, or at a timeout, which alone
leaves its subscription behind. An `Open` is `OpenRefused`, `OpenOffline`, or `OpenLooksUp` followed by
`OpenSubscribes`; `OpenEvicts` is the send that fails because the proxy task is gone.
A `re_enroll` removes the host's registration without ending the old handler (`ReEnroll`).
The reader holds the `subscribers` lock while it waits for a full subscriber
(`agent_ws.rs:304-306`), so that a `connect_session` may have to wait; here it may take its
next step at any time or never, which includes every such wait, and no property says that it
comes to an end.

`ImplementsHostPresence` maps `current` to the registry and `retired` to the connections
that have registered and are not current. It rests on one connection registering at most
once.

### ChannelMux

One agent connection that stays up, and the two directions through it. Queues joined by a
task that only moves messages are merged: proxy channel, proxy task, writer channel and
wire are `toAgent`; the agent's out channel and wire are `fromAgent`; a subscriber's channel
and the browser's socket are `sub`. Merging keeps order and back-pressure and removes only
capacity. `close_notify` is unbounded in the code and here. A message carries the channel
(socket and id) that caused it; what the agent can tell apart is `AgentChan`, the prefix and
the id. The router handles one message at a time and queues all its responses before it
takes the next (`pending`); an `Open` of a streaming payload spawns a task which sends
`Ready` itself. Payloads are of four kinds: `stream` (terminal, storage, networking: data
until told to stop), `scan` (disk usage: one report, silent when stopped, silent on timeout),
`oneshot` (Ready, Data and Close in the router's own responses) and `interactive` (a handler
kept for later Data).

`GwEnds` shows the code's choice that matters most: when a page goes away its routes are
dropped and the agent is not told.

### Enrollment

A connection starts where its challenge has been answered with a valid signature; verifying
signatures is taken to work, so a connection is identified by its key. Each lock acquisition,
each load and each save is a step. `LoadFile` and `SaveFile` are the read and the write of
`HostsConfig`; the edit between them is `Edit`, by `mode` (register, replace the key, touch,
remove). Nothing stops two tasks from holding copies at once, as in the code. `consent` and
`written` are history variables for the properties.

Tokens are counted up to `MaxUses`; expiry and revocation are `TokenEnds`. A pending entry is
the handler whose one-shot sender it holds; `offer` is that channel. `GiveUp` covers every
way a waiting handler can end without an approval, its dropped sender included.

### Sessions

Discrete, relative time: `Tick` ages sessions and moves every interval one unit, and does not
pass a reaper or a check that is due, nor a handler between `get_valid` and `touch`, which has
no await of any length between them. A handler inside a frame (`busy`) may stay there for any
time, and `SocketChecked` may then find the next tick nearer, as tokio's interval makes up
for missed ticks. `Accepts` and `Rejects` are the two outcomes of `get_valid`; `Touch` is the
unconditional refresh every frame of an open socket makes.

### HostCommand and Machines

The agent's router serves one request at a time, so a handler is one step, and what makes it
hard is inside it: `Chain(n)` gives the ways a chain of n commands can go. It stops at the
first that does not answer ok; the last that took effect may have been killed at its timeout,
or the agent may have died, and then the page is not told of success. `reply` is the latest
answer that says that something is done, so a property reads: when the page was told, the host
is so. `Teed` is a file written through `tee`, which truncates first: a write that fails or is
killed may leave the first lines of the new text (`Cuts`). Steps of others (another
administrator, another tool, a daemon, a new release) are actions of their own, so that lists
grow stale and files differ from what a page has loaded.

`Machines` joins the parts. They share `reply` and nothing else; a behaviour is about one
`part`, and `On(p)` says that all others stay. This loses no behaviour that a property could
tell apart: steps of different parts commute, and no property relates two parts.

### Network, Packages, AutoUpdates

A rule is a value and a firewall of ufw, iptables or nftables a sequence of them; a page's
`Entry` has the number that the listing gave it, and numbers count the unfiltered list while
internal chains are hidden. firewalld has its permanent and its running configuration. Links
are made by `ip`, or by NetworkManager, where the handler only adds a connection and
NetworkManager starts it in its own time (`NetworkManagerActs`). `add_bridge` names the
connection after the bridge; `add_vlan` gives no name, so that the removal by interface name
does not find a VLAN's connection and takes the link alone (`NamedAsLink`).
`check_updates` may show any list, since the text of a failing command is parsed as one. That
`apt-get update` which exits with 0 has fetched the lists is taken for granted; apt also does
so when it falls back to old ones. pacman.conf is a sequence of
headers and lines, edited by the filter and the append of the code; apt's and dnf's drop-in
files are the sets of repositories in them. `automatic.conf` is a sequence of lines: `IniGet`
and `IniSet` are the two loops of the code, as recursive functions over the lines. A file that
is not UTF-8 reads as empty (`readable`), and saving it then loses what it had.

### Accounts, Containers, Certs, Services

`Accounts` has the fields of passwd and shadow that the handlers change; `create_user` is the
chain useradd, chpasswd, chage. `Containers` has one store for docker and one for each owner
for podman; the page's `table` is the merged list, and `Home` is where a row's thing is kept.
In `Certs` a file is an anchor and is trusted only once the build has run; on an unknown
distribution a removal deletes the file, builds nothing and is reported as done. An installed
pair is two files and a mode; `cert_save` takes any certificate and key and does not compare
them, which only the page's own `cert_check` does. In `Services` a configuration is what the page edits in it, whether its
other lines are still there, and whether the daemon takes it; `file` is what is on disk and
`runs` what the daemon last loaded. `systemd-resolved` is sent HUP, and the answer is ok when
the signal was sent, also to one that is stopped; it is restarted only when that fails. So of
resolved only the file is promised. The handlers of `authorized_keys` take an unreadable file
for an empty one (`KeysAsRead`).

### CommandRunner, Terminal

`CommandRunner` has the command (leader) and one process it may start, which may leave the
group, keep the pipes open, ignore TERM and write without end. `call` follows
`wait_capped_with`: collect both pipes, wait, and on the deadline TERM, grace, KILL, reap.
`Terminal` has the task of a stream beside the router: it announces itself, opens the PTY,
reads and sends into a bounded queue, and looks at its shutdown flag between reads only. The
connection may be lost at any step, after which sends fail.

### LoginLimiter, Identity, Transport

`LoginLimiter` keeps for each age within the window the failures recorded and, as history, the
failures PAM answered; the wait for PAM lies between the check and the record. `Identity`
creates or truncates a file in one step and writes it in another, and either process may die
between; `signed` are the gateways the agent has answered. A gateway draws a new id when it has
none, when the file is empty, and at any error of reading it; `misread` are those that lost an
id on disk that way, and agents that have pinned it refuse them. `Transport` has the
variables of `transport.ts`, which are of the page, and its handlers, which are of one socket
each: the events of a socket that was given up still arrive, and `onclose` clears what belongs
to the page's newer socket. The gateway's side is the authentication of `handle_socket`.

## 3. Runs

Passing runs:

| Run | Instance | Shows |
|---|---|---|
| `registry` | two connections of `h1`, the second with a re-enrolment, one of `h2`; a browser socket that may cache one agent; one REST call | with all interleavings: the registered connection has a handler that will still unregister it; a valid cached sender is subscribed; the cache keeps its bound; only a call that timed out leaves a subscription; `HostPresence` is implemented |
| `mux` | two sessions; a scan and a one-shot request on one, a one-shot request on the other; one channel at a time; queues of one | answers in order, to the right page; routes and served channels agree when nothing is in flight |
| `mux_live` | one page, a stream that may flood, interactive commands beside it; queues of one | the same agreement, and liveness: every Open is answered, every closed stream stops |
| `enrollment` | `n1` enrolled; a reconnect from the gateway's own machine, a re-enrolment by token, two dials of a new host; one approval, one removal; one pending place | only admitted keys are in the file or served; a connection is served only as a host its key was written for; no orphan in the pending registry |
| `sessions` | one session, two sockets; idle 2, lifetime 5, reaper 3, check 2 | an expired session exceeds its limits by at most one reaper period; removed sessions stay removed; every session ends and all its sockets are closed |

| `machines` | each part of `Machines` on its own instance: one page and two firewalls, two packages and repositories, two accounts, one container and one volume, two certificates, two terminals, three logins, two gateways, five daemons, three sockets | what a page is told is done is done, although chains stop half-way, files are cut and lists are stale; an edit leaves others' lines alone; logins pass the limit by a bounded number; an agent signs for its pinned gateway only; commands and closed terminals end; a page with a session comes to be connected |

Runs that end in a violation, each about a sentence of the repository:

| Run | Sentence | What the code does |
|---|---|---|
| `registry_reconnect` | `src/docs/DOCS.md:549`: a host "appears offline in the UI until it reconnects" | `unregister` removes by host id: the old handler's late cleanup removes the registration of the connection that replaced it, and the agent stays connected but offline |
| `mux_reload` | comment at `ws.rs:268-270`: reject a reused id so as not to "interleave data on one id" | the check is per socket; a reloaded page reuses the session's prefix and the ids from 1 while the agent still serves the old page's streams, and receives their data |
| `mux_scan` | `StorageUsage.tsx:59-63` waits for a Close to report a timed-out scan | on timeout the scan task returns without Close, and the page waits for ever |
| `enrollment_listed` | `DOCS.md:1141`: the list shows all hosts that completed the handshake | a concurrent rewrite saves a copy read earlier and loses the host |
| `sessions_revived` | `session.rs:98-99`: a session "is never accepted in the window between its expiry and the next reaper pass" | `touch` does not look at expiry: a frame on an open socket makes an expired session valid again |
| `containers_own` | `DOCS.md:489`: every write operation, a container action among them, "runs **as you**", and `:810`: containers are listed "from both" namespaces | the command of a row owned by the user runs as the agent, which is root (`containers.rs:1171`): of two podman volumes of one name, in the user's and in root's store, the user's is listed, its removal is answered with ok, and root's is gone |

### Bounds, and why they are enough

- **registry**: the hazards are about one connection replacing another of the same host while
  a third party holds a clone; this takes two connections of a host, one of another host to
  fill the cache, one socket and one call. The limit of cached agents is 1 instead of 50 so
  that it is met. With `ReEnrolling = {c2}` only a re-enrolment replaces a connected agent,
  and `registry_reconnect` is the instance in which `c2` is an ordinary reconnect.
- **mux**: `Cap = 1` makes every producer meet a full queue, which a larger capacity would
  only postpone; `MaxChannels = 1` makes a further Open be refused while another is open.
  Two sockets are needed for misdelivery, two channels on one of them for the order of the
  router's own answers against a task's. Pages send one command at a time (`ClientSends`).
  `ForwarderEnds`' second case, a replaced subscription, needs two pages of one session and
  arises in `mux_reload`.
- **enrollment**: the interleavings that matter are pairs of load-edit-save and a pending
  entry that changes hands between lookup and approval; two dials with one key, one approval
  and a removal give them. `MaxPending = 1` and `MaxPerIp = 1` make the limits bite. Ids
  `i2..i4` are symmetric, being random UUIDs, and so are the dials `c3` and `c4`; ids suffice
  for every register of a behaviour.
- **sessions**: the two limits, the reaper's period and the check's are distinct so that a
  session can expire either way before or after a pass. Two sockets on one session give the
  races of their frames; sessions do not interact.
- **machines**: 60,650 distinct states, depth 25, all parts together. A page needs its own list
  and one step of others to be out of date, and other pages' effects on a firewall are
  additions and removals (`AddRule`, `OutsideRemoves`), so one page is enough; one visible and
  one internal rule make numbers and rows differ. Two names of each kind tell "this one" from
  "another". Six lines of pacman.conf are enough for a
  section in front of, between and behind others. `IniFiles` are four contents of automatic.conf
  before the first edit: nothing; a key before any section; the section without its keys, followed
  by another section that has one; and the section twice, with a key in each.
  One bridge and one VLAN. Two terminals share the queue of one message. Three logins
  and a limit of two let failures pass the limit; the bound is stated for any numbers. Three
  ids let one gateway lose its id and draw anew while the other keeps its own. Three sockets
  are an old one, the page's, and one more; with four sockets and three faults the page's part
  was checked as well. `MaxRules`, `MaxBackends`, `MaxLines`, `MaxKeys` and
  `MaxFaults` are guards on input; `Cap`, `OutRoom`, `MaxAttempts` and `Window` are limits of the
  code, made small to be met.

`CHECK_DEADLOCK FALSE` everywhere: connections, sockets and calls are used once, and an
instance in which all are used up has stopped as it should. In `machines`, terminals and
processes end, and an agent whose key file is empty stops for good, as the code does.

### Fairness

`ChannelMux!FairSpec`: tasks that can run do (weak fairness of the reader, forwarders, router,
loop notifications and ends). A step that waits for room in a queue or for the agent's out
channel competes with others that fill it; tokio's mutex and bounded channels serve waiters
in order, which is strong fairness of the socket loop's frame, of the router's responses and
of the tasks' sends. Nothing is assumed of pages, of a stream's producing or of a scan's
finishing. `ForwarderSends` being fair means that a page that is there reads its socket.

`Sessions!FairSpec`: time passes, the reaper and a socket's start run, and a frame is served
eventually; a `select!` branch that is ready again and again is taken, since tokio picks
among ready branches at random (strong fairness of the two outcomes of the check).

`CommandFairness`: the agent's own steps run, timers included; nothing is assumed of the
processes, except that SIGKILL is the end of a group.

`TerminalFairness`: tasks are scheduled and the connection's writer drains the queue. A send
waits in line for a place, tokio's bounded channel being first come, first served, and a
`select!` with the flag among its ready branches takes it in time (strong fairness of the sends
and of the shutdown). The shell may write for ever.

`TransportFairness`: the browser delivers a socket's events, the timer fires, the gateway
answers an authentication or gives up waiting. The strong part says that the last close does
not come after the timer every time: the delay is random up to a limit that grows, while a
handshake is over or given up within the gateway's ten seconds (`Alone`). Without it a
reconnect could be undone by an older socket's `onclose` for ever, and the code has nothing
but timing against that.

## 4. Proofs

The theorems hold for all constants that satisfy the named assumptions of their module.

- **AgentRegistryProofs** (`ConnAssumption`, `SubscriberAssumption`, `LimitAssumption`: types,
  and a finite set of hosts with a positive limit). The properties are not inductive: the
  registered connection is known to have a handler, but a clone held by a socket or a call
  could be of anything. `Inv` adds that clones come from registered connections
  (`ClonesRegistered`), that a call between its steps holds one (`RpcHoldsClone`), and that a
  cached sender was subscribed whether or not it is still valid (`CachedSubscribed`).
  Theorems: `TypeCorrect`, `RegistryIsServed`, `CacheIsSubscribed`, `CacheIsBounded`,
  `CallsAreSubscribed`, `RefinesHostPresence` (every step of the registry is a
  step of the abstract presence or a stutter). `CallsAreSubscribed` is inductive beside `Inv`: a
  prefix of a call is written by that call alone, and only on the connection it holds. `CachedIsSubscribed` is stated for a session
  without a second socket: two sockets of a session overwrite each other's subscription.
- **EnrollmentProofs** (`EnrollmentAssumption`: types and disjointness). `Inv` follows keys
  and hosts on their way: copies already read (`AdmittedOnTheWay`, `GivenOnTheWay`), keys
  about to be written, hosts sent on approval channels, and that a host is only offered to a
  handler whose own key its pending entry was under (`PendingIsOwn`). Theorems:
  `TypeCorrect`, `OnlyAdmittedKeys`, `OnlyOwnHost`, `NoOrphanPending`.
- **SessionsProofs** (`TimeAssumption`: natural limits, positive periods). `DueBeforeReap`
  adds to a session's age the time to the reaper's next pass; the sum, not the age, is what a
  step preserves. Theorems: `TypeCorrect`, `ExpiryBound`, `RemovalIsFinal`.
- **ChannelMuxProofs** (`MuxAssumption`: types, and positive limits). `Inv` adds to the types
  that the subscriber of a prefix is a page of that session and that whatever waits in a page's
  queue was caused by a channel of its session (`SessionsApart`). It is inductive because the
  reader chooses the queue by the prefix in the agent's channel id and only `GwOpens` replaces a
  subscriber. Theorems: `TypeCorrect`; `AnswersStayInSession`, with reloads and any number of
  pages; `OnePageNotInterleaved`, which takes one page a session as its assumption, since
  without it `mux_reload` is the counterexample.
- **ChannelOrderProofs** (`MuxAssumption`) is about a session's only page (`Alone`), whatever
  other sessions do. The properties look at one queue or at no queue; the invariant has to
  follow a channel through all five legs of its way and the maps at both ends. `Channels` says
  of each channel that every leg is in order and so are the legs of the way back after one
  another (`Ordered`), that it starts once (`Begins`), that the agent's maps and task agree with
  what it has sent (`Serves`), that a route without service has an answer or a notification on
  its way, and a service without a route a Close or a signal (`Routed`), and that what the page
  has seen agrees with what is still to come (`Answers`); `Sockets` that the page stays
  subscribed. A leg is looked at through the kinds of messages it has of a channel, so that the
  proof has one step for each action and a few lemmas on queues. Theorems: `AloneInOrder`,
  `AloneRoutesServed`, for one such page; `OnePageInOrder` and `OnePageRoutesServed`, the
  checked properties where every session has one page, as in the runs `mux` and `mux_live`.
- **MachinesProofs, HostProofs, ChangeProofs** are about `Machines` with all its parts. The
  lemmas named `...Steps` show that a step is one of the part in question or leaves its
  variables alone; the rest of each proof is about the part.
  - *Command runner* (`CapAssumption`). `CommandInv`: while the leader lives it is in its group,
    and once the group was killed nothing is left to start a process in it. Theorems:
    `CommandTyped`, `TimedOutGone`.
  - *Identity* (`IdentityAssumption`). `IdentityInv`: a gateway goes by the id on its disk except
    while it writes a new one (`GatewayInv`); no id is two gateways' (`OwnIds`, what drawing a
    uuid gives); what the agent has seen of its gateway is on that gateway's disk, and the pin
    agrees before it signs (`AgentInv`); the pin of an agent that has signed is an id its gateway
    drew (`SignedInv`), whatever that gateway failed to read since. Theorem: `AgentIsPinned`.
  - *Login limiter* (`LimiterAssumption`: a positive limit and window, finitely many requests, at
    least one). `LimiterInv` bounds the failures of the latest k ticks, for every k, by those
    recorded and the requests that still wait for PAM once the limit is met; a tick moves the
    bound for k to k + 1. Totals are cardinalities of the sets of entries. Theorem:
    `WindowIsBounded`.
  - *What is done in one answer.* What a page is told is judged in the state the chain of
    commands leaves, so the proofs go through the ways a chain can stop. Theorems: `RowsAreUnique`
    and `SharedRowsAreServed` (with `ContainersInv`), `UpdatesAreCurrent`, `TrustIsReported` (with
    `AnchorsTyped`), `PairsAreWhole` (with `PairsTyped`), `AccountsAreAsTold` (with
    `AccountsTable`), `LinksAreAsTold` (with `LinksTable`), `ConfigIsAsTold` (with
    `ServiceTable`), `KeysAreAsTold` (with `KeysTable`) and, of the last two, `SavedHolds`. The
    tables say that what is looked up by name is a function on the names, which every way a chain
    can end preserves.
  - *Rules by number.* `ShownRuleIsRemoved`: a page whose table is still the host's removes one
    occurrence of the rule its row shows and nothing else. `ListedAre` says that the listing numbers
    the whole sequence, internal chains counted, as the removal does; `OneFewer` gives the
    bijection between the places before and after.
  - *Loops over lines.* A loop is a recursive function on 0..n; `Least`, `UpTo` and `Turns` are
    induction over such an interval, stated with sets so that they need no operator parameter.
    `SectionsStay`: removing a repository leaves the other sections of pacman.conf, because the
    loop and the filter that defines "the others" agree line by line. `IniSetIs`: what `ini_set`
    writes has every given key in its section with the given value and no other for it, and
    has the other sections' lines that were there and no more; the loop invariant is `Faithful` (what it has
    written of the section) and `Follows` (what it has passed of others). From it
    `OthersSettingsStay`, with what a cut keeps of the other sections (`CutKeepsForeign`), and
    `SavedSettingsAreShown`, the latter through `ini_get` of what
    `ini_set` has written.

  - *Types.* `MachinesTyped` is the composed `TypeOK`. Most of it is one lemma for each part
    (`...Types`); three conjuncts need more: `pacman.conf` within its bound follows from
    `ConfSectioned` and the filter, the rows of containers from `ContainersInv`, and that no age
    of the limiter has more records than the limit from `LimiterInv`. `PackagesAssumption` asks
    for room for the two lines `pacman.conf` starts with, `AutoUpdatesAssumption` and
    `ServicesAssumption` for an updater, a daemon and a setting.

Every invariant and action property a passing run checks is stated by a theorem, those of pages
in order under the assumption of one page a session. Only model-checked: `AnswersInOrder` and
`RoutesAreServed` of `ChannelMux` for sessions with several pages; all liveness
(`OpenIsAnswered`, `ClosedStreamStops`, `SessionsEnd`, `CallEnds`, `ClosedTerminalEnds`,
`PageComesBack`), which rests on fairness and `ENABLED`, out of the prover's reach; and the
violations.

## 5. Not modelled, and why

- Loss of the agent connection in `ChannelMux`: it is `AgentRegistry`'s subject, and
  `Terminal`'s for the streams it ends. The display name an approval may save and the write-once
  `os_id`, which no property concerns; signature and challenge verification; the password check
  behind `Login`.
- Half-written `hosts.json`: with the truncation as a step of its own the instance of
  `Enrollment` passes nine million states. A cut file reads as no hosts. The id files that are
  written the same way are in `Identity`.
- The one-scan flag of `storage_du.rs` and the numbers of a terminal's descriptors, which the
  kernel gives out again.
- Of the handlers that are modelled: parsing of listings, search, logs, statistics and caches;
  images and networks of containers, which are listed and removed like containers and volumes;
  self-signed generation and certbot; `kill_process`, which knows a pid and no more; time zone,
  locale and hostname, one command each.
- Handlers that never return. The router awaits each handler, and a few commands are started
  without a timeout (`networking.rs:1306`, `containers.rs:803`, `certs.rs:882`). `ChannelMux` lets
  a handler take any finite time, so `OpenIsAnswered` is about handlers that return, and no
  property catches one that does not.
- What the code does not promise and no property says: that the connection of a removed VLAN is
  gone, that a stopped resolved takes up its file, that a certificate and a key belong together,
  that an overwritten certificate can be had back, that an addition to the trust store reported
  as failed is not trusted after a later one, that an edited key's second line goes.
- Other request handlers and the monitoring handlers: one command, read or file write each,
  without steps of their own; in `ChannelMux` they are payload kinds.
- UI pages, TLS, headers, configuration and audit: stateless conversions, or output. The PAM
  helper: one process per login, whose answer or absence is an input.

## 6. Plan

Done, in this order: the registry with its abstract contract, channels, enrolment, sessions;
then the parts of `Machines`: the command runner, the handlers that change a host, terminals,
the login limiter, agent identity and the page's transport; the proofs about them, those of
`ChannelMux` with one page a session, and those of the loops over lines and rules.

What is left, most valuable first:

1. `hosts.json` as a file that is truncated and then written, with readers and a crash in
   between, against an atomic register as its abstract specification; first on its own, then
   joined with the load and save of `Enrollment`.
2. `Enrollment` composed with `AgentRegistry`: what removing or replacing a host means for its
   live connection, which `hosts_remove` does not touch.
3. `ChannelMux` with the loss of the agent connection: which Opens then go unanswered.
4. Channel ids (`session_prefix`, `prefix_message`, `strip`) and the validators of names as
   operators against reference definitions.
