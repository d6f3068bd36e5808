------------------------------ MODULE Network ------------------------------
(***************************************************************************)
(* networking.rs: the firewalls of a host and the page that lists and      *)
(* removes their rules (Networking.tsx), and its interfaces.              *)
(*                                                                         *)
(* A rule is a value; only nftables gives it a handle of its own, ufw and  *)
(* iptables know it by its place.  Two pages may look at one host, and     *)
(* what a page shows is as old as its last listing.                        *)
(***************************************************************************)
EXTENDS HostCommand, Sequences, FiniteSets, SequencesExt

CONSTANTS
    Page,       \* administrators' pages
    Rule,       \* rules: what a page asks for, and what internal chains hold
    Internal,   \* the rules of ufw's, firewalld's and docker's own chains
    Link,       \* names of bridges and VLANs
    Vlan,       \* the names of VLANs, parent.id: a bridge's name has no dot
    MaxRules,   \* bound: rules per firewall
    MaxBackends \* bound: firewalls on one host

ASSUME NetworkAssumption ==
    Internal \subseteq Rule /\ Vlan \subseteq Link /\ MaxRules \in Nat \ {0} /\ MaxBackends \in Nat

Backend == {"ufw", "firewalld", "nftables", "iptables"}

VARIABLES
    installed,  \* the firewalls that detect_all_firewalls finds
    active,     \* active[b]: it is started
    rules,      \* rules[b]: the rules of ufw, iptables and nftables, in order
    permanent,  \* firewalld's permanent configuration
    runtime,    \* ... and what it applies
    shown,      \* shown[p]: the entries of p's rule table
    nmcli,      \* NetworkManager is there
    link,       \* link[n]: the interface is missing, down or up
    profile     \* the links NetworkManager keeps a connection for; a bridge's connection has
                \* the bridge's name, a VLAN's a name NetworkManager makes up

firewallVars == <<installed, active, rules, permanent, runtime, shown>>
linkVars     == <<nmcli, link, profile>>
networkVars  == <<reply, firewallVars, linkVars>>

Entry == [backend : Backend, number : Nat, rule : Rule \cup {"noise"}]

NetworkTypeOK ==
    /\ ReplyTyped
    /\ installed \subseteq Backend
    /\ active \in [Backend -> BOOLEAN]
    /\ rules \in [Backend -> Seq(Rule)] /\ \A b \in Backend : Len(rules[b]) <= MaxRules
    /\ permanent \subseteq Rule /\ runtime \subseteq Rule
    /\ shown \in [Page -> SUBSET Entry]
    /\ nmcli \in BOOLEAN
    /\ link \in [Link -> {"none", "down", "up"}]
    /\ profile \subseteq Link

-----------------------------------------------------------------------------
(* Firewalls. *)

\* The entries of a firewall that numbers its rules by place.
Numbered(b) == {[backend |-> b, number |-> i, rule |-> rules[b][i]] : i \in DOMAIN rules[b]}

\* Mutant: the entries are numbered after the internal ones are dropped.
UserEntriesLate(b) ==
    LET kept == SelectSeq(rules[b], LAMBDA r : r \notin Internal)
    IN  {[backend |-> b, number |-> i, rule |-> kept[i]] : i \in DOMAIN kept}

\* The filter of firewall_rules_all: below ufw or firewalld, nftables and iptables hold chains
\* that are not the user's.
UserEntries(b) ==
    IF {"ufw", "firewalld"} \cap installed = {}
    THEN Numbered(b)
    ELSE {e \in Numbered(b) : e.rule \notin Internal}

\* firewall_rules_for.  An inactive ufw shows no rules; firewall-cmd lists what runs, and
\* when it does not run its complaint is taken for services.
Listed(b) ==
    CASE b = "ufw" -> IF active[b] THEN Numbered(b) ELSE {}
      [] b = "firewalld" -> {[backend |-> b, number |-> 0, rule |-> r] :
                                r \in IF active[b] THEN runtime ELSE {"noise"}}
      [] OTHER -> UserEntries(b)

Listing == UNION {Listed(b) : b \in installed}

\* firewall_status and firewall_rules, as loadFirewall asks for them.
LoadFirewall(p) ==
    /\ shown' = [shown EXCEPT ![p] = Listing]
    /\ reply' = NoReply
    /\ UNCHANGED <<installed, active, rules, permanent, runtime, linkVars>>

\* External: systemctl start firewalld, ufw enable and so on.
SetActive(b, on) ==
    /\ active' = [active EXCEPT ![b] = on]
    /\ runtime' = IF b = "firewalld"
                  THEN IF ~on THEN {} ELSE IF active[b] THEN runtime ELSE permanent
                  ELSE runtime

\* firewall_enable and firewall_disable.  For iptables the command is `true`.
Toggle(b, on) ==
    /\ b \in installed
    /\ \E c \in Chain(1) :
        /\ IF c.done = 1 /\ b # "iptables" THEN SetActive(b, on) ELSE UNCHANGED <<active, runtime>>
        /\ Answer("toggle", on, c.ok)
    /\ UNCHANGED <<installed, rules, permanent, shown, linkVars>>

\* External: ufw skips a rule it has, the others append.
WithRule(b, r) ==
    IF b = "ufw" /\ r \in Range(rules[b]) THEN rules[b] ELSE Append(rules[b], r)

\* firewall_add_rule: firewalld's change is --permanent and not reloaded.
AddRule(b, r) ==
    /\ b \in installed /\ r \notin Internal
    /\ Len(rules[b]) < MaxRules
    /\ \E c \in Chain(1) :
        /\ IF c.done = 0 THEN UNCHANGED <<rules, permanent>>
           ELSE IF b = "firewalld" THEN permanent' = permanent \cup {r} /\ UNCHANGED rules
           ELSE rules' = [rules EXCEPT ![b] = WithRule(b, r)] /\ UNCHANGED permanent
        /\ Answer("add_rule", b, c.ok)
    /\ UNCHANGED <<installed, active, runtime, shown, linkVars>>

\* firewall_remove_rule as the page calls it, with an entry it shows: by number for ufw and
\* iptables.  A number beyond the end is refused by the command.
RemoveShown(p, e) ==
    /\ e \in shown[p] /\ e.backend \in {"ufw", "iptables"}
    /\ IF e.number \in DOMAIN rules[e.backend]
       THEN \E c \in Chain(1) :
                /\ rules' = IF c.done = 0 THEN rules
                            ELSE [rules EXCEPT ![e.backend] = RemoveAt(@, e.number)]
                /\ Answer("remove_rule", e.backend, c.ok)
       ELSE Refuse /\ UNCHANGED rules
    /\ UNCHANGED <<installed, active, permanent, runtime, shown, linkVars>>

\* ... and for firewalld, whose entries have a type and a value, not the service or port the
\* handler looks for.
RemoveShownFirewalld(p, e) ==
    /\ e \in shown[p] /\ e.backend = "firewalld"
    /\ Refuse
    /\ UNCHANGED <<firewallVars, linkVars>>

\* Another client names the service or port of firewalld.
RemoveNamed(r) ==
    /\ "firewalld" \in installed /\ r \in permanent
    /\ \E c \in Chain(1) :
        /\ permanent' = IF c.done = 1 THEN permanent \ {r} ELSE permanent
        /\ runtime' = runtime
        /\ Answer("remove_named", "firewalld", c.ok)
    /\ UNCHANGED <<installed, active, rules, shown, linkVars>>

\* Another tool of the host removes a rule.
OutsideRemoves(b) ==
    /\ b \in installed \cap {"ufw", "iptables"} /\ rules[b] # <<>>
    /\ rules' = [rules EXCEPT ![b] = Tail(@)]
    /\ reply' = NoReply
    /\ UNCHANGED <<installed, active, permanent, runtime, shown, linkVars>>

FirewallNext ==
    \/ \E p \in Page : LoadFirewall(p)
    \/ \E b \in Backend, on \in BOOLEAN : Toggle(b, on)
    \/ \E b \in Backend, r \in Rule : AddRule(b, r)
    \/ \E p \in Page : \E e \in shown[p] : RemoveShown(p, e) \/ RemoveShownFirewalld(p, e)
    \/ \E r \in Rule : RemoveNamed(r)
    \/ \E b \in Backend : OutsideRemoves(b)

-----------------------------------------------------------------------------
(* Interfaces. *)

\* `nmcli connection add` saves a connection; NetworkManager starts it in its own time.
NmAdds(n, op) ==
    \E c \in Chain(1) :
        /\ profile' = IF c.done = 1 THEN profile \cup {n} ELSE profile
        /\ Answer(op, n, c.ok)
        /\ UNCHANGED link

\* `ip link add` and the commands after it.  The first refuses a link that exists.
IpAdds(n, op, steps) ==
    \E c \in Chain(IF link[n] = "none" THEN steps ELSE 0) :
        /\ link' = [link EXCEPT ![n] = <<@, "down", "up">>[c.done + 1]]
        /\ Answer(op, n, c.ok /\ link[n] = "none")
        /\ UNCHANGED profile

\* Mutant: without NetworkManager, the bridge is not brought up.
AddBridgeDown(n) ==
    /\ n \notin Vlan
    /\ IF nmcli THEN NmAdds(n, "add_bridge") ELSE IpAdds(n, "add_bridge", 1)
    /\ UNCHANGED <<nmcli, firewallVars>>

\* add_bridge: by NetworkManager, or `ip link add` and `ip link set up`.
AddBridge(n) ==
    /\ n \notin Vlan
    /\ IF nmcli THEN NmAdds(n, "add_bridge") ELSE IpAdds(n, "add_bridge", 2)
    /\ UNCHANGED <<nmcli, firewallVars>>

\* add_vlan: the same, but nobody brings the VLAN up without NetworkManager.
AddVlan(n) ==
    /\ n \in Vlan
    /\ IF nmcli THEN NmAdds(n, "add_vlan") ELSE IpAdds(n, "add_vlan", 1)
    /\ UNCHANGED <<nmcli, firewallVars>>

\* External: NetworkManager starts a connection it keeps, or takes away a link whose
\* connection is gone.
NetworkManagerActs(n) ==
    /\ nmcli
    /\ link' = [link EXCEPT ![n] = IF n \in profile THEN "up" ELSE "none"]
    /\ link' # link
    /\ reply' = NoReply
    /\ UNCHANGED <<nmcli, profile, firewallVars>>

\* The connections nmcli finds under the name of their link.
NamedAsLink == profile \ Vlan

\* remove_interface: NetworkManager's connection of that name; when there is none or its
\* deletion fails, the link itself.
RemoveInterface(n) ==
    /\ \E d \in (IF nmcli /\ n \in NamedAsLink THEN Chain(1) ELSE {[done |-> 0, ok |-> FALSE]}),
           c \in Chain(IF link[n] = "none" THEN 0 ELSE 1) :
        /\ profile' = IF d.done = 1 THEN profile \ {n} ELSE profile
        /\ IF d.ok
           THEN UNCHANGED link /\ Answer("remove_interface", n, TRUE)
           ELSE /\ link' = IF c.done = 1 THEN [link EXCEPT ![n] = "none"] ELSE link
                /\ Answer("remove_interface", n, c.ok /\ link[n] # "none")
    /\ UNCHANGED <<nmcli, firewallVars>>

\* iface_up and iface_down.
SetLink(n, to) ==
    /\ \E c \in Chain(IF link[n] = "none" THEN 0 ELSE 1) :
        /\ link' = IF c.done = 1 THEN [link EXCEPT ![n] = to] ELSE link
        /\ Answer("set_link", <<n, to>>, c.ok /\ link[n] # "none")
    /\ UNCHANGED <<nmcli, profile, firewallVars>>

\* vpn_connect and vpn_disconnect: a connection NetworkManager knows.
SetVpn(n, to) ==
    /\ nmcli /\ n \in NamedAsLink
    /\ \E c \in Chain(1) :
        /\ link' = IF c.done = 1 THEN [link EXCEPT ![n] = to] ELSE link
        /\ Answer("set_link", <<n, to>>, c.ok)
    /\ UNCHANGED <<nmcli, profile, firewallVars>>

LinkNext ==
    \E n \in Link :
        \/ AddBridge(n) \/ AddVlan(n) \/ RemoveInterface(n) \/ NetworkManagerActs(n)
        \/ \E to \in {"down", "up"} : SetLink(n, to) \/ SetVpn(n, to)

-----------------------------------------------------------------------------

NetworkInit ==
    /\ reply = NoReply
    /\ installed \in StartsIn("firewall", {S \in SUBSET Backend : Cardinality(S) <= MaxBackends})
    /\ active = [b \in Backend |-> b \in installed]
    /\ \E inner \in StartsIn("firewall", {<<>>} \cup {<<r>> : r \in Internal}) :
            rules = [b \in Backend |-> IF b = "iptables" THEN inner ELSE <<>>]
    /\ permanent = {} /\ runtime = {}
    /\ shown = [p \in Page |-> {}]
    /\ nmcli \in StartsIn("links", BOOLEAN)
    /\ link = [n \in Link |-> "none"]
    /\ profile = {}

-----------------------------------------------------------------------------
(* Properties. *)

Occurrences(seq, r) == Cardinality({i \in DOMAIN seq : seq[i] = r})

\* A page whose table is up to date removes the very rule it shows, although ufw and iptables
\* are only told a number and internal chains are left out of the table: the numbering of
\* firewall_rules_all and the deletion of firewall_remove_rule agree.
RemovesWhatItShows ==
    [][\A p \in Page : \A e \in shown[p] :
        RemoveShown(p, e) /\ shown[p] = Listing /\ reply'.op # "none" =>
            \A r \in Rule :
                Occurrences(rules'[e.backend], r) =
                    Occurrences(rules[e.backend], r) - (IF r = e.rule THEN 1 ELSE 0)]_networkVars

\* What the answer to a change of links says (networking.rs:1065-1171): without NetworkManager
\* the link is there, up or gone, although that takes two commands; with it, a bridge or a VLAN
\* has a connection NetworkManager keeps, and a removed bridge has none any more or no link.  A
\* removed VLAN has no link, but nothing is said of its connection, which may bring it back.
NetworkOkIsDone ==
    /\ Told("links", "add_bridge") =>
          IF nmcli THEN reply.arg \in profile ELSE link[reply.arg] = "up"
    /\ Told("links", "add_vlan") =>
          IF nmcli THEN reply.arg \in profile ELSE link[reply.arg] # "none"
    /\ Told("links", "remove_interface") =>
          link[reply.arg] = "none" \/ (nmcli /\ reply.arg \notin Vlan \cup profile)
    /\ Told("links", "set_link") => link[reply.arg[1]] = reply.arg[2]
=============================================================================
