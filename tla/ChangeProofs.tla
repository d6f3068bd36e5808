---------------------------- MODULE ChangeProofs ----------------------------
(***************************************************************************)
(* What a page is told of accounts, links, services and keys holds on the  *)
(* host, for any names: the handlers that HostProofs does not cover.  As   *)
(* there, an answer is judged in the state its chain of commands leaves.   *)
(***************************************************************************)
EXTENDS HostProofs

-----------------------------------------------------------------------------
(* Accounts. *)

\* A step of Machines is one of the accounts' handlers or leaves them alone.
LEMMA AccountsSteps ==
    [Next]_machineVars =>
        (part = "accounts" /\ part' = part /\ AccountsNext) \/ Stays("accounts", accountVars)
<1>1. ASSUME NEW p, p # "accounts", On(p) PROVE Stays("accounts", accountVars)
  BY <1>1 DEF On, Leaves, Stays
<1>2. ASSUME UNCHANGED machineVars PROVE Stays("accounts", accountVars)
  BY <1>2 DEF machineVars, accountsVars, Stays
<1>3. ASSUME Next
      PROVE  (part = "accounts" /\ part' = part /\ AccountsNext) \/ Stays("accounts", accountVars)
  <2>1. On("accounts") => part = "accounts" /\ part' = part
    BY DEF On
  <2> QED
    BY <1>1, <1>3, <2>1 DEF Next
<1> QED
  BY <1>2, <1>3

\* The account after one, two and three commands of create_user.
Is(a, password, locked, expired, gs) ==
    /\ a \in [password : BOOLEAN, locked : BOOLEAN, expired : BOOLEAN, groups : {gs}]
    /\ a.password = password /\ a.locked = locked /\ a.expired = expired

LEMMA CreatedIs ==
    ASSUME NEW gs
    PROVE  /\ Created(gs, 0) = NoAccount
           /\ Is(Created(gs, 1), FALSE, TRUE, FALSE, gs)
           /\ Is(Created(gs, 2), TRUE, FALSE, FALSE, gs)
           /\ Is(Created(gs, 3), TRUE, FALSE, TRUE, gs)
<1>1. Is(Useradd(gs), FALSE, TRUE, FALSE, gs)
  BY DEF Is, Useradd
<1>2. Is(Chpasswd(Useradd(gs)), TRUE, FALSE, FALSE, gs)
  BY <1>1 DEF Is, Chpasswd
<1>3. Is(Chage(Chpasswd(Useradd(gs))), TRUE, FALSE, TRUE, gs)
  BY <1>2 DEF Is, Chage
<1>4. /\ Created(gs, 0) = NoAccount /\ Created(gs, 1) = Useradd(gs)
      /\ Created(gs, 2) = Chpasswd(Useradd(gs))
      /\ Created(gs, 3) = Chage(Chpasswd(Useradd(gs)))
  BY DEF Created
<1> QED
  BY <1>1, <1>2, <1>3, <1>4

\* passwd and shadow have an entry, or none, for every name.
AccountsTable == account \in [User -> Account \cup {NoAccount}]

LEMMA AccountsTyped == Spec => []AccountsTable
<1> USE DEF AccountsTable
<1>1. Init => AccountsTable
  BY DEF Init, AccountsInit, Account
<1>2. AccountsTable /\ [Next]_machineVars => AccountsTable'
  <2> SUFFICES ASSUME AccountsTable, AccountsNext \/ UNCHANGED accountVars PROVE AccountsTable'
    BY AccountsSteps DEF Stays
  <2>1. ASSUME NEW u \in User, NEW gs \in SUBSET Group, NEW setPw \in BOOLEAN, NEW force \in BOOLEAN,
               CreateUser(u, gs, setPw, force)
        PROVE  AccountsTable'
    <3>1. ASSUME NEW n \in 0..3 PROVE Created(gs, n) \in Account \cup {NoAccount}
      <4>1. n = 0 \/ n = 1 \/ n = 2 \/ n = 3
        OBVIOUS
      <4>2. ASSUME NEW a, NEW p, NEW l, NEW e, Is(a, p, l, e, gs) PROVE a \in Account
        BY <4>2 DEF Is, Account
      <4>3. /\ Created(gs, 1) \in Account /\ Created(gs, 2) \in Account
            /\ Created(gs, 3) \in Account
        BY <4>2, CreatedIs
      <4> QED
        BY <4>1, <4>3, CreatedIs
    <3>2. CASE UNCHANGED account
      BY <3>2
    <3>3. ASSUME NEW c \in Chain(IF ~setPw THEN 1 ELSE IF force THEN 3 ELSE 2),
                 account' = [account EXCEPT ![u] = Created(gs, c.done)]
          PROVE  AccountsTable'
      <4>1. c.done \in 0..3
        BY DEF Chain
      <4> QED
        BY <3>1, <3>3, <4>1
    <3> QED
      BY <2>1, <3>2, <3>3 DEF CreateUser
  <2>2. ASSUME NEW u \in User, NEW a \in Account \cup {NoAccount}, NEW possible, NEW op, NEW arg,
               One(op, u, possible, a, arg)
        PROVE  AccountsTable'
    BY <2>2 DEF One
  <2>3. ASSUME NEW u \in User, Exists(u)
        PROVE  /\ account[u] \in Account
               /\ Chpasswd(account[u]) \in Account /\ Chage(Chpasswd(account[u])) \in Account
               /\ UsermodU(account[u]) \in Account
               /\ [account[u] EXCEPT !.locked = TRUE] \in Account
               /\ \A gs \in SUBSET Group : [account[u] EXCEPT !.groups = gs] \in Account
    BY <2>3 DEF Exists, Account, Chpasswd, Chage, UsermodU
  <2>4. ASSUME NEW u \in User, NEW force \in BOOLEAN, SetPassword(u, force) PROVE AccountsTable'
    <3>1. CASE UNCHANGED account
      BY <3>1
    <3>2. ASSUME Exists(u), NEW c \in Chain(IF force THEN 2 ELSE 1),
                 account' = [account EXCEPT ![u] = <<@, Chpasswd(@), Chage(Chpasswd(@))>>[c.done + 1]]
          PROVE  AccountsTable'
      <4>1. c.done \in 0..2
        BY DEF Chain
      <4>2. <<account[u], Chpasswd(account[u]), Chage(Chpasswd(account[u]))>>[c.done + 1] \in Account
        <5>1. c.done = 0 \/ c.done = 1 \/ c.done = 2
          BY <4>1
        <5>2. account[u] \in Account /\ Chpasswd(account[u]) \in Account
              /\ Chage(Chpasswd(account[u])) \in Account
          BY <2>3, <3>2
        <5>3. ASSUME NEW a \in Account, NEW b \in Account, NEW d \in Account
              PROVE  <<a, b, d>>[c.done + 1] \in Account
          BY <5>1
        <5> QED
          BY <5>2, <5>3
      <4> QED
        BY <3>2, <4>2
    <3> QED
      BY <2>4, <3>1, <3>2 DEF SetPassword
  <2>5. ASSUME NEW op, NEW u \in User, NEW possible, NEW a, NEW arg, possible => Exists(u),
               Exists(u) => a \in Account \cup {NoAccount}, One(op, u, possible, a, arg)
        PROVE  AccountsTable'
    BY <2>5 DEF One, Chain
  <2>6. ASSUME NEW g \in Group, CreateGroup(g) \/ DeleteGroup(g) PROVE AccountsTable'
    <3>1. CASE CreateGroup(g)
      BY <3>1 DEF CreateGroup
    <3>2. CASE DeleteGroup(g)
      <4>1. ASSUME NEW u \in User, Exists(u)
            PROVE  [account[u] EXCEPT !.groups = @ \ {g}] \in Account
        BY <2>3, <4>1 DEF Account
      <4> QED
        BY <3>2, <4>1 DEF DeleteGroup, accountVars
    <3> QED
      BY <2>6, <3>1, <3>2
  <2>7. ASSUME NEW u \in User, NEW gs \in SUBSET Group, ModifyUser(u, gs) PROVE AccountsTable'
    BY <2>3, <2>5, <2>7 DEF ModifyUser
  <2>8. ASSUME NEW u \in User, DeleteUser(u) \/ LockUser(u) \/ UnlockUser(u) PROVE AccountsTable'
    <3>1. CASE UNCHANGED accountVars
      BY <3>1 DEF accountVars
    <3>2. CASE One("delete", u, Exists(u), NoAccount, u)
      BY <2>5, <3>2
    <3>3. CASE One("lock", u, Exists(u), [account[u] EXCEPT !.locked = TRUE], u)
      BY <2>3, <2>5, <3>3
    <3>4. CASE UnlockUser(u)
      <4>1. Exists(u) => UsermodU(account[u]) \in Account \cup {NoAccount}
        BY <2>3
      <4>2. One("unlock", u, Exists(u), UsermodU(account[u]), u)
        BY <3>4 DEF UnlockUser
      <4> HIDE DEF AccountsTable
      <4> QED
        BY <2>5, <4>1, <4>2
    <3> QED
      BY <2>8, <3>1, <3>2, <3>3, <3>4 DEF DeleteUser, LockUser
  <2>9. CASE UNCHANGED accountVars
    BY <2>9 DEF accountVars
  <2> QED
    BY <2>1, <2>4, <2>6, <2>7, <2>8, <2>9 DEF AccountsNext
<1> QED
  BY <1>1, <1>2, PTL DEF Spec

\* What the answer to a change of accounts says is so: create_user, set_password_internal and
\* unlock_user report a failure of any of their commands.
THEOREM AccountsAreAsTold == Spec => []AccountOkIsDone
<1> USE DEF AccountOkIsDone, Told, Answer, Refuse, NoReply
<1>1. Init => AccountOkIsDone
  BY DEF Init, AccountsInit
<1>2. AccountsTable /\ AccountOkIsDone /\ [Next]_machineVars => AccountOkIsDone'
  <2> SUFFICES ASSUME AccountsTable, AccountOkIsDone,
                      (part = "accounts" /\ part' = part /\ AccountsNext)
                        \/ Stays("accounts", accountVars)
               PROVE  AccountOkIsDone'
    BY AccountsSteps
  <2> USE DEF AccountsTable
  <2>1. ASSUME NEW u \in User, NEW gs \in SUBSET Group, NEW setPw \in BOOLEAN, NEW force \in BOOLEAN,
               CreateUser(u, gs, setPw, force)
        PROVE  AccountOkIsDone'
    <3>1. ASSUME reply' = [op |-> "none", arg |-> "none"] PROVE AccountOkIsDone'
      BY <3>1
    <3>2. ASSUME NEW c \in Chain(IF ~setPw THEN 1 ELSE IF force THEN 3 ELSE 2), c.ok,
                 account' = [account EXCEPT ![u] = Created(gs, c.done)],
                 reply' = [op |-> "create", arg |-> <<u, gs, setPw, force>>]
          PROVE  AccountOkIsDone'
      <4>1. account'[u] = Created(gs, IF ~setPw THEN 1 ELSE IF force THEN 3 ELSE 2)
        BY <3>2 DEF Chain
      <4>2. Is(account'[u], setPw, ~setPw, setPw /\ force, gs)
        <5>1. CASE setPw = FALSE
          BY <4>1, <5>1, CreatedIs
        <5>2. CASE setPw = TRUE /\ force = FALSE
          BY <4>1, <5>2, CreatedIs
        <5>3. CASE setPw = TRUE /\ force = TRUE
          BY <4>1, <5>3, CreatedIs
        <5> QED
          BY <5>1, <5>2, <5>3
      <4> QED
        BY <3>2, <4>2 DEF Is
    <3> QED
      BY <2>1, <3>1, <3>2 DEF CreateUser
  <2>2. ASSUME NEW u \in User, NEW force \in BOOLEAN, SetPassword(u, force) PROVE AccountOkIsDone'
    <3>1. ASSUME reply' = [op |-> "none", arg |-> "none"] PROVE AccountOkIsDone'
      BY <3>1
    <3>2. ASSUME Exists(u), NEW c \in Chain(IF force THEN 2 ELSE 1), c.ok,
                 account' = [account EXCEPT ![u] = <<@, Chpasswd(@), Chage(Chpasswd(@))>>[c.done + 1]],
                 reply' = [op |-> "set_password", arg |-> <<u, force>>]
          PROVE  AccountOkIsDone'
      <4>1. account'[u] = IF force THEN Chage(Chpasswd(account[u])) ELSE Chpasswd(account[u])
        BY <3>2 DEF Chain
      <4>2. account[u] \in Account
        BY <3>2 DEF Exists
      <4>3. Chpasswd(account[u]) \in Account
        BY <4>2 DEF Account, Chpasswd
      <4>4. CASE force
        BY <3>2, <4>1, <4>2, <4>3, <4>4 DEF Account, Chpasswd, Chage
      <4>5. CASE ~force
        BY <3>2, <4>1, <4>2, <4>5 DEF Account, Chpasswd
      <4> QED
        BY <4>4, <4>5
    <3> QED
      BY <2>2, <3>1, <3>2 DEF SetPassword
  <2>3. ASSUME NEW u \in User, UnlockUser(u) PROVE AccountOkIsDone'
    BY <2>3 DEF UnlockUser, One, Chain, Exists, Account, UsermodU
  <2>4. ASSUME NEW u \in User, NEW gs \in SUBSET Group, ModifyUser(u, gs) PROVE AccountOkIsDone'
    BY <2>4 DEF ModifyUser, One
  <2>5. ASSUME NEW u \in User, DeleteUser(u) \/ LockUser(u) PROVE AccountOkIsDone'
    BY <2>5 DEF DeleteUser, LockUser, One
  <2>6. ASSUME NEW g \in Group, CreateGroup(g) \/ DeleteGroup(g) PROVE AccountOkIsDone'
    BY <2>6 DEF CreateGroup, DeleteGroup
  <2>7. CASE Stays("accounts", accountVars)
    BY <2>7 DEF Stays, accountVars
  <2> QED
    BY <2>1, <2>2, <2>3, <2>4, <2>5, <2>6, <2>7 DEF AccountsNext
<1> QED
  BY <1>1, <1>2, AccountsTyped, PTL DEF Spec

-----------------------------------------------------------------------------
(* Links. *)

LinksTable == link \in [Link -> {"none", "down", "up"}]

\* A step of Machines is one of the handlers of links, in a behaviour about them, or leaves them
\* and what was told of them alone.
LEMMA LinksSteps ==
    [Next]_machineVars =>
        (part = "links" /\ part' = part /\ LinkNext) \/ Stays("links", linkVars)
        \/ (part = "firewall" /\ part' = part /\ FirewallNext)
<1>1. ASSUME NEW p, p # "links", p # "firewall", On(p) PROVE Stays("links", linkVars)
  BY <1>1 DEF On, Leaves, Stays
<1>2. ASSUME UNCHANGED machineVars PROVE Stays("links", linkVars)
  BY <1>2 DEF machineVars, networkVars, linkVars, Stays
<1>3. ASSUME Next
      PROVE  (part = "links" /\ part' = part /\ LinkNext) \/ Stays("links", linkVars)
             \/ (part = "firewall" /\ part' = part /\ FirewallNext)
  <2>1. /\ On("links") => part = "links" /\ part' = part
        /\ On("firewall") => part = "firewall" /\ part' = part
    BY DEF On
  <2> QED
    BY <1>1, <1>3, <2>1 DEF Next
<1> QED
  BY <1>2, <1>3

\* The firewalls' handlers leave links alone.
LEMMA FirewallLeavesLinks == FirewallNext => UNCHANGED link
  BY DEF FirewallNext, LoadFirewall, Toggle, AddRule, RemoveShown, RemoveShownFirewalld, RemoveNamed,
         OutsideRemoves, linkVars

\* `ip link add` and what follows leave the link in one of its states, up when both of two
\* commands are done.
LEMMA IpAddsLink ==
    ASSUME LinksTable, NEW n \in Link, NEW op, NEW steps \in {1, 2}, IpAdds(n, op, steps)
    PROVE  /\ LinksTable' /\ profile' = profile
           /\ \/ reply' = NoReply
              \/ /\ reply' = [op |-> op, arg |-> n]
                 /\ link'[n] = IF steps = 2 THEN "up" ELSE "down"
<1> USE DEF LinksTable
<1>1. PICK c \in Chain(IF link[n] = "none" THEN steps ELSE 0) :
            /\ link' = [link EXCEPT ![n] = <<@, "down", "up">>[c.done + 1]]
            /\ Answer(op, n, c.ok /\ link[n] = "none")
            /\ UNCHANGED profile
  BY DEF IpAdds
<1>2. c.done \in {0, 1, 2} /\ (c.ok /\ link[n] = "none" => c.done = steps)
  BY <1>1 DEF Chain
<1>3. <<link[n], "down", "up">>[c.done + 1] \in {"none", "down", "up"}
  BY <1>2
<1>4. LinksTable'
  BY <1>1, <1>3
<1>5. link'[n] = <<link[n], "down", "up">>[c.done + 1]
  BY <1>1
<1>6. CASE c.ok /\ link[n] = "none"
  BY <1>1, <1>2, <1>4, <1>5, <1>6 DEF Answer
<1>7. CASE ~(c.ok /\ link[n] = "none")
  BY <1>1, <1>4, <1>7 DEF Answer
<1> QED
  BY <1>6, <1>7

LEMMA LinksTyped == Spec => []LinksTable
<1> USE DEF LinksTable
<1>1. Init => LinksTable
  BY DEF Init, NetworkInit
<1>2. LinksTable /\ [Next]_machineVars => LinksTable'
  <2> SUFFICES ASSUME LinksTable, LinkNext \/ UNCHANGED link PROVE LinksTable'
    BY LinksSteps, FirewallLeavesLinks DEF Stays, linkVars
  <2>1. ASSUME NEW n \in Link, AddBridge(n) \/ AddVlan(n) PROVE LinksTable'
    BY <2>1, IpAddsLink DEF AddBridge, AddVlan, NmAdds
  <2>2. ASSUME NEW n \in Link, NetworkManagerActs(n) PROVE LinksTable'
    BY <2>2 DEF NetworkManagerActs
  <2>3. ASSUME NEW n \in Link, RemoveInterface(n) PROVE LinksTable'
    BY <2>3 DEF RemoveInterface
  <2>4. ASSUME NEW n \in Link, NEW to \in {"down", "up"}, SetLink(n, to) \/ SetVpn(n, to)
        PROVE  LinksTable'
    BY <2>4 DEF SetLink, SetVpn
  <2> QED
    BY <2>1, <2>2, <2>3, <2>4 DEF LinkNext
<1> QED
  BY <1>1, <1>2, PTL DEF Spec

\* What the answer to a change of links says is so, whether NetworkManager keeps a connection
\* or a chain of ip commands made the link, and whatever NetworkManager did before: add_bridge,
\* add_vlan, remove_interface, iface_up and vpn_connect.
THEOREM LinksAreAsTold == Spec => []NetworkOkIsDone
<1> USE DEF NetworkOkIsDone, Told, NoReply
<1>1. Init => NetworkOkIsDone
  BY DEF Init, NetworkInit
<1>2. LinksTable /\ NetworkOkIsDone /\ [Next]_machineVars => NetworkOkIsDone'
  <2> SUFFICES ASSUME LinksTable, NetworkOkIsDone, part' = "links",
                      LinkNext \/ UNCHANGED <<part, reply, linkVars>>
               PROVE  NetworkOkIsDone'
    BY LinksSteps DEF Stays
  <2> USE DEF LinksTable
  <2>1. ASSUME NEW n \in Link, AddBridge(n) \/ AddVlan(n) PROVE NetworkOkIsDone'
    <3>1. ASSUME NEW op \in {"add_bridge", "add_vlan"}, nmcli, nmcli' = nmcli, NmAdds(n, op)
          PROVE  NetworkOkIsDone'
      BY <3>1 DEF NmAdds, Chain, Answer
    <3>2. ASSUME ~nmcli, nmcli' = nmcli, IpAdds(n, "add_bridge", 2) PROVE NetworkOkIsDone'
      <4>1. reply' = NoReply \/ (reply' = [op |-> "add_bridge", arg |-> n] /\ link'[n] = "up")
        BY <3>2, IpAddsLink
      <4> QED
        BY <3>2, <4>1
    <3>3. ASSUME ~nmcli, nmcli' = nmcli, IpAdds(n, "add_vlan", 1) PROVE NetworkOkIsDone'
      <4>1. reply' = NoReply \/ (reply' = [op |-> "add_vlan", arg |-> n] /\ link'[n] = "down")
        BY <3>3, IpAddsLink
      <4> QED
        BY <3>3, <4>1
    <3> QED
      BY <2>1, <3>1, <3>2, <3>3 DEF AddBridge, AddVlan
  <2>2. ASSUME NEW n \in Link, NetworkManagerActs(n) PROVE NetworkOkIsDone'
    BY <2>2 DEF NetworkManagerActs
  <2>3. ASSUME NEW n \in Link, RemoveInterface(n) PROVE NetworkOkIsDone'
    BY <2>3 DEF RemoveInterface, NamedAsLink, Chain, Answer
  <2>4. ASSUME NEW n \in Link, NEW to \in {"down", "up"}, SetLink(n, to) \/ SetVpn(n, to)
        PROVE  NetworkOkIsDone'
    BY <2>4 DEF SetLink, SetVpn, Chain, Answer
  <2>5. CASE UNCHANGED <<part, reply, linkVars>>
    BY <2>5 DEF linkVars
  <2> QED
    BY <2>1, <2>2, <2>3, <2>4, <2>5 DEF LinkNext
<1> QED
  BY <1>1, <1>2, LinksTyped, PTL DEF Spec

-----------------------------------------------------------------------------
(* Firewalls. *)

FirewallTable ==
    /\ installed \subseteq Backend
    /\ active \in [Backend -> BOOLEAN]
    /\ rules \in [Backend -> Seq(Rule)] /\ \A b \in Backend : Len(rules[b]) <= MaxRules
    /\ permanent \subseteq Rule /\ runtime \subseteq Rule
    /\ shown \in [Page -> SUBSET Entry]

\* A step of Machines is one of the firewalls' handlers or leaves them alone.
LEMMA FirewallSteps ==
    [Next]_machineVars => (part' = part /\ FirewallNext) \/ Stays("firewall", firewallVars)
<1>1. ASSUME NEW p, p # "links", p # "firewall", On(p) PROVE Stays("firewall", firewallVars)
  BY <1>1 DEF On, Leaves, Stays
<1>2. ASSUME UNCHANGED machineVars PROVE Stays("firewall", firewallVars)
  BY <1>2 DEF machineVars, networkVars, firewallVars, Stays
<1>3. LinkNext => UNCHANGED firewallVars
  BY DEF LinkNext, AddBridge, AddVlan, NetworkManagerActs, RemoveInterface, SetLink, SetVpn, firewallVars
<1>4. ASSUME Next PROVE (part' = part /\ FirewallNext) \/ Stays("firewall", firewallVars)
  <2>1. /\ On("links") => part = "links" /\ part' = part
        /\ On("firewall") => part' = part
    BY DEF On
  <2> QED
    BY <1>1, <1>3, <1>4, <2>1 DEF Next, Stays
<1> QED
  BY <1>2, <1>4

\* Taking the n-th line away.
LEMMA RemovedIs ==
    ASSUME NEW T, NEW s \in Seq(T), NEW n \in 1..Len(s)
    PROVE  /\ RemoveAt(s, n) \in Seq(T) /\ Len(RemoveAt(s, n)) = Len(s) - 1
           /\ \A i \in 1..Len(s) - 1 : RemoveAt(s, n)[i] = IF i < n THEN s[i] ELSE s[i + 1]
<1>1. PICK a, b : a = SubSeq(s, 1, n - 1) /\ b = SubSeq(s, n + 1, Len(s))
  OBVIOUS
<1>2. /\ a \in Seq(T) /\ Len(a) = n - 1
      /\ \A i \in 1..n - 1 : a[i] = s[i]
  BY <1>1
<1>3. /\ b \in Seq(T) /\ Len(b) = Len(s) - n
      /\ \A i \in 1..Len(s) - n : b[i] = s[n + i]
  BY <1>1
<1>4. PICK t : t = a \o b
  OBVIOUS
<1>5. /\ t \in Seq(T) /\ Len(t) = Len(a) + Len(b)
      /\ \A i \in 1..Len(t) : t[i] = IF i <= Len(a) THEN a[i] ELSE b[i - Len(a)]
  BY <1>2, <1>3, <1>4, Joined
<1>6. Len(t) = Len(s) - 1
  BY <1>2, <1>3, <1>5
<1>7. ASSUME NEW i \in 1..Len(s) - 1 PROVE t[i] = IF i < n THEN s[i] ELSE s[i + 1]
  <2>1. CASE i < n
    BY <1>2, <1>5, <1>6, <2>1
  <2>2. CASE ~(i < n)
    <3>1. i - Len(a) \in 1..Len(s) - n /\ n + (i - Len(a)) = i + 1 /\ ~(i <= Len(a))
      BY <1>2, <2>2
    <3>2. t[i] = b[i - Len(a)]
      BY <1>5, <1>6, <3>1
    <3> QED
      BY <1>3, <2>2, <3>1, <3>2
  <2> QED
    BY <2>1, <2>2
<1> QED
  BY <1>1, <1>4, <1>5, <1>6, <1>7 DEF RemoveAt

\* A value occurs once less when one of its lines is taken away, and every other as often.
LEMMA OneFewer ==
    ASSUME NEW T, NEW s \in Seq(T), NEW n \in 1..Len(s), NEW r
    PROVE  Occurrences(RemoveAt(s, n), r) = Occurrences(s, r) - (IF r = s[n] THEN 1 ELSE 0)
<1>1. PICK t : t = RemoveAt(s, n)
  OBVIOUS
<1>2. /\ t \in Seq(T) /\ Len(t) = Len(s) - 1
      /\ \A i \in 1..Len(s) - 1 : t[i] = IF i < n THEN s[i] ELSE s[i + 1]
  BY <1>1, RemovedIs
<1> DEFINE before == {i \in 1..Len(s) : s[i] = r}
           after == {i \in 1..Len(t) : t[i] = r}
           place == [i \in after |-> IF i < n THEN i ELSE i + 1]
<1>3. IsFiniteSet(before) /\ IsFiniteSet(after)
  <2>1. Len(s) \in Nat /\ Len(t) \in Nat
    BY <1>2
  <2>2. IsFiniteSet(1..Len(s)) /\ IsFiniteSet(1..Len(t))
    BY <2>1, FS_Interval
  <2> QED
    BY <2>2, FS_Subset
<1>4. place \in Bijection(after, before \ {n})
  <2>1. ASSUME NEW i \in after PROVE place[i] \in before \ {n}
    BY <1>2
  <2>2. ASSUME NEW i \in after, NEW j \in after, place[i] = place[j] PROVE i = j
    BY <1>2, <2>2
  <2>3. ASSUME NEW j \in before \ {n} PROVE \E i \in after : place[i] = j
    <3>1. CASE j < n
      <4>1. j \in after
        BY <1>2, <3>1
      <4> QED
        BY <3>1, <4>1
    <3>2. CASE ~(j < n)
      <4>1. j - 1 \in 1..Len(s) - 1 /\ ~(j - 1 < n) /\ j - 1 + 1 = j
        BY <3>2
      <4>2. j - 1 \in after
        BY <1>2, <4>1
      <4> QED
        BY <4>1, <4>2
    <3> QED
      BY <3>1, <3>2
  <2>4. place \in [after -> before \ {n}]
    BY <2>1
  <2> HIDE DEF before, after, place
  <2> QED
    BY <2>2, <2>3, <2>4 DEF Bijection, Injection, Surjection, IsInjective
<1>5. Cardinality(before \ {n}) = Cardinality(after)
  <2> HIDE DEF before, after, place
  <2> QED
    BY <1>3, <1>4, FS_Bijection DEF ExistsBijection
<1>6. Cardinality(before \ {n}) = IF n \in before THEN Cardinality(before) - 1 ELSE Cardinality(before)
  <2> HIDE DEF before, after
  <2> QED
    BY <1>3, FS_RemoveElement
<1>7. Cardinality(before) \in Nat
  <2> HIDE DEF before
  <2> QED
    BY <1>3, FS_CardinalityType
<1>8. Occurrences(s, r) = Cardinality(before) /\ Occurrences(t, r) = Cardinality(after)
  <2>1. DOMAIN s = 1..Len(s) /\ DOMAIN t = 1..Len(t)
    BY <1>2
  <2> QED
    BY <2>1 DEF Occurrences
<1>9. n \in before <=> r = s[n]
  OBVIOUS
<1> HIDE DEF before, after
<1> QED
  BY <1>1, <1>5, <1>6, <1>7, <1>8, <1>9

\* What a page is shown of a firewall are entries of it, and what is numbered is in its place.
LEMMA ListedAre ==
    ASSUME FirewallTable
    PROVE  /\ \A b \in Backend : \A e \in Listed(b) : e \in Entry /\ e.backend = b
           /\ \A b \in {"ufw", "iptables"} : \A e \in Listed(b) : e.rule = rules[b][e.number]
<1>1. ASSUME NEW b \in Backend, NEW e \in Numbered(b)
      PROVE  e \in Entry /\ e.backend = b /\ e.rule = rules[b][e.number]
  <2>1. PICK i \in DOMAIN rules[b] : e = [backend |-> b, number |-> i, rule |-> rules[b][i]]
    BY DEF Numbered
  <2>2. i \in Nat /\ rules[b][i] \in Rule
    BY DEF FirewallTable
  <2> QED
    BY <2>1, <2>2 DEF Entry
<1>2. ASSUME NEW b \in Backend PROVE UserEntries(b) \subseteq Numbered(b)
  BY DEF UserEntries
<1>3. ASSUME NEW b \in Backend, NEW e \in Listed(b) PROVE e \in Entry /\ e.backend = b
  <2>1. CASE b = "firewalld"
    BY <1>3, <2>1 DEF Listed, Entry, FirewallTable
  <2>2. CASE b # "firewalld"
    BY <1>1, <1>2, <1>3, <2>2 DEF Listed
  <2> QED
    BY <2>1, <2>2
<1>4. ASSUME NEW b \in {"ufw", "iptables"}, NEW e \in Listed(b) PROVE e.rule = rules[b][e.number]
  BY <1>1, <1>2, <1>4 DEF Listed, Backend
<1> QED
  BY <1>3, <1>4

LEMMA FirewallTyped == Spec => []FirewallTable
<1>1. Init => FirewallTable
  <2> SUFFICES ASSUME NetworkInit PROVE FirewallTable
    BY DEF Init
  <2>1. installed \subseteq Backend
    <3>1. {} \in {S \in SUBSET Backend : Cardinality(S) <= MaxBackends}
      BY FS_EmptySet, NetworkAssumption
    <3> QED
      BY <3>1 DEF NetworkInit, StartsIn
  <2>2. PICK inner \in {<<>>} \cup {<<r>> : r \in Internal} :
            rules = [b \in Backend |-> IF b = "iptables" THEN inner ELSE <<>>]
    BY DEF NetworkInit, StartsIn
  <2>3. inner \in Seq(Rule) /\ Len(inner) <= MaxRules /\ <<>> \in Seq(Rule) /\ Len(<<>>) <= MaxRules
    <3>1. <<>> \in Seq(Rule) /\ Len(<<>>) = 0 /\ 0 <= MaxRules /\ 1 <= MaxRules
      BY NetworkAssumption
    <3>2. ASSUME NEW r \in Internal PROVE <<r>> \in Seq(Rule) /\ Len(<<r>>) = 1
      BY NetworkAssumption
    <3> QED
      BY <3>1, <3>2
  <2>4. rules \in [Backend -> Seq(Rule)] /\ \A b \in Backend : Len(rules[b]) <= MaxRules
    BY <2>2, <2>3
  <2> QED
    BY <2>1, <2>4 DEF NetworkInit, FirewallTable
<1>2. FirewallTable /\ [Next]_machineVars => FirewallTable'
  <2> SUFFICES ASSUME FirewallTable, FirewallNext \/ UNCHANGED firewallVars PROVE FirewallTable'
    BY FirewallSteps DEF Stays
  <2> USE DEF FirewallTable
  <2>1. ASSUME NEW p \in Page, LoadFirewall(p) PROVE FirewallTable'
    <3>1. Listing \in SUBSET Entry
      BY ListedAre DEF Listing
    <3> QED
      BY <2>1, <3>1 DEF LoadFirewall
  <2>2. ASSUME NEW b \in Backend, NEW on \in BOOLEAN, Toggle(b, on) PROVE FirewallTable'
    BY <2>2 DEF Toggle, SetActive
  <2>3. ASSUME NEW b \in Backend, NEW r \in Rule, AddRule(b, r) PROVE FirewallTable'
    <3>1. WithRule(b, r) \in Seq(Rule) /\ Len(WithRule(b, r)) <= MaxRules
      BY <2>3, NetworkAssumption DEF AddRule, WithRule
    <3>2. CASE UNCHANGED <<rules, permanent>>
      BY <2>3, <3>2 DEF AddRule
    <3>3. CASE permanent' = permanent \cup {r} /\ UNCHANGED rules
      BY <2>3, <3>3 DEF AddRule
    <3>4. CASE rules' = [rules EXCEPT ![b] = WithRule(b, r)] /\ UNCHANGED permanent
      BY <2>3, <3>1, <3>4 DEF AddRule
    <3> QED
      BY <2>3, <3>2, <3>3, <3>4 DEF AddRule
  <2>4. ASSUME NEW p \in Page, NEW e \in shown[p], RemoveShown(p, e) PROVE FirewallTable'
    <3>1. CASE UNCHANGED rules
      BY <2>4, <3>1 DEF RemoveShown
    <3>2. CASE e.number \in DOMAIN rules[e.backend]
               /\ rules' = [rules EXCEPT ![e.backend] = RemoveAt(@, e.number)]
      <4>1. e.backend \in Backend /\ e.number \in 1..Len(rules[e.backend])
        BY <2>4, <3>2 DEF RemoveShown, Backend
      <4>2. /\ RemoveAt(rules[e.backend], e.number) \in Seq(Rule)
            /\ Len(RemoveAt(rules[e.backend], e.number)) = Len(rules[e.backend]) - 1
        BY <4>1, RemovedIs
      <4>3. Len(rules[e.backend]) \in Nat /\ Len(rules[e.backend]) <= MaxRules
        BY <4>1
      <4> QED
        BY <2>4, <3>2, <4>1, <4>2, <4>3, NetworkAssumption DEF RemoveShown
    <3> QED
      BY <2>4, <3>1, <3>2 DEF RemoveShown
  <2>5. ASSUME NEW p \in Page, NEW e \in shown[p], RemoveShownFirewalld(p, e) PROVE FirewallTable'
    BY <2>5 DEF RemoveShownFirewalld, firewallVars
  <2>6. ASSUME NEW r \in Rule, RemoveNamed(r) PROVE FirewallTable'
    BY <2>6 DEF RemoveNamed
  <2>7. ASSUME NEW b \in Backend, OutsideRemoves(b) PROVE FirewallTable'
    <3>1. Tail(rules[b]) \in Seq(Rule) /\ Len(Tail(rules[b])) <= MaxRules
      BY <2>7, NetworkAssumption DEF OutsideRemoves
    <3> QED
      BY <2>7, <3>1 DEF OutsideRemoves
  <2>8. CASE UNCHANGED firewallVars
    BY <2>8 DEF firewallVars
  <2> QED
    BY <2>1, <2>2, <2>3, <2>4, <2>5, <2>6, <2>7, <2>8 DEF FirewallNext
<1> QED
  BY <1>1, <1>2, PTL DEF Spec

\* A page whose table is up to date removes the rule it shows, for any rules and firewalls: the
\* numbering of firewall_rules_all and the deletion of firewall_remove_rule agree.
THEOREM ShownRuleIsRemoved == Spec => RemovesWhatItShows
<1>1. FirewallTable =>
          [\A p \in Page : \A e \in shown[p] :
              RemoveShown(p, e) /\ shown[p] = Listing /\ reply'.op # "none" =>
                  \A r \in Rule :
                      Occurrences(rules'[e.backend], r) =
                          Occurrences(rules[e.backend], r) - (IF r = e.rule THEN 1 ELSE 0)]_networkVars
  <2> SUFFICES ASSUME FirewallTable, NEW p \in Page, NEW e \in shown[p], RemoveShown(p, e),
                      shown[p] = Listing, reply'.op # "none", NEW r \in Rule
               PROVE  Occurrences(rules'[e.backend], r) =
                          Occurrences(rules[e.backend], r) - (IF r = e.rule THEN 1 ELSE 0)
    OBVIOUS
  <2> DEFINE b == e.backend
             n == e.number
  <2>1. b \in {"ufw", "iptables"} /\ b \in Backend
    BY DEF RemoveShown, Backend
  <2>2. n \in DOMAIN rules[b] /\ rules' = [rules EXCEPT ![b] = RemoveAt(@, n)]
    BY DEF RemoveShown, Refuse, Answer, NoReply, Chain
  <2>3. e.rule = rules[b][n]
    <3>1. PICK o \in installed : e \in Listed(o)
      BY DEF Listing
    <3>2. o = b
      BY <3>1, ListedAre DEF FirewallTable
    <3> QED
      BY <2>1, <3>1, <3>2, ListedAre
  <2>4. rules[b] \in Seq(Rule) /\ n \in 1..Len(rules[b]) /\ rules'[b] = RemoveAt(rules[b], n)
    BY <2>1, <2>2 DEF FirewallTable
  <2> HIDE DEF b, n
  <2>5. Occurrences(RemoveAt(rules[b], n), r) = Occurrences(rules[b], r) - (IF r = rules[b][n] THEN 1 ELSE 0)
    BY <2>4, OneFewer
  <2> QED
    BY <2>3, <2>4, <2>5 DEF b
<1> QED
  BY <1>1, FirewallTyped, PTL DEF RemovesWhatItShows

-----------------------------------------------------------------------------
(* Services. *)

\* A step of Machines is one of the services' handlers or leaves them alone.
LEMMA ServicesSteps ==
    [Next]_machineVars =>
        (part = "services" /\ part' = part /\ ServicesNext) \/ Stays("services", serviceState)
        \/ (part = "keys" /\ part' = part /\ KeysNext)
<1>1. ASSUME NEW p, p # "services", p # "keys", On(p) PROVE Stays("services", serviceState)
  BY <1>1 DEF On, Leaves, Stays
<1>2. ASSUME UNCHANGED machineVars PROVE Stays("services", serviceState)
  BY <1>2 DEF machineVars, servicesVars, Stays
<1>3. ASSUME Next
      PROVE  (part = "services" /\ part' = part /\ ServicesNext) \/ Stays("services", serviceState)
             \/ (part = "keys" /\ part' = part /\ KeysNext)
  <2>1. /\ On("services") => part = "services" /\ part' = part
        /\ On("keys") => part = "keys" /\ part' = part
    BY DEF On
  <2> QED
    BY <1>1, <1>3, <2>1 DEF Next
<1> QED
  BY <1>2, <1>3

\* The daemon's configuration has its fields.
ServiceTable == part = "services" => serves \in BOOLEAN /\ file \in Config

LEMMA ServicesTyped == Spec => []ServiceTable
<1> USE DEF ServiceTable
<1>1. Init => ServiceTable
  BY DEF Init, ServicesInit, StartsIn
<1>2. ServiceTable /\ [Next]_machineVars => ServiceTable'
  <2> SUFFICES ASSUME serves \in BOOLEAN, file \in Config,
                      part' = "services", ServicesNext \/ UNCHANGED serviceState
               PROVE  serves' \in BOOLEAN /\ file' \in Config
    BY ServicesSteps DEF KeysNext, Stays
  <2>1. ASSUME NEW new \in Config, WriteAndRestart(new)
        PROVE  serves' \in BOOLEAN /\ file' \in Config
    BY <2>1 DEF WriteAndRestart, Writes, Teed, Pieces, StartsOn, Config
  <2>2. ASSUME NEW new \in Config, KdumpSet(new)
        PROVE  serves' \in BOOLEAN /\ file' \in Config
    BY <2>2 DEF KdumpSet, Writes, Teed, Pieces, StartsOn, Config
  <2>3. ASSUME NEW new \in Config, SetSshd(new) \/ SaveConfig(new)
        PROVE  serves' \in BOOLEAN /\ file' \in Config
    BY <2>1, <2>3 DEF SetSshd, SaveConfig
  <2>4. ASSUME NEW s \in Setting, SetServers(s) \/ SetResolved(s)
        PROVE  serves' \in BOOLEAN /\ file' \in Config
    <3>1. [file EXCEPT !.set = s] \in Config /\ MadeFrom(s) \in Config
      BY DEF Config, MadeFrom
    <3>2. SetServers(s) => serves' \in BOOLEAN /\ file' \in Config
      BY <2>1, <3>1 DEF SetServers
    <3>3. PICK new : new = MadeFrom(s)
      OBVIOUS
    <3>4. ASSUME SetResolved(s) PROVE serves' \in BOOLEAN /\ file' \in Config
      BY <3>1, <3>3, <3>4 DEF SetResolved, Writes, Teed, Pieces, StartsOn, Config
    <3> QED
      BY <2>4, <3>2, <3>4
  <2>5. ASSUME NEW verb, Command(verb) PROVE serves' \in BOOLEAN /\ file' \in Config
    BY <2>5 DEF Command, StartsOn, Config
  <2>6. CASE UNCHANGED serviceState
    BY <2>6 DEF serviceState
  <2> QED
    BY <2>2, <2>3, <2>4, <2>5, <2>6 DEF ServicesNext, Config
<1> QED
  BY <1>1, <1>2, PTL DEF Spec

\* A configuration that is reported saved is on disk as it was sent and in force, except that
\* resolved need not have loaded it, and sshd keeps running whatever was sent or cut: set_sshd,
\* save_config, set_servers, set_resolved_config and kdump_set_config.
THEOREM ConfigIsAsTold == Spec => []ConfigIsInForce
<1> USE DEF ConfigIsInForce, Told, Answer, Refuse, NoReply
<1>1. Init => ConfigIsInForce
  <2> SUFFICES ASSUME ServicesInit PROVE ConfigIsInForce
    BY DEF Init
  <2>1. daemon = "sshd" => serves
    BY Zenon DEF ServicesInit
  <2>2. reply.op # "set" /\ reply.op # "written"
    BY DEF ServicesInit
  <2> QED
    BY <2>1, <2>2
<1>2. ServiceTable /\ ConfigIsInForce /\ [Next]_machineVars => ConfigIsInForce'
  <2> SUFFICES ASSUME file \in Config, ConfigIsInForce,
                      (part = "services" /\ part' = part /\ ServicesNext)
                        \/ (Stays("services", serviceState) /\ part = "services")
               PROVE  ConfigIsInForce'
    BY ServicesSteps DEF KeysNext, Stays, ServiceTable
  <2>1. ASSUME NEW new \in Config, WriteAndRestart(new), UNCHANGED daemon,
               daemon = "sshd" => new.valid, part' = part
        PROVE  ConfigIsInForce'
    BY <2>1 DEF WriteAndRestart, Chain, Writes, Teed, StartsOn
  <2>2. ASSUME NEW new \in Config, part' = part, SetSshd(new) \/ SaveConfig(new)
        PROVE  ConfigIsInForce'
    BY <2>1, <2>2 DEF SetSshd, SaveConfig
  <2>3. ASSUME NEW s \in Setting, part' = part, SetServers(s) \/ SetResolved(s)
        PROVE  ConfigIsInForce'
    <3>1. [file EXCEPT !.set = s] \in Config /\ MadeFrom(s) \in Config
      BY DEF Config, MadeFrom
    <3>2. SetServers(s) => ConfigIsInForce'
      BY <2>1, <2>3, <3>1 DEF SetServers
    <3>3. ASSUME SetResolved(s) PROVE ConfigIsInForce'
      <4>1. PICK new : new = MadeFrom(s)
        OBVIOUS
      <4>2. PICK c \in Chain(1) :
                /\ file' \in Teed(file, new, Pieces(new), TRUE, c.done >= 1)
                /\ \/ reply' = [op |-> "set", arg |-> new] /\ c.ok
                   \/ reply' = [op |-> "none", arg |-> "none"]
        BY <3>3, <4>1 DEF SetResolved, Writes
      <4>3. c.ok => file' = new
        BY <4>2 DEF Chain, Teed
      <4>4. daemon' = "resolved"
        BY <3>3 DEF SetResolved
      <4> QED
        BY <4>2, <4>3, <4>4
    <3> QED
      BY <2>3, <3>2, <3>3
  <2>4. ASSUME NEW new \in Config, part' = part, KdumpSet(new) PROVE ConfigIsInForce'
    <3>1. PICK c \in Chain(2) :
            /\ c.ok => new.valid
            /\ Writes(new, c)
            /\ c.done = 2 /\ new.valid => StartsOn(new)
            /\ reply' = IF c.done >= 1
                        THEN [op |-> IF c.ok THEN "set" ELSE "written", arg |-> new]
                        ELSE [op |-> "none", arg |-> "none"]
      BY <2>4 DEF KdumpSet
    <3>2. CASE c.ok
      <4>1. c.done = 2 /\ new.valid
        BY <3>1, <3>2 DEF Chain
      <4>2. file' = new
        BY <3>1, <4>1 DEF Writes, Teed
      <4> QED
        BY <2>4, <3>1, <4>1, <4>2 DEF StartsOn, KdumpSet
    <3>3. CASE ~c.ok
      <4>1. daemon' = "kdump" /\ (c.done >= 1 => file' = new)
        BY <2>4, <3>1 DEF KdumpSet, Writes, Teed
      <4> QED
        BY <3>1, <3>3, <4>1
    <3> QED
      BY <3>2, <3>3
  <2>5. ASSUME NEW verb \in {"restart", "start", "stop"}, part' = part, Command(verb)
        PROVE  ConfigIsInForce'
    BY <2>5 DEF Command
  <2>6. CASE Stays("services", serviceState) /\ part = "services"
    BY <2>6 DEF Stays, serviceState
  <2> QED
    BY <2>2, <2>3, <2>4, <2>5, <2>6 DEF ServicesNext, Config
<1> QED
  BY <1>1, <1>2, ServicesTyped, PTL DEF Spec

-----------------------------------------------------------------------------
(* authorized_keys. *)

\* A step of Machines is one of the handlers of keys or leaves the keys alone.
LEMMA KeysSteps ==
    [Next]_machineVars => (part = "keys" /\ part' = part /\ KeysNext) \/ Stays("keys", keys)
<1>1. ASSUME NEW p, p # "services", p # "keys", On(p) PROVE Stays("keys", keys)
  BY <1>1 DEF On, Leaves, Stays
<1>2. ASSUME UNCHANGED machineVars PROVE Stays("keys", keys)
  BY <1>2 DEF machineVars, servicesVars, Stays
<1>3. ASSUME Next PROVE (part = "keys" /\ part' = part /\ KeysNext) \/ Stays("keys", keys)
  <2>1. /\ On("services") => part = "services" /\ part' = part
        /\ On("keys") => part = "keys" /\ part' = part
    BY DEF On
  <2> QED
    BY <1>1, <1>3, <2>1 DEF Next, ServicesNext, Stays
<1> QED
  BY <1>2, <1>3

\* The line that edit_key replaces is the old key's.
LEMMA FirstIs ==
    ASSUME NEW T, NEW lines \in Seq(T), NEW x \in Range(lines)
    PROVE  /\ SelectInSeq(lines, LAMBDA l : l = x) \in 1..Len(lines)
           /\ lines[SelectInSeq(lines, LAMBDA l : l = x)] = x
<1> DEFINE I == {i \in 1..Len(lines) : lines[i] = x}
<1>1. I # {} /\ I \in SUBSET Nat
  BY DEF Range
<1>2. SelectInSeq(lines, LAMBDA l : l = x) = Min(I)
  BY <1>1 DEF SelectInSeq
<1>3. Min(I) \in I
  <2> HIDE DEF I
  <2>1. \E i \in I : \A j \in I : i <= j
    BY <1>1, Least
  <2> QED
    BY <2>1 DEF Min
<1> QED
  BY <1>2, <1>3

\* The file is a sequence of keys and remarks.
KeysTable == keys \in Seq(Key \cup {Remark}) /\ Len(keys) <= MaxKeys

\* What apply_authkeys leaves is the file it was, the new one or a piece of that.
LEMMA KeysApplied ==
    ASSUME KeysTable, NEW op, NEW arg, NEW new \in Seq(Key \cup {Remark}), Len(new) <= MaxKeys,
           ApplyKeys(op, arg, new)
    PROVE  /\ KeysTable'
           /\ (reply' = [op |-> op, arg |-> arg] /\ keys' = new) \/ reply' = NoReply
<1> USE DEF KeysTable
<1>1. PICK c \in Chain(4) :
          /\ keys' \in Teed(keys, new, Cuts(new), c.done >= 1, c.done >= 2)
          /\ Answer(op, arg, c.ok)
  BY DEF ApplyKeys
<1>2. ASSUME NEW n \in 0..Len(new)
      PROVE  SubSeq(new, 1, n) \in Seq(Key \cup {Remark}) /\ Len(SubSeq(new, 1, n)) <= MaxKeys
  <2>1. Len(SubSeq(new, 1, n)) = n /\ n \in Nat /\ Len(new) \in Nat /\ n <= Len(new)
    OBVIOUS
  <2> QED
    BY <2>1, ServicesAssumption
<1>3. keys' \in {keys, new} \cup Cuts(new)
  BY <1>1 DEF Teed
<1>4. KeysTable'
  BY <1>2, <1>3 DEF Cuts
<1>5. c.ok => keys' = new
  BY <1>1 DEF Teed, Chain
<1> QED
  BY <1>1, <1>4, <1>5 DEF Answer

\* What the handlers read is a sequence of keys and remarks.
LinesTable(lines) == lines \in Seq(Key \cup {Remark}) /\ Len(lines) <= MaxKeys

LEMMA LinesRead ==
    ASSUME KeysTable, NEW lines \in KeysAsRead
    PROVE  LinesTable(lines)
<1>1. CASE lines = keys
  BY <1>1 DEF KeysTable, LinesTable
<1>2. CASE lines = <<>>
  <2>1. lines \in Seq(Key \cup {Remark}) /\ Len(lines) = 0
    BY <1>2
  <2>2. 0 <= MaxKeys
    BY ServicesAssumption
  <2> QED
    BY <2>1, <2>2, Zenon DEF LinesTable
<1> QED
  BY <1>1, <1>2 DEF KeysAsRead

\* Each handler keeps the file's type, and what it says is done is so.
LEMMA KeyAdded ==
    ASSUME KeysTable, NEW k \in Key, NEW lines \in KeysAsRead, AddKey(k, lines)
    PROVE  KeysTable' /\ (part' = part => KeysAreInForce')
<1>0. LinesTable(lines)
  BY LinesRead
<1> USE DEF KeysAreInForce, Told, NoReply, Refuse
<1>1. CASE k \in Range(lines)
  BY <1>1 DEF AddKey, KeysTable
<1>2. CASE k \notin Range(lines)
  <2> DEFINE new == Append(lines, k)
  <2>1. new \in Seq(Key \cup {Remark}) /\ Len(new) <= MaxKeys /\ k \in Range(new)
    <3>1. Len(new) = Len(lines) + 1 /\ new[Len(lines) + 1] = k /\ Len(lines) \in Nat
      BY <1>0 DEF LinesTable
    <3>2. new \in Seq(Key \cup {Remark}) /\ DOMAIN new = 1..Len(new)
      BY <1>0 DEF LinesTable
    <3> QED
      BY <3>1, <3>2, ServicesAssumption DEF AddKey, Range
  <2>2. ApplyKeys("add_key", k, new)
    BY <1>2 DEF AddKey
  <2> HIDE DEF new
  <2>3. KeysTable' /\ ((reply' = [op |-> "add_key", arg |-> k] /\ keys' = new) \/ reply' = NoReply)
    BY <2>1, <2>2, KeysApplied
  <2> QED
    BY <2>1, <2>3
<1> QED
  BY <1>1, <1>2

LEMMA KeyRemoved ==
    ASSUME KeysTable, NEW k \in Key, NEW lines \in KeysAsRead, RemoveKey(k, lines)
    PROVE  KeysTable' /\ (part' = part => KeysAreInForce')
<1>0. LinesTable(lines)
  BY LinesRead
<1> USE DEF KeysAreInForce, Told, NoReply
<1> DEFINE new == Kept(lines, Range(lines) \ {k})
<1>1. /\ new \in Seq(Key \cup {Remark}) /\ Len(new) <= Len(lines)
      /\ Range(new) = Range(lines) \cap (Range(lines) \ {k})
  BY <1>0, KeptIs DEF LinesTable
<1>2. ApplyKeys("remove_key", k, new)
  BY DEF RemoveKey
<1> HIDE DEF new
<1>3. Len(new) <= MaxKeys /\ k \notin Range(new)
  BY <1>0, <1>1, ServicesAssumption DEF LinesTable
<1>4. KeysTable' /\ ((reply' = [op |-> "remove_key", arg |-> k] /\ keys' = new) \/ reply' = NoReply)
  BY <1>1, <1>2, <1>3, KeysApplied
<1> QED
  BY <1>3, <1>4

LEMMA KeyEdited ==
    ASSUME KeysTable, NEW k \in Key, NEW n \in Key, NEW lines \in KeysAsRead, EditKey(k, n, lines)
    PROVE  KeysTable' /\ (part' = part => KeysAreInForce')
<1>0. LinesTable(lines)
  BY LinesRead
<1> USE DEF KeysAreInForce, Told, NoReply, Refuse
<1>1. CASE k \notin Range(lines) \/ (n # k /\ n \in Range(lines))
  BY <1>1 DEF EditKey, KeysTable
<1>2. CASE ~(k \notin Range(lines) \/ (n # k /\ n \in Range(lines)))
  <2> DEFINE at == SelectInSeq(lines, LAMBDA l : l = k)
             new == [lines EXCEPT ![at] = n]
  <2>1. at \in 1..Len(lines)
    BY <1>0, <1>2, FirstIs DEF LinesTable
  <2>2. ApplyKeys("edit_key", n, new)
    BY <1>2 DEF EditKey
  <2> HIDE DEF at
  <2>3. /\ new \in Seq(Key \cup {Remark}) /\ Len(new) = Len(lines)
        /\ DOMAIN new = 1..Len(lines) /\ new[at] = n
    BY <1>0, <2>1 DEF LinesTable
  <2> HIDE DEF new
  <2>4. n \in Range(new) /\ Len(new) <= MaxKeys
    BY <1>0, <2>1, <2>3 DEF Range, LinesTable
  <2>5. KeysTable' /\ ((reply' = [op |-> "edit_key", arg |-> n] /\ keys' = new) \/ reply' = NoReply)
    BY <2>2, <2>3, <2>4, KeysApplied
  <2> QED
    BY <2>4, <2>5
<1> QED
  BY <1>1, <1>2

\* A removed key is in no line of the file, and an added or edited one is in some.
THEOREM KeysAreAsTold == Spec => [](KeysTable /\ KeysAreInForce)
<1>1. Init => KeysTable /\ KeysAreInForce
  <2> SUFFICES ASSUME ServicesInit PROVE KeysTable /\ KeysAreInForce
    BY DEF Init
  <2>1. KeysAreInForce
    BY DEF ServicesInit, KeysAreInForce, Told, NoReply
  <2>2. keys \in UNION {[1..n -> Key \cup {Remark}] : n \in 0..MaxKeys}
    <3>1. [i \in 1..0 |-> Remark] \in UNION {[1..n -> Key \cup {Remark}] : n \in 0..MaxKeys}
      BY ServicesAssumption
    <3> QED
      BY <3>1 DEF ServicesInit, StartsIn
  <2>3. PICK n \in 0..MaxKeys : keys \in [1..n -> Key \cup {Remark}]
    BY <2>2
  <2>4. n \in Nat /\ keys \in Seq(Key \cup {Remark}) /\ Len(keys) = n
    BY <2>3, ServicesAssumption
  <2> QED
    BY <2>1, <2>4 DEF KeysTable
<1>2. KeysTable /\ KeysAreInForce /\ [Next]_machineVars => (KeysTable /\ KeysAreInForce)'
  <2> SUFFICES ASSUME KeysTable, KeysAreInForce,
                      (part' = part /\ KeysNext) \/ Stays("keys", keys)
               PROVE  (KeysTable /\ KeysAreInForce)'
    BY KeysSteps
  <2>1. CASE part' = part /\ KeysNext
    BY <2>1, KeyAdded, KeyRemoved, KeyEdited DEF KeysNext
  <2>2. CASE Stays("keys", keys)
    BY <2>2 DEF Stays, KeysTable, KeysAreInForce, Told
  <2> QED
    BY <2>1, <2>2
<1> QED
  BY <1>1, <1>2, PTL DEF Spec

\* What a page was told of a configuration or of keys holds: ConfigIsAsTold and KeysAreAsTold.
THEOREM SavedHolds == Spec => []SavedIsInForce
<1>1. ConfigIsInForce /\ KeysAreInForce => SavedIsInForce
  BY DEF SavedIsInForce
<1> QED
  BY <1>1, ConfigIsAsTold, KeysAreAsTold, PTL

-----------------------------------------------------------------------------
(* automatic.conf. *)

\* Lines that set a key.
KeyLines(t) == t \in Seq(IniText) /\ \A i \in 1..Len(t) : t[i].key # "section"

\* The section a line is in is named by the last header above it.
Above(lines, i) == {j \in 1..i : lines[j].key = "section"}
Top(S)          == CHOOSE j \in S : \A k \in S : k <= j

LEMMA SectionIs ==
    ASSUME NEW lines, NEW i
    PROVE  SectionAt(lines, i) = IF Above(lines, i) = {} THEN "" ELSE lines[Top(Above(lines, i))].val
  BY DEF SectionAt, Above, Top

LEMMA TopIs ==
    ASSUME NEW S \in SUBSET Nat, NEW n \in S, \A k \in S : k <= n
    PROVE  Top(S) = n
<1>1. \A j \in S : (\A k \in S : k <= j) => j = n
  OBVIOUS
<1> QED
  BY <1>1 DEF Top

\* Two files that agree on what is above a line agree on its section.
LEMMA SectionAgrees ==
    ASSUME NEW p, NEW q, NEW i \in Nat, \A j \in 1..i : p[j] = q[j]
    PROVE  SectionAt(p, i) = SectionAt(q, i)
<1>1. Above(p, i) = Above(q, i)
  BY DEF Above
<1>2. ASSUME Above(p, i) # {} PROVE p[Top(Above(p, i))] = q[Top(Above(p, i))]
  <2>1. PICK n \in Above(p, i) : \A k \in Above(p, i) : k <= n
    <3>1. {i - k : k \in Above(p, i)} \in SUBSET Nat /\ {i - k : k \in Above(p, i)} # {}
      BY <1>2 DEF Above
    <3>2. PICK m \in {i - k : k \in Above(p, i)} : \A o \in {i - k : k \in Above(p, i)} : m <= o
      BY <3>1, Least
    <3>3. PICK n \in Above(p, i) : m = i - n
      OBVIOUS
    <3>4. ASSUME NEW k \in Above(p, i) PROVE k <= n
      <4>1. i - k \in {i - o : o \in Above(p, i)} /\ k \in Nat /\ n \in Nat
        BY <3>3 DEF Above
      <4>2. i - n <= i - k
        BY <3>2, <3>3, <4>1
      <4> QED
        BY <4>1, <4>2
    <3> QED
      BY <3>4
  <2>2. Top(Above(p, i)) = n
    <3>1. Above(p, i) \in SUBSET Nat
      BY DEF Above
    <3> QED
      BY <2>1, <3>1, TopIs
  <2> QED
    BY <2>2 DEF Above
<1> QED
  BY <1>1, <1>2, SectionIs

\* A header opens its section; any other line is in the section of the line before.
LEMMA SectionNext ==
    ASSUME NEW lines, NEW i \in Nat \ {0}
    PROVE  SectionAt(lines, i) = IF lines[i].key = "section" THEN lines[i].val ELSE SectionAt(lines, i - 1)
<1>1. CASE lines[i].key = "section"
  <2>1. Above(lines, i) \in SUBSET Nat /\ i \in Above(lines, i) /\ \A k \in Above(lines, i) : k <= i
    BY <1>1 DEF Above
  <2>2. Top(Above(lines, i)) = i
    BY <2>1, TopIs
  <2> QED
    BY <1>1, <2>1, <2>2, SectionIs
<1>2. CASE lines[i].key # "section"
  <2>1. Above(lines, i) = Above(lines, i - 1)
    BY <1>2 DEF Above
  <2> QED
    BY <1>2, <2>1, SectionIs
<1> QED
  BY <1>1, <1>2

LEMMA SectionAppended ==
    ASSUME NEW q \in Seq(IniText), NEW x \in IniText
    PROVE  /\ \A i \in 0..Len(q) : SectionAt(Append(q, x), i) = SectionAt(q, i)
           /\ SectionAt(Append(q, x), Len(q) + 1) =
                 IF x.key = "section" THEN x.val ELSE SectionAt(q, Len(q))
<1>1. PICK p : p = Append(q, x)
  OBVIOUS
<1>2. Len(q) \in Nat /\ p[Len(q) + 1] = x /\ \A j \in 1..Len(q) : p[j] = q[j]
  BY <1>1
<1>3. ASSUME NEW i \in 0..Len(q) PROVE SectionAt(p, i) = SectionAt(q, i)
  BY <1>2, SectionAgrees
<1>4. SectionAt(p, Len(q) + 1) =
          IF x.key = "section" THEN x.val ELSE SectionAt(p, Len(q) + 1 - 1)
  BY <1>2, SectionNext
<1>5. Len(q) + 1 - 1 = Len(q) /\ Len(q) \in 0..Len(q)
  BY <1>2
<1> QED
  BY <1>1, <1>3, <1>4, <1>5

LEMMA SectionJoined ==
    ASSUME NEW q \in Seq(IniText), NEW t, KeyLines(t)
    PROVE  /\ \A i \in 1..Len(q) : SectionAt(q \o t, i) = SectionAt(q, i)
           /\ \A i \in Len(q) + 1..Len(q \o t) : SectionAt(q \o t, i) = SectionAt(q, Len(q))
<1>1. PICK p : p = q \o t
  OBVIOUS
<1>2. /\ p \in Seq(IniText) /\ Len(p) = Len(q) + Len(t) /\ Len(q) \in Nat /\ Len(t) \in Nat
      /\ \A i \in 1..Len(p) : p[i] = IF i <= Len(q) THEN q[i] ELSE t[i - Len(q)]
  BY <1>1, Joined DEF KeyLines
<1>3. ASSUME NEW i \in 0..Len(q) PROVE SectionAt(p, i) = SectionAt(q, i)
  BY <1>2, SectionAgrees
<1> DEFINE Good == {n \in 0..Len(t) : SectionAt(p, Len(q) + n) = SectionAt(q, Len(q))}
<1>4. 0 \in Good
  BY <1>2, <1>3
<1>5. ASSUME NEW n \in 1..Len(t), n - 1 \in Good PROVE n \in Good
  <2>1. Len(q) + n \in 1..Len(p) /\ ~(Len(q) + n <= Len(q)) /\ Len(q) + n - Len(q) = n
        /\ Len(q) + n - 1 = Len(q) + (n - 1)
    BY <1>2
  <2>2. p[Len(q) + n] = t[n]
    BY <1>2, <2>1
  <2>3. p[Len(q) + n].key # "section"
    BY <2>2 DEF KeyLines
  <2>4. SectionAt(p, Len(q) + n) = SectionAt(p, Len(q) + n - 1)
    BY <1>2, <2>1, <2>3, SectionNext
  <2> QED
    BY <1>2, <1>5, <2>1, <2>4
<1> HIDE DEF Good
<1>6. 0..Len(t) \subseteq Good
  BY <1>2, <1>4, <1>5, UpTo
<1>7. ASSUME NEW i \in Len(q) + 1..Len(p) PROVE SectionAt(p, i) = SectionAt(q, Len(q))
  <2>1. PICK n : n = i - Len(q)
    OBVIOUS
  <2>2. n \in 0..Len(t) /\ Len(q) + n = i
    <3>1. PICK a \in Nat, b \in Nat : Len(q) = a /\ Len(t) = b /\ i \in a + 1..a + b
      BY <1>2
    <3> QED
      BY <2>1, <3>1
  <2>3. n \in Good
    BY <1>6, <2>2
  <2> QED
    BY <2>2, <2>3 DEF Good
<1> QED
  BY <1>1, <1>2, <1>3, <1>7

\* The keys of kv; that q sets them, in section sec, to what kv says and nothing else; that q
\* sets key k there; and the lines of lines up to the n-th that are in other sections.
Names(kv)       == {kv[j].key : j \in 1..Len(kv)}
Own(q, sec, kv) == \A i \in 1..Len(q) : SectionAt(q, i) = sec /\ q[i].key \in Names(kv) => q[i] \in Range(kv)
Hit(q, sec, k)  == \E i \in 1..Len(q) : SectionAt(q, i) = sec /\ q[i].key = k
ForeignTo(lines, n, sec) ==
    {x \in {<<SectionAt(lines, i), lines[i]>> : i \in 1..n} : x[1] # sec}

LEMMA ForeignNext ==
    ASSUME NEW lines, NEW n \in Nat \ {0}, NEW sec
    PROVE  ForeignTo(lines, n, sec) =
               ForeignTo(lines, n - 1, sec)
               \cup IF SectionAt(lines, n) = sec THEN {} ELSE {<<SectionAt(lines, n), lines[n]>>}
<1>1. 1..n = 1..n - 1 \cup {n}
  OBVIOUS
<1> QED
  BY <1>1 DEF ForeignTo

LEMMA ForeignAgrees ==
    ASSUME NEW p, NEW q, NEW n \in Nat, NEW sec,
           \A i \in 1..n : p[i] = q[i] /\ SectionAt(p, i) = SectionAt(q, i)
    PROVE  ForeignTo(p, n, sec) = ForeignTo(q, n, sec)
<1>1. {<<SectionAt(p, i), p[i]>> : i \in 1..n} = {<<SectionAt(q, i), q[i]>> : i \in 1..n}
  OBVIOUS
<1> QED
  BY <1>1 DEF ForeignTo

\* p is q with a line, or with lines, after it.
WithLine(p, q, x)  == p = Append(q, x)
WithLines(p, q, t) == p = q \o t

\* The section that a line x after q is in, and what such a line changes.
Within(s, q, x) == s = IF x.key = "section" THEN x.val ELSE SectionAt(q, Len(q))
Grows(p, q, x, s, sec, kv) ==
    /\ p \in Seq(IniText) /\ SectionAt(p, Len(p)) = s
    /\ Own(q, sec, kv) /\ (s = sec /\ x.key \in Names(kv) => x \in Range(kv)) => Own(p, sec, kv)
    /\ \A k : Hit(q, sec, k) => Hit(p, sec, k)
    /\ s = sec => Hit(p, sec, x.key)
    /\ ForeignTo(p, Len(p), sec) =
           ForeignTo(q, Len(q), sec) \cup IF s = sec THEN {} ELSE {<<s, x>>}

LEMMA LineAdded ==
    ASSUME NEW q \in Seq(IniText), NEW x \in IniText, NEW sec, NEW kv, NEW s, NEW p,
           WithLine(p, q, x), Within(s, q, x)
    PROVE  Grows(p, q, x, s, sec, kv)
<1> DEFINE m == Len(q) + 1
<1>1. /\ Len(q) \in Nat /\ p \in Seq(IniText) /\ Len(p) = m /\ p[m] = x
      /\ \A i \in 1..Len(q) : p[i] = q[i]
  BY DEF WithLine
<1>2. \A i \in 1..Len(q) : SectionAt(p, i) = SectionAt(q, i)
  BY <1>1, SectionAppended DEF WithLine
<1>3. SectionAt(p, m) = s
  BY SectionAppended DEF WithLine, Within
<1>4. ASSUME Own(q, sec, kv), s = sec /\ x.key \in Names(kv) => x \in Range(kv) PROVE Own(p, sec, kv)
  <2>1. ASSUME NEW i \in 1..Len(p), SectionAt(p, i) = sec, p[i].key \in Names(kv)
        PROVE  p[i] \in Range(kv)
    <3>1. CASE i = m
      BY <1>1, <1>3, <1>4, <2>1, <3>1
    <3>2. CASE i # m
      <4>1. i \in 1..Len(q)
        BY <1>1, <3>2
      <4> QED
        BY <1>1, <1>2, <1>4, <2>1, <4>1 DEF Own
    <3> QED
      BY <3>1, <3>2
  <2> QED
    BY <2>1 DEF Own
<1>5. ASSUME NEW k, Hit(q, sec, k) PROVE Hit(p, sec, k)
  <2>1. PICK i \in 1..Len(q) : SectionAt(q, i) = sec /\ q[i].key = k
    BY <1>5 DEF Hit
  <2>2. i \in 1..Len(p) /\ SectionAt(p, i) = sec /\ p[i].key = k
    BY <1>1, <1>2, <2>1
  <2> QED
    BY <2>2 DEF Hit
<1>6. ASSUME s = sec PROVE Hit(p, sec, x.key)
  <2>1. m \in 1..Len(p) /\ SectionAt(p, m) = sec /\ p[m].key = x.key
    BY <1>1, <1>3, <1>6
  <2> QED
    BY <2>1 DEF Hit
<1>7. ForeignTo(p, m, sec) = ForeignTo(q, Len(q), sec) \cup IF s = sec THEN {} ELSE {<<s, x>>}
  <2>1. m \in Nat \ {0} /\ m - 1 = Len(q)
    BY <1>1
  <2>2. ForeignTo(p, Len(q), sec) = ForeignTo(q, Len(q), sec)
    BY <1>1, <1>2, ForeignAgrees
  <2>3. ForeignTo(p, m, sec) =
            ForeignTo(p, m - 1, sec) \cup IF SectionAt(p, m) = sec THEN {} ELSE {<<SectionAt(p, m), p[m]>>}
    <3> HIDE DEF m
    <3> QED
      BY <2>1, ForeignNext
  <2> HIDE DEF m
  <2> QED
    BY <1>1, <1>3, <2>1, <2>2, <2>3
<1> HIDE DEF m
<1> QED
  BY <1>1, <1>3, <1>4, <1>5, <1>6, <1>7 DEF Grows

\* What lines of kv appended to a file that ends in sec change.
GrowsBy(p, q, t, sec, kv) ==
    /\ p \in Seq(IniText) /\ SectionAt(p, Len(p)) = sec
    /\ Own(q, sec, kv) => Own(p, sec, kv)
    /\ \A k : Hit(q, sec, k) => Hit(p, sec, k)
    /\ \A x \in Range(t) : Hit(p, sec, x.key)
    /\ ForeignTo(p, Len(p), sec) = ForeignTo(q, Len(q), sec)

LEMMA LinesAdded ==
    ASSUME NEW q \in Seq(IniText), NEW t, KeyLines(t), NEW sec, NEW kv, Range(t) \subseteq Range(kv),
           NEW p, WithLines(p, q, t), SectionAt(q, Len(q)) = sec
    PROVE  GrowsBy(p, q, t, sec, kv)
<1>1. /\ p \in Seq(IniText) /\ Len(p) = Len(q) + Len(t) /\ Len(q) \in Nat /\ Len(t) \in Nat
      /\ \A i \in 1..Len(p) : p[i] = IF i <= Len(q) THEN q[i] ELSE t[i - Len(q)]
  BY Joined DEF KeyLines, WithLines
<1>2. /\ \A i \in 1..Len(q) : SectionAt(p, i) = SectionAt(q, i)
      /\ \A i \in Len(q) + 1..Len(p) : SectionAt(p, i) = sec
  BY SectionJoined DEF WithLines
<1>3. \A i \in 1..Len(q) : i \in 1..Len(p) /\ p[i] = q[i]
  BY <1>1
<1>4. ASSUME NEW i \in 1..Len(p), i \notin 1..Len(q)
      PROVE  i \in Len(q) + 1..Len(p) /\ p[i] = t[i - Len(q)] /\ i - Len(q) \in 1..Len(t)
  <2>1. PICK a \in Nat, b \in Nat : Len(q) = a /\ Len(t) = b /\ Len(p) = a + b
    BY <1>1
  <2>2. i \in a + 1..a + b /\ ~(i <= a) /\ i - a \in 1..b
    BY <1>4, <2>1
  <2> QED
    BY <1>1, <2>1, <2>2
<1>5. DOMAIN t = 1..Len(t)
  BY DEF KeyLines
<1>6. ASSUME Own(q, sec, kv) PROVE Own(p, sec, kv)
  <2>1. ASSUME NEW i \in 1..Len(p), SectionAt(p, i) = sec, p[i].key \in Names(kv)
        PROVE  p[i] \in Range(kv)
    <3>1. CASE i \in 1..Len(q)
      BY <1>2, <1>3, <1>6, <2>1, <3>1 DEF Own
    <3>2. CASE i \notin 1..Len(q)
      BY <1>4, <1>5, <3>2 DEF Range
    <3> QED
      BY <3>1, <3>2
  <2> QED
    BY <2>1 DEF Own
<1>7. ASSUME NEW k, Hit(q, sec, k) PROVE Hit(p, sec, k)
  <2>1. PICK i \in 1..Len(q) : SectionAt(q, i) = sec /\ q[i].key = k
    BY <1>7 DEF Hit
  <2>2. i \in 1..Len(p) /\ SectionAt(p, i) = sec /\ p[i].key = k
    BY <1>2, <1>3, <2>1
  <2> QED
    BY <2>2 DEF Hit
<1>8. ASSUME NEW x \in Range(t) PROVE Hit(p, sec, x.key)
  <2>1. PICK j \in 1..Len(t) : t[j] = x
    BY <1>5 DEF Range
  <2>2. PICK i : i = Len(q) + j
    OBVIOUS
  <2>3. PICK a \in Nat, b \in Nat : Len(q) = a /\ Len(t) = b /\ Len(p) = a + b
    BY <1>1
  <2>4. i \in a + 1..a + b /\ i \in 1..a + b /\ ~(i <= a) /\ i - a = j
    BY <2>2, <2>3
  <2>5. i \in 1..Len(p) /\ p[i] = x /\ SectionAt(p, i) = sec
    BY <1>1, <1>2, <2>1, <2>3, <2>4
  <2> QED
    BY <2>5 DEF Hit
<1>9. ForeignTo(p, Len(p), sec) = ForeignTo(q, Len(q), sec)
  <2>1. ForeignTo(p, Len(q), sec) = ForeignTo(q, Len(q), sec)
    <3>1. Len(q) \in Nat /\ \A i \in 1..Len(q) : p[i] = q[i] /\ SectionAt(p, i) = SectionAt(q, i)
      BY <1>1, <1>2, <1>3
    <3> QED
      BY <3>1, ForeignAgrees
  <2>2. ForeignTo(p, Len(p), sec) = ForeignTo(p, Len(q), sec)
    <3>1. ASSUME NEW i \in 1..Len(p), SectionAt(p, i) # sec PROVE i \in 1..Len(q)
      BY <1>2, <1>4, <3>1
    <3>2. ASSUME NEW i \in 1..Len(q) PROVE i \in 1..Len(p)
      BY <1>3
    <3> QED
      BY <3>1, <3>2 DEF ForeignTo
  <2> QED
    BY <2>1, <2>2
<1>10. SectionAt(p, Len(p)) = sec
  <2>1. CASE Len(t) = 0
    BY <1>1, <1>2, <2>1, SectionAgrees
  <2>2. CASE Len(t) # 0
    BY <1>1, <1>2, <2>2
  <2> QED
    BY <2>1, <2>2
<1> QED
  BY <1>1, <1>6, <1>7, <1>8, <1>9, <1>10 DEF GrowsBy

\* What ini_set appends at the end of a section are lines of kv, those whose keys it has not met.
LEMMA MissingIs ==
    ASSUME NEW kv, KeyLines(kv), NEW met
    PROVE  /\ KeyLines(MissingKeys(kv, met))
           /\ Range(MissingKeys(kv, met)) = {l \in Range(kv) : l.key \notin met}
<1> DEFINE S == {l \in Range(kv) : l.key \notin met}
<1>1. PICK t : t = MissingKeys(kv, met)
  OBVIOUS
<1>2. t = Kept(kv, S)
  BY <1>1 DEF MissingKeys
<1>3. kv \in Seq(IniText)
  BY DEF KeyLines
<1> HIDE DEF S
<1>4. t \in Seq(IniText) /\ Range(t) = Range(kv) \cap S
  BY <1>2, <1>3, KeptIs
<1>5. Range(t) = {l \in Range(kv) : l.key \notin met}
  BY <1>4 DEF S
<1>6. ASSUME NEW i \in 1..Len(t) PROVE t[i].key # "section"
  <2>1. t[i] \in Range(kv)
    <3>1. i \in DOMAIN t
      BY <1>4
    <3>2. t[i] \in Range(t)
      BY <3>1 DEF Range
    <3> QED
      BY <1>4, <3>2
  <2>2. PICK j \in 1..Len(kv) : kv[j] = t[i]
    BY <1>3, <2>1 DEF Range
  <2> QED
    BY <2>2 DEF KeyLines
<1> QED
  BY <1>1, <1>4, <1>5, <1>6 DEF KeyLines

\* What ini_set has while it goes through the lines; its output, if a section ended here.
Editing == [out : Seq(IniText), met : SUBSET IniKey, in : BOOLEAN, seen : BOOLEAN]
Flushed(acc, kv)     == IF acc.in THEN acc.out \o MissingKeys(kv, acc.met) ELSE acc.out
Mine(kv, l)         == {i \in DOMAIN kv : kv[i].key = l.key}
Replaced(acc, kv, l) == l.key # "section" /\ acc.in /\ Mine(kv, l) # {}

\* The three ways a turn can go.
Turned(next, sec, kv, acc, l) ==
    /\ next \in Editing
    /\ l.key = "section" =>
          next = [out |-> Append(Flushed(acc, kv), l), met |-> acc.met,
                  in |-> l.val = sec, seen |-> acc.seen \/ l.val = sec]
    /\ Replaced(acc, kv, l) =>
          \E x \in Range(kv) :
              /\ x.key = l.key /\ x \in IniText
              /\ next = [acc EXCEPT !.out = Append(@, x), !.met = @ \cup {l.key}]
    /\ l.key # "section" /\ ~Replaced(acc, kv, l) =>
          next = [acc EXCEPT !.out = Append(@, l)]

LEMMA IniStepIs ==
    ASSUME NEW sec, NEW kv, KeyLines(kv), NEW acc \in Editing, NEW l \in IniText
    PROVE  Turned(IniStep(sec, kv, acc, l), sec, kv, acc, l)
<1> DEFINE next == IniStep(sec, kv, acc, l)
<1>1. CASE l.key = "section"
  <2>1. next = [out |-> Append(Flushed(acc, kv), l), met |-> acc.met,
                in |-> l.val = sec, seen |-> acc.seen \/ l.val = sec]
    BY <1>1 DEF IniStep, Flushed
  <2>2. Flushed(acc, kv) \in Seq(IniText)
    BY MissingIs, Joined DEF Flushed, Editing, KeyLines
  <2>3. Append(Flushed(acc, kv), l) \in Seq(IniText)
    BY <2>2
  <2>4. (l.val = sec) \in BOOLEAN /\ (acc.seen \/ l.val = sec) \in BOOLEAN
    OBVIOUS
  <2>5. acc.met \in SUBSET IniKey
    BY DEF Editing
  <2>6. next \in Editing
    BY <2>1, <2>3, <2>4, <2>5 DEF Editing
  <2> QED
    BY <1>1, <2>1, <2>6 DEF Replaced, Turned
<1>2. CASE Replaced(acc, kv, l)
  <2> DEFINE x == kv[CHOOSE i \in Mine(kv, l) : TRUE]
  <2>1. next = [acc EXCEPT !.out = Append(@, x), !.met = @ \cup {l.key}]
    BY <1>2 DEF IniStep, Replaced, Mine
  <2>2. (CHOOSE i \in Mine(kv, l) : TRUE) \in Mine(kv, l)
    BY <1>2 DEF Replaced
  <2>3. x.key = l.key /\ x \in Range(kv) /\ x \in IniText
    <3>1. PICK i \in Mine(kv, l) : x = kv[i]
      BY <2>2
    <3>2. i \in DOMAIN kv /\ kv[i].key = l.key
      BY DEF Mine
    <3>3. kv[i] \in IniText
      BY <3>2 DEF KeyLines
    <3> HIDE DEF x
    <3> QED
      BY <3>1, <3>2, <3>3 DEF Range
  <2> HIDE DEF x
  <2>4. l.key \in IniKey /\ Append(acc.out, x) \in Seq(IniText)
    BY <1>2, <2>3 DEF Replaced, IniText, Editing
  <2>5. next \in Editing
    BY <2>1, <2>4 DEF Editing
  <2> QED
    BY <1>2, <2>1, <2>3, <2>5 DEF Replaced, Turned
<1>3. CASE l.key # "section" /\ ~Replaced(acc, kv, l)
  <2>1. next = [acc EXCEPT !.out = Append(@, l)]
    BY <1>3 DEF IniStep, Replaced, Mine
  <2>2. Append(acc.out, l) \in Seq(IniText)
    BY DEF Editing
  <2>3. next \in Editing
    BY <2>1, <2>2 DEF Editing
  <2> QED
    BY <1>3, <2>1, <2>3 DEF Turned
<1> QED
  BY <1>1, <1>2, <1>3

\* The values that the loop of ini_set passes through.
IniPasses(after, lines, sec, kv) ==
    /\ IniLoop(lines, sec, kv) = after[Len(lines)]
    /\ after[0] = [out |-> <<>>, met |-> {}, in |-> FALSE, seen |-> FALSE]
    /\ after \in [0..Len(lines) -> Editing]
    /\ \A n \in 1..Len(lines) : after[n] = IniStep(sec, kv, after[n - 1], lines[n])

LEMMA IniTurns ==
    ASSUME NEW lines \in Seq(IniText), NEW sec, NEW kv, KeyLines(kv)
    PROVE  \E after : IniPasses(after, lines, sec, kv)
<1> DEFINE N == Len(lines)
           start == [out |-> <<>>, met |-> {}, in |-> FALSE, seen |-> FALSE]
           step == [n \in 1..N |-> [acc \in Editing |-> IniStep(sec, kv, acc, lines[n])]]
           IsIt(g) == g = [n \in 0..N |-> IF n = 0 THEN start ELSE IniStep(sec, kv, g[n - 1], lines[n])]
           after == CHOOSE g : IsIt(g)
<1>1. N \in Nat /\ start \in Editing
  BY DEF Editing
<1>2. ASSUME NEW n \in 1..N, NEW acc \in Editing PROVE IniStep(sec, kv, acc, lines[n]) \in Editing
  <2>1. lines[n] \in IniText
    OBVIOUS
  <2> QED
    BY <2>1, IniStepIs DEF Turned
<1>3. step \in [1..N -> [Editing -> Editing]]
  BY <1>2
<1> HIDE DEF start
<1>4. IsLoop(N, Editing, start, step)
  BY <1>1, <1>3 DEF IsLoop
<1>5. PICK g : Passes(g, N, Editing, start, step)
  <2> HIDE DEF N, step
  <2> QED
    BY <1>4, Turns
<1>6. \A n \in 1..N : n \in 0..N /\ n # 0 /\ n - 1 \in 0..N
  BY <1>1
<1>7. IsIt(g)
  <2>1. ASSUME NEW n \in 0..N PROVE g[n] = IF n = 0 THEN start ELSE IniStep(sec, kv, g[n - 1], lines[n])
    <3>1. CASE n = 0
      BY <1>5, <3>1 DEF Passes
    <3>2. CASE n # 0
      <4>1. n \in 1..N /\ n - 1 \in 0..N
        BY <1>1, <3>2
      <4>2. g[n - 1] \in Editing /\ g[n] = step[n][g[n - 1]]
        <5> HIDE DEF step, N
        <5> QED
          BY <1>5, <4>1 DEF Passes
      <4>3. step[n][g[n - 1]] = IniStep(sec, kv, g[n - 1], lines[n])
        <5> HIDE DEF N
        <5> QED
          BY <4>1, <4>2
      <4> QED
        BY <3>2, <4>2, <4>3
    <3> QED
      BY <3>1, <3>2
  <2>2. g \in [0..N -> Editing]
    BY <1>5 DEF Passes
  <2> HIDE DEF N
  <2> QED
    BY <2>1, <2>2
<1>8. IsIt(after)
  <2> HIDE DEF IsIt
  <2> QED
    BY <1>7
<1>9. IniLoop(lines, sec, kv) = after[N]
  BY DEF IniLoop, start
<1> HIDE DEF after
<1>10. after[0] = start /\ \A n \in 1..N : after[n] = IniStep(sec, kv, after[n - 1], lines[n])
  <2>1. \A n \in 0..N : after[n] = IF n = 0 THEN start ELSE IniStep(sec, kv, after[n - 1], lines[n])
    BY <1>8
  <2> HIDE DEF N
  <2> QED
    BY <1>1, <1>6, <2>1
<1>11. after \in [0..N -> Editing]
  <2> DEFINE Good == {n \in 0..N : after[n] \in Editing}
  <2>1. 0 \in Good
    BY <1>1, <1>10
  <2>2. ASSUME NEW n \in 1..N, n - 1 \in Good PROVE n \in Good
    BY <1>2, <1>6, <1>10, <2>2
  <2> HIDE DEF Good
  <2>3. 0..N \subseteq Good
    <3> HIDE DEF N
    <3> QED
      BY <1>1, <2>1, <2>2, UpTo
  <2>4. after = [n \in 0..N |-> after[n]]
    BY <1>8
  <2>5. \A n \in 0..N : after[n] \in Editing
    BY <2>3 DEF Good
  <2> QED
    BY <2>4, <2>5
<1> QED
  BY <1>9, <1>10, <1>11 DEF IniPasses, start

\* The loop knows whether it is in the section, has set there what kv says and nothing else, and
\* once a section has ended, all of kv.
Faithful(acc, sec, kv) ==
    /\ acc \in Editing
    /\ acc.in <=> SectionAt(acc.out, Len(acc.out)) = sec
    /\ acc.in => acc.seen
    /\ Own(acc.out, sec, kv)
    /\ \A k \in acc.met : Hit(acc.out, sec, k)
    /\ acc.seen /\ ~acc.in => \A k \in Names(kv) : Hit(acc.out, sec, k)

\* Its output has the other sections' lines of the input so far, and ends in the same section.
Follows(acc, lines, n, sec) ==
    /\ ForeignTo(acc.out, Len(acc.out), sec) = ForeignTo(lines, n, sec)
    /\ SectionAt(acc.out, Len(acc.out)) = SectionAt(lines, n)

LEMMA NamesAreKeys ==
    ASSUME NEW kv, KeyLines(kv)
    PROVE  /\ "section" \notin Names(kv)
           /\ \A k \in Names(kv) : \E x \in Range(kv) : x.key = k
           /\ \A x \in Range(kv) : x.key \in Names(kv) /\ x.key # "section" /\ x \in IniText
<1>1. DOMAIN kv = 1..Len(kv) /\ \A j \in 1..Len(kv) : kv[j].key # "section" /\ kv[j] \in IniText
  BY DEF KeyLines
<1> QED
  BY <1>1 DEF Names, Range

LEMMA FlushedIs ==
    ASSUME NEW sec, NEW kv, KeyLines(kv), NEW acc, Faithful(acc, sec, kv), NEW c, c = Flushed(acc, kv)
    PROVE  /\ c \in Seq(IniText) /\ Own(c, sec, kv)
           /\ SectionAt(c, Len(c)) = SectionAt(acc.out, Len(acc.out))
           /\ acc.seen => \A k \in Names(kv) : Hit(c, sec, k)
           /\ \A k : Hit(acc.out, sec, k) => Hit(c, sec, k)
           /\ ForeignTo(c, Len(c), sec) = ForeignTo(acc.out, Len(acc.out), sec)
<1>1. CASE ~acc.in
  BY <1>1 DEF Flushed, Faithful, Editing
<1>2. CASE acc.in
  <2>1. PICK t : t = MissingKeys(kv, acc.met)
    OBVIOUS
  <2>2. KeyLines(t) /\ Range(t) = {l \in Range(kv) : l.key \notin acc.met}
    BY <2>1, MissingIs
  <2>3. acc.out \in Seq(IniText) /\ SectionAt(acc.out, Len(acc.out)) = sec
    BY <1>2 DEF Faithful, Editing
  <2>4. WithLines(c, acc.out, t) /\ Range(t) \subseteq Range(kv)
    BY <1>2, <2>1, <2>2 DEF Flushed, WithLines
  <2>5. GrowsBy(c, acc.out, t, sec, kv)
    BY <2>2, <2>3, <2>4, LinesAdded
  <2>6. ASSUME NEW k \in Names(kv) PROVE Hit(c, sec, k)
    <3>1. PICK x \in Range(kv) : x.key = k
      BY NamesAreKeys
    <3>2. CASE k \in acc.met
      BY <2>5, <3>2 DEF Faithful, GrowsBy
    <3>3. CASE k \notin acc.met
      BY <2>2, <2>5, <3>1, <3>3 DEF GrowsBy
    <3> QED
      BY <3>2, <3>3
  <2> QED
    BY <2>3, <2>5, <2>6 DEF Faithful, GrowsBy
<1> QED
  BY <1>1, <1>2

\* A turn keeps both.
LEMMA TurnIsFaithful ==
    ASSUME NEW sec, NEW kv, KeyLines(kv), NEW acc, Faithful(acc, sec, kv), NEW l \in IniText,
           NEW next, next = IniStep(sec, kv, acc, l), NEW lines, NEW n \in Nat \ {0}, lines[n] = l,
           Follows(acc, lines, n - 1, sec)
    PROVE  Faithful(next, sec, kv) /\ Follows(next, lines, n, sec)
<1> DEFINE before == SectionAt(acc.out, Len(acc.out))
           s == IF l.key = "section" THEN l.val ELSE before
<1>1. acc \in Editing /\ acc.out \in Seq(IniText) /\ (acc.in <=> before = sec)
  BY DEF Faithful, Editing
<1>2. SectionAt(lines, n) = s
  <2>1. SectionAt(lines, n) = IF l.key = "section" THEN l.val ELSE SectionAt(lines, n - 1)
    BY SectionNext
  <2> QED
    BY <2>1 DEF Follows
<1>3. ForeignTo(lines, n, sec) =
          ForeignTo(acc.out, Len(acc.out), sec) \cup IF s = sec THEN {} ELSE {<<s, l>>}
  <2>1. ForeignTo(lines, n, sec) =
            ForeignTo(lines, n - 1, sec)
            \cup IF SectionAt(lines, n) = sec THEN {} ELSE {<<SectionAt(lines, n), lines[n]>>}
    BY ForeignNext
  <2> HIDE DEF s
  <2> QED
    BY <1>2, <2>1 DEF Follows
<1>4. Turned(next, sec, kv, acc, l)
  BY <1>1, IniStepIs
<1> HIDE DEF s
<1>5. CASE l.key = "section"
  <2>1. PICK c : c = Flushed(acc, kv)
    OBVIOUS
  <2>2. next = [out |-> Append(c, l), met |-> acc.met,
                in |-> l.val = sec, seen |-> acc.seen \/ l.val = sec]
    BY <1>4, <1>5, <2>1 DEF Turned
  <2>3. /\ c \in Seq(IniText) /\ Own(c, sec, kv)
        /\ acc.seen => \A k \in Names(kv) : Hit(c, sec, k)
        /\ \A k : Hit(acc.out, sec, k) => Hit(c, sec, k)
        /\ ForeignTo(c, Len(c), sec) = ForeignTo(acc.out, Len(acc.out), sec)
    BY <2>1, FlushedIs
  <2>4. PICK p : p = next.out
    OBVIOUS
  <2>5. WithLine(p, c, l) /\ s = l.val /\ Within(s, c, l)
    BY <1>5, <2>2, <2>4 DEF WithLine, Within, s
  <2>6. Grows(p, c, l, s, sec, kv)
    BY <2>3, <2>5, LineAdded
  <2>7. Own(p, sec, kv)
    BY <1>5, <2>3, <2>6, NamesAreKeys DEF Grows
  <2>8. Follows(next, lines, n, sec)
    BY <1>2, <1>3, <2>3, <2>4, <2>6 DEF Follows, Grows
  <2>9. /\ next.in <=> s = sec
        /\ next.seen <=> acc.seen \/ s = sec
        /\ next.met = acc.met
    <3>1. PICK in, seen : in = (l.val = sec) /\ seen = (acc.seen \/ l.val = sec)
      OBVIOUS
    <3>2. next = [out |-> Append(c, l), met |-> acc.met, in |-> in, seen |-> seen]
      BY <2>2, <3>1, Zenon
    <3>3. next.in = in /\ next.seen = seen /\ next.met = acc.met
      BY <3>2
    <3> QED
      BY <2>5, <3>1, <3>3, Zenon
  <2>10. next.in <=> SectionAt(p, Len(p)) = sec
    BY <2>6, <2>9 DEF Grows
  <2>11. ASSUME NEW k \in next.met PROVE Hit(p, sec, k)
    BY <2>3, <2>6, <2>9, <2>11 DEF Faithful, Grows
  <2>12. ASSUME next.seen, ~next.in, NEW k \in Names(kv) PROVE Hit(p, sec, k)
    BY <2>3, <2>6, <2>9, <2>12 DEF Grows
  <2> QED
    BY <1>4, <2>4, <2>7, <2>8, <2>9, <2>10, <2>11, <2>12 DEF Faithful, Turned
<1>6. CASE Replaced(acc, kv, l)
  <2>1. PICK x \in Range(kv) :
            /\ x.key = l.key /\ x \in IniText
            /\ next = [acc EXCEPT !.out = Append(@, x), !.met = @ \cup {l.key}]
    BY <1>4, <1>6 DEF Turned
  <2>2. /\ next.out = Append(acc.out, x) /\ next.met = acc.met \cup {l.key}
        /\ next.in = acc.in /\ next.seen = acc.seen
    BY <1>1, <2>1 DEF Editing
  <2>3. PICK p : p = next.out
    OBVIOUS
  <2>4. acc.in /\ l.key # "section" /\ before = sec /\ s = sec
    BY <1>1, <1>6 DEF Replaced, s
  <2>5. WithLine(p, acc.out, x) /\ Within(s, acc.out, x)
    BY <2>1, <2>2, <2>3, <2>4 DEF WithLine, Within
  <2>6. Grows(p, acc.out, x, s, sec, kv)
    BY <1>1, <2>1, <2>5, LineAdded
  <2>7. Follows(next, lines, n, sec)
    BY <1>2, <1>3, <2>3, <2>4, <2>6 DEF Follows, Grows
  <2>8. /\ next.in <=> SectionAt(p, Len(p)) = sec
        /\ next.in => next.seen
        /\ Own(p, sec, kv)
        /\ \A k \in next.met : Hit(p, sec, k)
        /\ next.seen /\ ~next.in => \A k \in Names(kv) : Hit(p, sec, k)
    BY <2>1, <2>2, <2>4, <2>6 DEF Faithful, Grows
  <2> QED
    BY <1>4, <2>3, <2>7, <2>8 DEF Faithful, Turned
<1>7. CASE l.key # "section" /\ ~Replaced(acc, kv, l)
  <2>1. next = [acc EXCEPT !.out = Append(@, l)]
    BY <1>4, <1>7 DEF Turned
  <2>2. /\ next.out = Append(acc.out, l) /\ next.met = acc.met
        /\ next.in = acc.in /\ next.seen = acc.seen
    BY <1>1, <2>1 DEF Editing
  <2>3. PICK p : p = next.out
    OBVIOUS
  <2>4. s = before /\ Within(s, acc.out, l)
    BY <1>7 DEF Within, s
  <2>5. WithLine(p, acc.out, l)
    BY <2>2, <2>3 DEF WithLine
  <2>6. Grows(p, acc.out, l, s, sec, kv)
    BY <1>1, <2>4, <2>5, LineAdded
  <2>7. s = sec => l.key \notin Names(kv)
    <3>1. ASSUME s = sec, NEW j \in 1..Len(kv), kv[j].key = l.key PROVE FALSE
      <4>1. j \in Mine(kv, l)
        BY <3>1 DEF Mine, KeyLines
      <4> QED
        BY <1>1, <1>7, <2>4, <3>1, <4>1 DEF Replaced
    <3> QED
      BY <3>1 DEF Names
  <2>8. Follows(next, lines, n, sec)
    BY <1>2, <1>3, <2>3, <2>6 DEF Follows, Grows
  <2>9. /\ next.in <=> SectionAt(p, Len(p)) = sec
        /\ next.in => next.seen
        /\ Own(p, sec, kv)
        /\ \A k \in next.met : Hit(p, sec, k)
        /\ next.seen /\ ~next.in => \A k \in Names(kv) : Hit(p, sec, k)
    BY <1>1, <2>2, <2>4, <2>6, <2>7 DEF Faithful, Grows
  <2> QED
    BY <1>4, <2>3, <2>8, <2>9 DEF Faithful, Turned
<1> QED
  BY <1>5, <1>6, <1>7

\* A section has a name.
Titled(sec) == sec # ""

\* Before the first line, nothing is in a section and the loop has done nothing.
LEMMA StartIsFaithful ==
    ASSUME NEW lines, NEW sec, Titled(sec), NEW kv,
           NEW acc, acc = [out |-> <<>>, met |-> {}, in |-> FALSE, seen |-> FALSE]
    PROVE  Faithful(acc, sec, kv) /\ Follows(acc, lines, 0, sec)
<1>1. PICK q : q = <<>>
  OBVIOUS
<1>2. acc \in Editing /\ acc.out = q /\ acc.met = {} /\ ~acc.in /\ ~acc.seen /\ Len(q) = 0
  BY <1>1 DEF Editing
<1>3. ASSUME NEW p PROVE ~Titled(SectionAt(p, 0)) /\ ForeignTo(p, 0, sec) = {}
  <2>1. Above(p, 0) = {} /\ 1..0 = {}
    BY DEF Above
  <2>2. SectionAt(p, 0) = ""
    BY <2>1, SectionIs, Zenon
  <2>3. ForeignTo(p, 0, sec) = {}
    BY <2>1, Zenon DEF ForeignTo
  <2> QED
    BY <2>2, <2>3, Zenon DEF Titled
<1>4. SectionAt(q, 0) # sec /\ ForeignTo(q, 0, sec) = ForeignTo(lines, 0, sec)
  BY <1>3
<1>5. SectionAt(q, 0) = SectionAt(lines, 0)
  BY SectionAgrees
<1>6. Own(q, sec, kv)
  BY <1>2 DEF Own
<1>7. Faithful(acc, sec, kv)
  BY <1>2, <1>4, <1>6 DEF Faithful
<1>8. Follows(acc, lines, 0, sec)
  BY <1>2, <1>4, <1>5 DEF Follows
<1> QED
  BY <1>7, <1>8

\* r is the file lines with the section set to kv.
Edited(r, lines, sec, kv) ==
    /\ r \in Seq(IniText)
    /\ Own(r, sec, kv)
    /\ \A k \in Names(kv) : Hit(r, sec, k)
    /\ ForeignTo(r, Len(r), sec) = ForeignTo(lines, Len(lines), sec)

\* ini_set sets every key in the section, leaves no other value for one there, and keeps the
\* lines of the other sections, whatever the file held.
THEOREM IniSetIs ==
    ASSUME NEW lines \in Seq(IniText), NEW sec \in IniVal, Titled(sec), NEW kv, KeyLines(kv),
           NEW r, r = IniSet(lines, sec, kv)
    PROVE  Edited(r, lines, sec, kv)
<1>1. PICK after : IniPasses(after, lines, sec, kv)
  BY IniTurns
<1> DEFINE N == Len(lines)
           Good == {n \in 0..N : Faithful(after[n], sec, kv) /\ Follows(after[n], lines, n, sec)}
<1>2. N \in Nat /\ \A n \in 1..N : n \in Nat \ {0} /\ n - 1 \in 0..N /\ lines[n] \in IniText
  OBVIOUS
<1>3. 0 \in Good
  <2>1. Faithful(after[0], sec, kv) /\ Follows(after[0], lines, 0, sec)
    <3>1. PICK acc : acc = after[0]
      OBVIOUS
    <3>2. acc = [out |-> <<>>, met |-> {}, in |-> FALSE, seen |-> FALSE]
      BY <1>1, <3>1 DEF IniPasses
    <3>3. Faithful(acc, sec, kv) /\ Follows(acc, lines, 0, sec)
      BY <3>2, StartIsFaithful
    <3> QED
      BY <3>1, <3>3
  <2>2. 0 \in 0..N
    BY <1>2
  <2> QED
    BY <2>1, <2>2, Zenon
<1>4. ASSUME NEW n \in 1..N, n - 1 \in Good PROVE n \in Good
  <2>1. PICK acc, next, l : acc = after[n - 1] /\ next = after[n] /\ l = lines[n]
    OBVIOUS
  <2>2. next = IniStep(sec, kv, acc, l)
    BY <1>1, <2>1 DEF IniPasses
  <2>3. Faithful(acc, sec, kv) /\ Follows(acc, lines, n - 1, sec) /\ l \in IniText /\ n \in Nat \ {0}
    BY <1>2, <1>4, <2>1
  <2>4. Faithful(next, sec, kv) /\ Follows(next, lines, n, sec)
    BY <2>1, <2>2, <2>3, TurnIsFaithful
  <2>5. n \in 0..N
    BY <1>2
  <2> QED
    BY <2>1, <2>4, <2>5, Zenon
<1>5. N \in Good
  <2> HIDE DEF Good, N
  <2>1. 0..N \subseteq Good
    BY <1>2, <1>3, <1>4, UpTo
  <2> QED
    BY <1>2, <2>1
<1>6. PICK end, c : end = IniLoop(lines, sec, kv) /\ c = Flushed(end, kv)
  OBVIOUS
<1>7. Faithful(end, sec, kv) /\ Follows(end, lines, N, sec)
  BY <1>1, <1>5, <1>6 DEF IniPasses
<1>8. /\ c \in Seq(IniText) /\ Own(c, sec, kv)
      /\ end.seen => \A k \in Names(kv) : Hit(c, sec, k)
      /\ ForeignTo(c, Len(c), sec) = ForeignTo(lines, N, sec)
  BY <1>6, <1>7, FlushedIs DEF Follows
<1>9. r = IF end.seen THEN c ELSE Append(c, Header(sec)) \o kv
  BY <1>6 DEF IniSet, Flushed
<1>10. CASE end.seen
  BY <1>8, <1>9, <1>10 DEF Edited
<1>11. CASE ~end.seen
  <2>1. PICK x, h : x = Header(sec) /\ h = Append(c, x)
    OBVIOUS
  <2>2. x \in IniText /\ x.key = "section" /\ x.val = sec
    BY <2>1 DEF Header, IniText
  <2>3. WithLine(h, c, x) /\ Within(sec, c, x)
    BY <2>1, <2>2 DEF WithLine, Within
  <2>4. Grows(h, c, x, sec, sec, kv)
    BY <1>8, <2>2, <2>3, LineAdded
  <2>5. /\ h \in Seq(IniText) /\ SectionAt(h, Len(h)) = sec /\ Own(h, sec, kv)
        /\ ForeignTo(h, Len(h), sec) = ForeignTo(c, Len(c), sec)
    BY <1>8, <2>2, <2>4, NamesAreKeys DEF Grows
  <2>6. WithLines(r, h, kv) /\ Range(kv) \subseteq Range(kv)
    BY <1>9, <1>11, <2>1 DEF WithLines
  <2>7. GrowsBy(r, h, kv, sec, kv)
    BY <2>5, <2>6, LinesAdded
  <2>8. ASSUME NEW k \in Names(kv) PROVE Hit(r, sec, k)
    BY <2>7, NamesAreKeys DEF GrowsBy
  <2> QED
    BY <1>8, <2>5, <2>7, <2>8 DEF GrowsBy, Edited
<1> QED
  BY <1>10, <1>11

\* ini_get finds the value of kv for a key that is set in the section, if kv alone sets it there.
LEMMA GetIs ==
    ASSUME NEW q \in Seq(IniText), NEW sec, NEW kv, Own(q, sec, kv), NEW k \in Names(kv),
           Hit(q, sec, k), NEW default
    PROVE  \E x \in Range(kv) : x.key = k /\ IniGet(q, sec, k, default) = x.val
<1> DEFINE hits == {i \in DOMAIN q : q[i].key = k /\ SectionAt(q, i) = sec}
<1>1. hits # {} /\ hits \in SUBSET Nat
  BY DEF Hit
<1>2. PICK i : i = CHOOSE n \in hits : \A j \in hits : n <= j
  OBVIOUS
<1>3. i \in hits
  <2> HIDE DEF hits
  <2>1. \E n \in hits : \A j \in hits : n <= j
    BY <1>1, Least
  <2> QED
    BY <1>2, <2>1
<1>4. IniGet(q, sec, k, default) = q[i].val
  BY <1>1, <1>2 DEF IniGet
<1>5. q[i] \in Range(kv) /\ q[i].key = k
  BY <1>3 DEF Own
<1> QED
  BY <1>4, <1>5

\* A step of Machines is one of the update settings' handlers or leaves them alone.
LEMMA AutoSteps ==
    [Next]_machineVars => (part' = part /\ AutoUpdatesNext) \/ Stays("auto", autoVars)
<1>1. ASSUME NEW p, p # "auto", On(p) PROVE Stays("auto", autoVars)
  BY <1>1 DEF On, Leaves, Stays
<1>2. ASSUME UNCHANGED machineVars PROVE Stays("auto", autoVars)
  BY <1>2 DEF machineVars, autoUpdatesVars, Stays
<1>3. ASSUME Next PROVE (part' = part /\ AutoUpdatesNext) \/ Stays("auto", autoVars)
  <2>1. On("auto") => part' = part
    BY DEF On
  <2> QED
    BY <1>1, <1>3, <2>1 DEF Next
<1> QED
  BY <1>2, <1>3

\* What dnf_set writes when its chain comes as far as c: "new", whole, cut or not at all.  The
\* lines it starts from are those of the file, or of the package it has just installed.
Read(c) == IF tool \/ c.done = 0 THEN ini ELSE PackagedIni
DnfWrites(s, c, new) ==
    /\ updater' = "dnf"
    /\ timerOn' = (timerOn \/ c.done = 4)
    /\ Answer("autoupdate_set", [on |-> TRUE, settings |-> s], c.ok)
    /\ c.done >= 2 => ini' = new /\ readable' = TRUE
    /\ ini' \in {Read(c), new} \cup Cuts(new)
    /\ readable \in BOOLEAN => readable' \in BOOLEAN

LEMMA DnfOnIs ==
    ASSUME NEW s, DnfOn(s)
    PROVE  \E c \in Chain(4) : DnfWrites(s, c, IniSet(TextOf(Read(c)), "commands", DnfKeys(s)))
<1>1. PICK c \in Chain(4) :
        /\ updater' = "dnf"
        /\ timerOn' = (timerOn \/ c.done = 4)
        /\ Answer("autoupdate_set", [on |-> TRUE, settings |-> s], c.ok)
        /\ \E f \in Teed(<<Read(c), readable>>, <<IniSet(TextOf(Read(c)), "commands", DnfKeys(s)), TRUE>>,
                         Cuts(IniSet(TextOf(Read(c)), "commands", DnfKeys(s))) \X BOOLEAN,
                         c.done >= 1, c.done >= 2) : ini' = f[1] /\ readable' = f[2]
  BY Zenon DEF DnfOn, Read
<1>2. PICK held, new : held = Read(c) /\ new = IniSet(TextOf(Read(c)), "commands", DnfKeys(s))
  OBVIOUS
<1>3. PICK f \in Teed(<<held, readable>>, <<new, TRUE>>, Cuts(new) \X BOOLEAN, c.done >= 1, c.done >= 2) :
        ini' = f[1] /\ readable' = f[2]
  BY <1>1, <1>2
<1>4. c.done >= 2 => ini' = new /\ readable' = TRUE
  <2> SUFFICES ASSUME c.done >= 2 PROVE ini' = new /\ readable' = TRUE
    OBVIOUS
  <2>1. f = <<new, TRUE>>
    BY <1>3 DEF Teed
  <2>2. f[1] = new /\ f[2] = TRUE
    BY <2>1
  <2> QED
    BY <1>3, <2>2, Zenon
<1>5. /\ ini' \in {held, new} \cup Cuts(new)
      /\ readable \in BOOLEAN => readable' \in BOOLEAN
  <2>1. f = <<new, TRUE>> \/ f = <<held, readable>> \/ f \in Cuts(new) \X BOOLEAN
    BY DEF Teed
  <2>2. CASE f = <<new, TRUE>>
    BY <1>3, <2>2
  <2>3. CASE f = <<held, readable>>
    BY <1>3, <2>3
  <2>4. CASE f \in Cuts(new) \X BOOLEAN
    <3>1. f[1] \in Cuts(new) /\ f[2] \in BOOLEAN
      <4> HIDE DEF Cuts
      <4> QED
        BY <2>4
    <3> QED
      BY <1>3, <3>1
  <2> QED
    BY <2>1, <2>2, <2>3, <2>4
<1> QED
  BY <1>1, <1>2, <1>4, <1>5 DEF DnfWrites

LEMMA DnfKeysAre ==
    ASSUME NEW s
    PROVE  /\ KeyLines(DnfKeys(s)) /\ Names(DnfKeys(s)) = IniKey
           /\ \A x \in Range(DnfKeys(s)) :
                /\ x.key = "apply_updates" => x.val = IF s.mode = "install" THEN "yes" ELSE "no"
                /\ x.key = "upgrade_type" => x.val = IF s.scope = "security" THEN "security" ELSE "default"
<1> DEFINE yes == IF s.mode = "install" THEN "yes" ELSE "no"
           all == IF s.scope = "security" THEN "security" ELSE "default"
<1>1. PICK kv : kv = DnfKeys(s)
  OBVIOUS
<1>2. kv = <<Assign("apply_updates", yes), Assign("upgrade_type", all)>>
  BY <1>1 DEF DnfKeys
<1>3. yes \in IniVal /\ all \in IniVal
  BY DEF IniVal
<1> HIDE DEF yes, all
<1>4. /\ kv \in Seq(IniText) /\ Len(kv) = 2 /\ DOMAIN kv = 1..2
      /\ kv[1] = [key |-> "apply_updates", val |-> yes]
      /\ kv[2] = [key |-> "upgrade_type", val |-> all]
  BY <1>2, <1>3 DEF Assign, IniText, IniKey
<1>5. KeyLines(kv) /\ Names(kv) = IniKey
  BY <1>4 DEF KeyLines, Names, IniKey
<1>6. ASSUME NEW x \in Range(kv)
      PROVE  (x.key = "apply_updates" => x.val = yes) /\ (x.key = "upgrade_type" => x.val = all)
  BY <1>4 DEF Range
<1> QED
  BY <1>1, <1>5, <1>6 DEF yes, all

\* automatic.conf is a sequence of lines.
IniTable == ini \in Seq(IniText)

\* The lines of a cut file outside the section, and the sections they are in, are some of those of
\* the whole.
LEMMA CutKeepsForeign ==
    ASSUME NEW lines \in Seq(IniText), NEW q \in Cuts(lines), NEW sec
    PROVE  q \in Seq(IniText) /\ ForeignTo(q, Len(q), sec) \subseteq ForeignTo(lines, Len(lines), sec)
<1>1. PICK n \in 0..Len(lines) : q = SubSeq(lines, 1, n)
  BY DEF Cuts
<1>2. q \in Seq(IniText) /\ Len(q) = n /\ \A i \in 1..n : q[i] = lines[i]
  BY <1>1
<1>3. ASSUME NEW i \in 1..n PROVE SectionAt(q, i) = SectionAt(lines, i)
  BY <1>2, SectionAgrees
<1>4. 1..n \subseteq 1..Len(lines)
  BY <1>1
<1> QED
  BY <1>2, <1>3, <1>4 DEF ForeignTo

\* What the editing of one save comes to: new is what could be read of the file, or of what the
\* package brought, edited; and it is written when the page is told so.
LEMMA DnfEdits ==
    ASSUME IniTable, NEW s, DnfOn(s)
    PROVE  \E c, new :
              /\ c \in Chain(4) /\ DnfWrites(s, c, new)
              /\ Read(c) \in Seq(IniText)
              /\ Edited(new, TextOf(Read(c)), "commands", DnfKeys(s))
<1>1. PICK c \in Chain(4) : DnfWrites(s, c, IniSet(TextOf(Read(c)), "commands", DnfKeys(s)))
  BY DnfOnIs
<1>2. Read(c) \in Seq(IniText)
  <2>1. PackagedIni \in Seq(IniText)
    <3>1. ASSUME NEW v \in IniVal PROVE Header(v) \in IniText /\ Assign("apply_updates", v) \in IniText
      BY DEF Header, Assign, IniText, IniKey
    <3>2. "commands" \in IniVal /\ "no" \in IniVal /\ "emitters" \in IniVal
      BY DEF IniVal
    <3> QED
      BY <3>1, <3>2 DEF PackagedIni
  <2> QED
    BY <2>1 DEF Read, IniTable
<1>3. PICK new, lines, kv : /\ lines = TextOf(Read(c)) /\ kv = DnfKeys(s)
                            /\ new = IniSet(lines, "commands", kv)
  OBVIOUS
<1>4. Edited(new, lines, "commands", kv)
  <2>1. KeyLines(kv) /\ lines \in Seq(IniText)
    BY <1>2, <1>3, DnfKeysAre DEF TextOf
  <2>2. Titled("commands") /\ "commands" \in IniVal
    BY Zenon DEF Titled, IniVal
  <2> QED
    BY <1>3, <2>1, <2>2, IniSetIs
<1> QED
  BY <1>1, <1>2, <1>3, <1>4

LEMMA IniTyped == Spec => []IniTable
<1>1. Init => IniTable
  <2> SUFFICES ASSUME AutoUpdatesInit PROVE IniTable
    BY DEF Init
  <2>1. ini \in IniFile \/ ini = <<>>
    BY Zenon DEF AutoUpdatesInit
  <2>2. CASE ini \in IniFile
    BY <2>2, AutoUpdatesAssumption, Zenon DEF IniTable
  <2>3. CASE ini = <<>>
    BY <2>3 DEF IniTable
  <2> QED
    BY <2>1, <2>2, <2>3
<1>2. IniTable /\ [Next]_machineVars => IniTable'
  <2> SUFFICES ASSUME IniTable, AutoUpdatesNext \/ UNCHANGED ini
               PROVE  IniTable'
    BY AutoSteps DEF Stays, autoVars
  <2>1. ASSUME NEW s, DnfOn(s) PROVE IniTable'
    <3>1. PICK c, new :
              /\ c \in Chain(4) /\ DnfWrites(s, c, new)
              /\ Read(c) \in Seq(IniText)
              /\ Edited(new, TextOf(Read(c)), "commands", DnfKeys(s))
      BY <2>1, DnfEdits
    <3>2. new \in Seq(IniText)
      BY <3>1 DEF Edited
    <3> QED
      BY <3>1, <3>2, CutKeepsForeign DEF DnfWrites, IniTable
  <2>2. ASSUME NEW s, NEW on, AptSet(on, s) \/ DnfOff(s) PROVE IniTable'
    <3>1. ini' = ini
      BY <2>2, Zenon DEF AptSet, DnfOff
    <3> QED
      BY <3>1 DEF IniTable
  <2>3. CASE UNCHANGED ini
    BY <2>3 DEF IniTable
  <2> QED
    BY <2>1, <2>2, <2>3 DEF AutoUpdatesNext
<1> QED
  BY <1>1, <1>2, PTL DEF Spec

\* The lines of the other sections of what one save leaves.
LEMMA DnfKeepsForeign ==
    ASSUME IniTable, NEW s, DnfOn(s), tool
    PROVE  /\ ForeignTo(ini', Len(ini'), "commands") \subseteq ForeignTo(ini, Len(ini), "commands")
           /\ readable /\ reply'.op = "autoupdate_set" =>
                ForeignTo(ini', Len(ini'), "commands") = ForeignTo(ini, Len(ini), "commands")
<1>1. PICK c, new :
          /\ c \in Chain(4) /\ DnfWrites(s, c, new)
          /\ Read(c) \in Seq(IniText)
          /\ Edited(new, TextOf(Read(c)), "commands", DnfKeys(s))
  BY DnfEdits
<1>2. Read(c) = ini
  BY DEF Read
<1>3. PICK text : text = TextOf(ini)
  OBVIOUS
<1>4. new \in Seq(IniText) /\ ForeignTo(new, Len(new), "commands") = ForeignTo(text, Len(text), "commands")
  BY <1>1, <1>2, <1>3 DEF Edited
<1>5. /\ ForeignTo(text, Len(text), "commands") \subseteq ForeignTo(ini, Len(ini), "commands")
      /\ readable => text = ini
  <2>1. CASE readable
    BY <1>3, <2>1 DEF TextOf
  <2>2. CASE ~readable
    <3>1. text = <<>> /\ Len(text) = 0
      BY <1>3, <2>2 DEF TextOf
    <3>2. 1..0 = {}
      OBVIOUS
    <3>3. ForeignTo(text, Len(text), "commands") = {}
      BY <3>1, <3>2, Zenon DEF ForeignTo
    <3> QED
      BY <2>2, <3>3
  <2> QED
    BY <2>1, <2>2
<1>6. ini' = ini \/ ini' = new \/ ini' \in Cuts(new)
  BY <1>1, <1>2 DEF DnfWrites
<1>7. ForeignTo(ini', Len(ini'), "commands") \subseteq ForeignTo(ini, Len(ini), "commands")
  BY <1>4, <1>5, <1>6, CutKeepsForeign
<1>8. ASSUME readable, reply'.op = "autoupdate_set" PROVE ini' = new
  <2>1. c.ok
    <3>1. NoReply.op # "autoupdate_set"
      BY DEF NoReply
    <3> QED
      BY <1>1, <1>8, <3>1 DEF DnfWrites, Answer
  <2>2. c.done = 4
    BY <1>1, <2>1 DEF Chain
  <2> QED
    BY <1>1, <2>2 DEF DnfWrites
<1> QED
  BY <1>4, <1>5, <1>7, <1>8

\* Saving adds no line to the other sections of automatic.conf, whatever it holds and wherever the
\* write is cut; one that is done keeps them and their sections as they were, if the file could be
\* read: dnf_set and ini_set.
THEOREM OthersSettingsStay == Spec => OtherSettingsStay
<1> DEFINE Foreign(lines) == {<<SectionAt(lines, i), lines[i]>> : i \in DOMAIN lines}
           Other(lines) == {x \in Foreign(lines) : x[1] # "commands"}
           Keeps == /\ Other(ini') \subseteq Other(ini)
                    /\ readable /\ reply'.op = "autoupdate_set" => Other(ini') = Other(ini)
<1>1. ASSUME NEW lines \in Seq(IniText) PROVE Other(lines) = ForeignTo(lines, Len(lines), "commands")
  <2>1. DOMAIN lines = 1..Len(lines)
    OBVIOUS
  <2> QED
    BY <2>1 DEF ForeignTo
<1>2. IniTable /\ IniTable' /\ [Next]_machineVars => [tool => Keeps]_autoUpdatesVars
  <2> SUFFICES ASSUME IniTable, IniTable', AutoUpdatesNext \/ UNCHANGED ini, tool
               PROVE  Keeps
    BY AutoSteps DEF Stays, autoVars
  <2>1. ASSUME NEW s, DnfOn(s) PROVE Keeps
    <3>1. /\ Other(ini) = ForeignTo(ini, Len(ini), "commands")
          /\ Other(ini') = ForeignTo(ini', Len(ini'), "commands")
      BY <1>1 DEF IniTable
    <3> HIDE DEF Other
    <3> QED
      BY <2>1, <3>1, DnfKeepsForeign
  <2>2. ASSUME NEW s, NEW on, AptSet(on, s) \/ DnfOff(s) PROVE Keeps
    <3>1. ini' = ini
      BY <2>2, Zenon DEF AptSet, DnfOff
    <3> QED
      BY <3>1
  <2>3. CASE UNCHANGED ini
    BY <2>3
  <2> QED
    BY <2>1, <2>2, <2>3 DEF AutoUpdatesNext
<1> QED
  BY <1>2, IniTyped, PTL DEF Spec, OtherSettingsStay

\* Settings that were saved are read back as they were saved: apt_set and apt_status.
LEMMA AptSaved ==
    ASSUME NEW on \in BOOLEAN, NEW s \in Settings, AptSet(on, s), reply' # NoReply
    PROVE  /\ updater' = "apt" /\ (on => tool')
           /\ periodic' = AptPeriodic(on, s.mode) /\ managed' = s.scope
           /\ reply' = [op |-> "autoupdate_set", arg |-> [on |-> on, settings |-> s]]
<1>1. PICK c \in Chain(4) :
          /\ tool' = (tool \/ (on /\ c.done >= 1))
          /\ periodic' \in Teed(periodic, AptPeriodic(on, s.mode), PeriodicCuts(on), c.done >= 1, c.done >= 2)
          /\ managed' \in Teed(managed, s.scope, {"security"}, c.done >= 2, c.done >= 3)
          /\ Answer("autoupdate_set", [on |-> on, settings |-> s], c.ok)
          /\ updater' = "apt"
  BY Zenon DEF AptSet
<1>2. c.ok /\ reply' = [op |-> "autoupdate_set", arg |-> [on |-> on, settings |-> s]]
  BY <1>1, Zenon DEF Answer
<1>3. c.done = 4
  BY <1>2 DEF Chain
<1>4. c.done >= 1 /\ c.done >= 2 /\ c.done >= 3
  BY <1>3
<1>5. on => tool'
  BY <1>1, <1>4, Zenon
<1>6. periodic' = AptPeriodic(on, s.mode) /\ managed' = s.scope
  BY <1>1, <1>4, Zenon DEF Teed
<1> QED
  BY <1>1, <1>2, <1>5, <1>6, Zenon

LEMMA DnfOnSaved ==
    ASSUME IniTable, NEW s \in Settings, DnfOn(s), reply' # NoReply
    PROVE  /\ updater' = "dnf" /\ timerOn' /\ readable' = TRUE
           /\ Edited(ini', ini', "commands", DnfKeys(s))
           /\ reply' = [op |-> "autoupdate_set", arg |-> [on |-> TRUE, settings |-> s]]
<1>1. PICK c, new :
          /\ c \in Chain(4) /\ DnfWrites(s, c, new)
          /\ Edited(new, TextOf(Read(c)), "commands", DnfKeys(s))
  BY DnfEdits
<1>2. c.ok /\ reply' = [op |-> "autoupdate_set", arg |-> [on |-> TRUE, settings |-> s]]
  BY <1>1, Zenon DEF Answer, DnfWrites
<1>3. c.done = 4
  BY <1>1, <1>2 DEF Chain
<1>4. c.done >= 2
  BY <1>3
<1>5. ini' = new /\ readable' = TRUE
  BY <1>1, <1>4 DEF DnfWrites
<1>6. Edited(ini', ini', "commands", DnfKeys(s))
  BY <1>1, <1>5 DEF Edited
<1>7. updater' = "dnf" /\ timerOn'
  BY <1>1, <1>3, Zenon DEF DnfWrites
<1> QED
  BY <1>2, <1>5, <1>6, <1>7

\* What ini_get reads of the keys that a save has set.
LEMMA KeysRead ==
    ASSUME NEW q, NEW s \in Settings, Edited(q, q, "commands", DnfKeys(s)), NEW default
    PROVE  /\ (IniGet(q, "commands", "apply_updates", default) = "yes") <=> s.mode = "install"
           /\ (IniGet(q, "commands", "upgrade_type", default) = "security") <=> s.scope = "security"
<1>1. PICK kv, sec : kv = DnfKeys(s) /\ sec = "commands"
  OBVIOUS
<1>2. /\ Names(kv) = IniKey
      /\ \A x \in Range(kv) :
            /\ x.key = "apply_updates" => x.val = IF s.mode = "install" THEN "yes" ELSE "no"
            /\ x.key = "upgrade_type" => x.val = IF s.scope = "security" THEN "security" ELSE "default"
  BY <1>1, DnfKeysAre
<1>3. q \in Seq(IniText) /\ Own(q, sec, kv) /\ \A k \in IniKey : Hit(q, sec, k) /\ k \in Names(kv)
  BY <1>1, <1>2 DEF Edited
<1>4. \A k \in IniKey : \E x \in Range(kv) : x.key = k /\ IniGet(q, sec, k, default) = x.val
  BY <1>3, GetIs
<1>5. "apply_updates" \in IniKey /\ "upgrade_type" \in IniKey
  BY DEF IniKey
<1>6. PICK x \in Range(kv) : x.key = "apply_updates" /\ IniGet(q, sec, "apply_updates", default) = x.val
  BY <1>4, <1>5
<1>7. PICK y \in Range(kv) : y.key = "upgrade_type" /\ IniGet(q, sec, "upgrade_type", default) = y.val
  BY <1>4, <1>5
<1>8. /\ x.val = IF s.mode = "install" THEN "yes" ELSE "no"
      /\ y.val = IF s.scope = "security" THEN "security" ELSE "default"
  BY <1>2, <1>6, <1>7
<1>9. (x.val = "yes" <=> s.mode = "install") /\ (y.val = "security" <=> s.scope = "security")
  BY <1>8
<1> QED
  BY <1>1, <1>6, <1>7, <1>9

\* The page is shown what it saved: AptStatus and DnfStatus, after a step.
Shows(on, s) ==
    /\ Status.enabled = on
    /\ on => Status.mode = s.mode /\ Status.scope = s.scope

LEMMA AptShows ==
    ASSUME NEW on \in BOOLEAN, NEW s \in Settings, updater' = "apt", on => tool',
           periodic' = AptPeriodic(on, s.mode), managed' = s.scope
    PROVE  Shows(on, s)'
<1>1. PICK enabled, mode :
          /\ enabled = (tool' /\ (periodic'.unattended \/ periodic'.download))
          /\ mode = IF periodic'.unattended THEN "install" ELSE "download"
  OBVIOUS
<1>2. Status' = [enabled |-> enabled, mode |-> mode, scope |-> managed', schedule |-> timerRuns']
  BY <1>1, Zenon DEF Status, AptStatus
<1>3. Status'.enabled = enabled /\ Status'.mode = mode /\ Status'.scope = managed'
  BY <1>2
<1>4. PICK install : install = (on /\ s.mode = "install")
  OBVIOUS
<1>5. periodic' = [unattended |-> install, download |-> on]
  BY <1>4, Zenon DEF AptPeriodic
<1>6. periodic'.unattended = install /\ periodic'.download = on
  BY <1>5
<1>7. enabled = on
  BY <1>1, <1>4, <1>6, Zenon
<1>8. ASSUME on PROVE mode = s.mode
  <2>1. s.mode = "install" \/ s.mode = "download"
    BY DEF Settings, Mode
  <2>2. s.mode = "download" => s.mode # "install"
    OBVIOUS
  <2> QED
    BY <1>1, <1>4, <1>6, <1>8, <2>1, <2>2, Zenon
<1> QED
  BY <1>3, <1>7, <1>8, Zenon DEF Shows

LEMMA DnfShows ==
    ASSUME NEW s \in Settings, updater' = "dnf", timerOn' = TRUE, readable' = TRUE,
           Edited(ini', ini', "commands", DnfKeys(s))
    PROVE  Shows(TRUE, s)'
<1>1. PICK mode, scope :
          /\ mode = IF IniGet(ini', "commands", "apply_updates", "") = "yes" THEN "install" ELSE "download"
          /\ scope = IF IniGet(ini', "commands", "upgrade_type", "default") = "security"
                     THEN "security" ELSE "all"
  BY Zenon
<1>2. updater' # "apt" /\ TextOf(ini)' = ini'
  BY Zenon DEF TextOf
<1>3. Status' = [enabled |-> timerOn', mode |-> mode, scope |-> scope, schedule |-> timerRuns']
  BY <1>1, <1>2, Zenon DEF Status, DnfStatus
<1>4. Status'.enabled = timerOn' /\ Status'.mode = mode /\ Status'.scope = scope
  BY <1>3
<1>5. (IniGet(ini', "commands", "apply_updates", "") = "yes") <=> s.mode = "install"
  BY KeysRead, Zenon
<1>6. (IniGet(ini', "commands", "upgrade_type", "default") = "security") <=> s.scope = "security"
  BY KeysRead
<1>7. s.mode \in {"install", "download"} /\ s.scope \in {"security", "all"}
  BY DEF Settings, Mode, Scope
<1>8. mode = IF s.mode = "install" THEN "install" ELSE "download"
  BY <1>1, <1>5, Zenon
<1>9. scope = IF s.scope = "security" THEN "security" ELSE "all"
  BY <1>1, <1>6, Zenon
<1>10. mode = s.mode /\ scope = s.scope
  BY <1>7, <1>8, <1>9
<1> QED
  BY <1>4, <1>10 DEF Shows

\* What the page is told it saved is what it is shown next, of either package manager, whatever
\* automatic.conf held: apt_set and apt_status, dnf_set and dnf_status.
THEOREM SavedSettingsAreShown == Spec => []SavedIsShown
<1>1. Init => SavedIsShown
  <2>1. Init => reply = NoReply
    BY Zenon DEF Init, AutoUpdatesInit
  <2> QED
    BY <2>1 DEF SavedIsShown, Told, NoReply
<1>2. IniTable /\ SavedIsShown /\ [Next]_machineVars => SavedIsShown'
  <2> SUFFICES ASSUME IniTable, SavedIsShown, AutoUpdatesNext \/ Stays("auto", autoVars), part' = "auto",
                      reply' # NoReply
               PROVE  SavedIsShown'
    BY AutoSteps DEF Stays, SavedIsShown, Told, NoReply
  <2>1. ASSUME NEW on, NEW s, Shows(on, s)',
               reply' = [op |-> "autoupdate_set", arg |-> [on |-> on, settings |-> s]]
        PROVE  SavedIsShown'
    BY <2>1 DEF Shows, SavedIsShown
  <2>2. ASSUME NEW on \in BOOLEAN, NEW s \in Settings, AptSet(on, s) PROVE SavedIsShown'
    BY <2>1, <2>2, AptSaved, AptShows
  <2>3. ASSUME NEW s \in Settings, DnfOn(s) PROVE SavedIsShown'
    BY <2>1, <2>3, DnfOnSaved, DnfShows
  <2>4. ASSUME NEW s \in Settings, DnfOff(s) PROVE SavedIsShown'
    <3>1. PICK c \in Chain(1) :
              /\ timerOn' = (timerOn /\ c.done = 0) /\ updater' = "dnf"
              /\ Answer("autoupdate_set", [on |-> FALSE, settings |-> s], c.ok)
      BY <2>4, Zenon DEF DnfOff
    <3>2. c.ok /\ reply' = [op |-> "autoupdate_set", arg |-> [on |-> FALSE, settings |-> s]]
      BY <3>1, Zenon DEF Answer
    <3>3. timerOn' = FALSE
      <4>1. c.done # 0
        BY <3>2 DEF Chain
      <4> QED
        BY <3>1, <4>1, Zenon
    <3>4. Shows(FALSE, s)'
      <4>1. updater' # "apt"
        BY <3>1
      <4>2. PICK mode, scope : Status' = [enabled |-> FALSE, mode |-> mode, scope |-> scope, schedule |-> timerRuns']
        BY <3>3, <4>1, Zenon DEF Status, DnfStatus
      <4> QED
        BY <4>2 DEF Shows
    <3> QED
      BY <2>1, <3>2, <3>4
  <2>5. CASE Stays("auto", autoVars)
    BY <2>5, Zenon DEF Stays, autoVars, SavedIsShown, Told, Status, AptStatus, DnfStatus, TextOf
  <2> QED
    BY <2>2, <2>3, <2>4, <2>5 DEF AutoUpdatesNext
<1> QED
  BY <1>1, <1>2, IniTyped, PTL DEF Spec
=============================================================================
