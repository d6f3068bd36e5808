------------------------------ MODULE Machines ------------------------------
(***************************************************************************)
(* What the request handlers of an agent do to its host, and what agent    *)
(* and gateway keep for themselves: one part per group of handlers or      *)
(* functions.  The parts share the answer and nothing else, so a behaviour *)
(* is about one of them.                                                   *)
(***************************************************************************)
EXTENDS Network, Packages, AutoUpdates, Accounts, Containers, Certs, CommandRunner, Terminal,
        LoginLimiter, Identity, Services, Transport

CONSTANT Part   \* the parts considered

Init ==
    /\ part \in Part
    /\ NetworkInit /\ PackagesInit /\ AutoUpdatesInit /\ AccountsInit /\ ContainersInit
    /\ CertsInit /\ CommandInit /\ TerminalInit /\ LimiterInit /\ IdentityInit
    /\ ServicesInit /\ TransportInit

Leaves(vars, p, owners) == IF p \in owners THEN TRUE ELSE UNCHANGED vars

\* A step in part p: the router hands a request to the handler, which touches its part of the
\* host only.
On(p) ==
    /\ part = p /\ UNCHANGED part
    /\ Leaves(<<firewallVars, linkVars>>, p, {"firewall", "links"})
    /\ Leaves(<<packageVars, conf, dropIn>>, p, {"packages", "repos"})
    /\ Leaves(autoVars, p, {"auto"})
    /\ Leaves(accountVars, p, {"accounts"})
    /\ Leaves(containerVars, p, {"containers"})
    /\ Leaves(trustVars, p, {"trust"})
    /\ Leaves(pairVars, p, {"certs"})
    /\ Leaves(commandVars, p, {"command"})
    /\ Leaves(terminalState, p, {"terminal"})
    /\ Leaves(limiterState, p, {"login"})
    /\ Leaves(identityState, p, {"identity"})
    /\ Leaves(<<serviceState, keys>>, p, {"services", "keys"})
    /\ Leaves(transportState, p, {"page"})

Next ==
    \/ On("firewall") /\ FirewallNext
    \/ On("links") /\ LinkNext
    \/ On("packages") /\ PackagesNext
    \/ On("repos") /\ ReposNext
    \/ On("auto") /\ AutoUpdatesNext
    \/ On("accounts") /\ AccountsNext
    \/ On("containers") /\ ContainersNext
    \/ On("trust") /\ TrustNext
    \/ On("certs") /\ PairNext
    \/ On("command") /\ CommandNext
    \/ On("terminal") /\ TerminalNext
    \/ On("login") /\ LimiterNext
    \/ On("identity") /\ IdentityNext
    \/ On("services") /\ ServicesNext
    \/ On("keys") /\ KeysNext
    \/ On("page") /\ TransportNext

machineVars == <<part, networkVars, packagesVars, autoUpdatesVars, accountsVars, containersVars,
                 certsVars, commandRunnerVars, terminalVars, limiterVars, identityVars,
                 servicesVars, transportVars>>

Spec     == Init /\ [][Next]_machineVars
FairSpec == Spec /\ CommandFairness /\ TerminalFairness /\ TransportFairness

TypeOK ==
    /\ part \in Part
    /\ NetworkTypeOK /\ PackagesTypeOK /\ AutoUpdatesTypeOK /\ AccountsTypeOK /\ ContainersTypeOK
    /\ CertsTypeOK /\ CommandTypeOK /\ TerminalTypeOK /\ LimiterTypeOK /\ IdentityTypeOK
    /\ ServicesTypeOK /\ TransportTypeOK
=============================================================================
