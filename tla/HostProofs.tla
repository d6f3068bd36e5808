----------------------------- MODULE HostProofs -----------------------------
(***************************************************************************)
(* What a page is told of containers, packages and certificates holds on   *)
(* the host, for any names.  The answer is judged in the state the         *)
(* handler's commands leave, so each proof goes through the ways a chain   *)
(* can stop; what it needs of earlier steps is that the tables of the host *)
(* are functions and that a row names its owner.                           *)
(***************************************************************************)
EXTENDS Machines, FiniteSetTheorems, TLAPS

\* Of the steps of Machines, those of part p's handlers; a step of another part is in a
\* behaviour of that part, where p's state has its first value.
Stays(p, state) == part' = part /\ UNCHANGED state /\ (part = p => UNCHANGED reply)

-----------------------------------------------------------------------------
(* Loops over the lines of a file. *)

\* A set of numbers has a least one: intervals are ordered by inclusion.
LEMMA Least ==
    ASSUME NEW S \in SUBSET Nat, S # {}
    PROVE  \E n \in S : \A m \in S : n <= m
<1> DEFINE F == {1..n : n \in S}
<1>1. F \subseteq FiniteSubsetsOf(Nat) /\ F # {}
  <2>1. ASSUME NEW n \in S PROVE 1..n \in SUBSET Nat /\ IsFiniteSet(1..n)
    <3>1. n \in Int /\ 1 \in Int
      OBVIOUS
    <3> QED
      BY <3>1, FS_Interval
  <2> QED
    BY <2>1 DEF FiniteSubsetsOf
<1>2. PICK x \in F : \A y \in F : <<y, x>> \notin StrictSubsetOrdering(Nat)
  <2> HIDE DEF F
  <2>1. IsWellFoundedOn(StrictSubsetOrdering(Nat), FiniteSubsetsOf(Nat))
    BY FS_StrictSubsetOrderingWellFounded
  <2> QED
    BY <1>1, <2>1, WFMin
<1>3. PICK n \in S : x = 1..n
  BY <1>2
<1>4. ASSUME NEW m \in S, m < n PROVE FALSE
  <2>1. 1..m \in F /\ 1..m \subseteq 1..n /\ 1..m # 1..n
    <3>1. n \in 1..n /\ n \notin 1..m
      BY <1>4
    <3> QED
      BY <1>4, <3>1
  <2>2. <<1..m, 1..n>> \in StrictSubsetOrdering(Nat)
    BY <2>1 DEF StrictSubsetOrdering
  <2> QED
    BY <2>1, <2>2, <1>2, <1>3
<1> QED
  BY <1>4

\* Induction up to N, for a property given as the set of numbers that have it.
LEMMA UpTo ==
    ASSUME NEW N \in Nat, NEW S, 0 \in S, \A n \in 1..N : n - 1 \in S => n \in S
    PROVE  0..N \subseteq S
<1> DEFINE Bad == {n \in 0..N : n \notin S}
<1>1. ASSUME Bad # {} PROVE FALSE
  <2>1. PICK m \in Bad : \A n \in Bad : m <= n
    <3>1. Bad \in SUBSET Nat
      OBVIOUS
    <3> HIDE DEF Bad
    <3> QED
      BY <1>1, <3>1, Least
  <2>2. m \in 1..N /\ m - 1 \notin Bad /\ m - 1 \in 0..N
    BY <2>1
  <2> QED
    BY <2>1, <2>2
<1> QED
  BY <1>1

\* Two sequences, one after the other.
LEMMA Joined ==
    ASSUME NEW T, NEW s \in Seq(T), NEW t \in Seq(T)
    PROVE  /\ s \o t \in Seq(T) /\ Len(s \o t) = Len(s) + Len(t)
           /\ \A i \in 1..Len(s \o t) : (s \o t)[i] = IF i <= Len(s) THEN s[i] ELSE t[i - Len(s)]
<1>1. s \o t \in Seq(T)
  OBVIOUS
<1>2. Len(s \o t) = Len(s) + Len(t)
  OBVIOUS
<1>3. \A i \in 1..Len(s \o t) : (s \o t)[i] = IF i <= Len(s) THEN s[i] ELSE t[i - Len(s)]
  OBVIOUS
<1> QED
  BY <1>1, <1>2, <1>3

\* A loop of N turns over A, and the values that it passes through.
IsLoop(N, A, start, step) == N \in Nat /\ start \in A /\ step \in [1..N -> [A -> A]]
Passes(g, N, A, start, step) ==
    g \in [0..N -> A] /\ g[0] = start /\ \A n \in 1..N : g[n] = step[n][g[n - 1]]

\* Every loop goes through its turns.
LEMMA Turns ==
    ASSUME NEW N, NEW A, NEW start, NEW step, IsLoop(N, A, start, step)
    PROVE  \E g : Passes(g, N, A, start, step)
<1> USE DEF IsLoop
<1> DEFINE Run(g, k) == g[0] = start /\ \A n \in 1..k : g[n] = step[n][g[n - 1]]
           S == {k \in 0..N : \E g \in [0..k -> A] : Run(g, k)}
<1>1. 0 \in S
  <2> DEFINE g == [n \in 0..0 |-> start]
  <2>1. g \in [0..0 -> A] /\ g[0] = start
    OBVIOUS
  <2> HIDE DEF g
  <2>2. Run(g, 0)
    BY <2>1
  <2> QED
    BY <2>1, <2>2
<1>2. ASSUME NEW k \in 1..N, k - 1 \in S PROVE k \in S
  <2>1. PICK g \in [0..k - 1 -> A] : Run(g, k - 1)
    BY <1>2
  <2> DEFINE h == [n \in 0..k |-> IF n = k THEN step[k][g[k - 1]] ELSE g[n]]
  <2>2. h \in [0..k -> A]
    <3>1. step[k] \in [A -> A] /\ g[k - 1] \in A
      OBVIOUS
    <3>2. step[k][g[k - 1]] \in A
      BY <3>1
    <3> QED
      BY <3>2
  <2>3. h[0] = start
    BY <2>1
  <2>4. ASSUME NEW n \in 1..k PROVE h[n] = step[n][h[n - 1]]
    <3>1. h[n - 1] = g[n - 1]
      OBVIOUS
    <3>2. CASE n = k
      BY <3>1, <3>2
    <3>3. CASE n # k
      <4>1. n \in 1..k - 1
        BY <3>3
      <4> QED
        BY <2>1, <3>1, <3>3, <4>1
    <3> QED
      BY <3>2, <3>3
  <2> HIDE DEF h
  <2> QED
    BY <2>2, <2>3, <2>4
<1> HIDE DEF S
<1>3. 0..N \subseteq S
  BY <1>1, <1>2, UpTo
<1>4. N \in S
  BY <1>3
<1> QED
  BY <1>4 DEF S, Passes

\* The values that the filter passes through.
Filters(stays, T, lines, S) ==
    /\ stays \in [0..Len(lines) -> Seq(T)]
    /\ stays[0] = <<>> /\ Kept(lines, S) = stays[Len(lines)]
    /\ \A n \in 1..Len(lines) :
           stays[n] = IF lines[n] \in S THEN Append(stays[n - 1], lines[n]) ELSE stays[n - 1]

LEMMA KeptTurns ==
    ASSUME NEW T, NEW lines \in Seq(T), NEW S
    PROVE  \E stays : Filters(stays, T, lines, S)
<1> DEFINE N == Len(lines)
           turn(q, n) == IF lines[n] \in S THEN Append(q, lines[n]) ELSE q
           step == [n \in 1..N |-> [q \in Seq(T) |-> turn(q, n)]]
           Is(g) == g = [n \in 0..N |-> IF n = 0 THEN <<>> ELSE turn(g[n - 1], n)]
           stays == CHOOSE g : Is(g)
<1>1. step \in [1..N -> [Seq(T) -> Seq(T)]] /\ N \in Nat /\ <<>> \in Seq(T)
  OBVIOUS
<1>2. PICK g \in [0..N -> Seq(T)] : g[0] = <<>> /\ \A n \in 1..N : g[n] = step[n][g[n - 1]]
  <2> HIDE DEF N, step
  <2>1. IsLoop(N, Seq(T), <<>>, step)
    BY <1>1 DEF IsLoop
  <2>2. PICK g : Passes(g, N, Seq(T), <<>>, step)
    BY <2>1, Turns
  <2> QED
    BY <2>2 DEF Passes
<1>3. Is(g)
  <2>1. ASSUME NEW n \in 0..N PROVE g[n] = IF n = 0 THEN <<>> ELSE turn(g[n - 1], n)
    <3>1. CASE n = 0
      BY <1>2, <3>1
    <3>2. CASE n # 0
      <4>1. n \in 1..N /\ n - 1 \in 0..N
        BY <1>1, <3>2
      <4>2. g[n - 1] \in Seq(T) /\ g[n] = step[n][g[n - 1]]
        BY <1>2, <4>1
      <4> QED
        BY <3>2, <4>1, <4>2
    <3> QED
      BY <3>1, <3>2
  <2> HIDE DEF turn
  <2> QED
    BY <2>1
<1>4. Is(stays)
  <2> HIDE DEF Is
  <2> QED
    BY <1>3
<1>5. Kept(lines, S) = stays[N]
  BY DEF Kept
<1> HIDE DEF stays
<1>6. stays = [n \in 0..N |-> IF n = 0 THEN <<>> ELSE turn(stays[n - 1], n)]
  BY <1>4
<1>7. \A n \in 0..N : stays[n] = IF n = 0 THEN <<>> ELSE turn(stays[n - 1], n)
  BY <1>6
<1>8. \A n \in 0..N : stays[n] \in Seq(T)
  <2> DEFINE Good == {n \in 0..N : stays[n] \in Seq(T)}
  <2>1. 0 \in Good
    <3>1. 0 \in 0..N /\ stays[0] = <<>>
      BY <1>1, <1>7
    <3> QED
      BY <1>1, <3>1
  <2>2. ASSUME NEW n \in 1..N, n - 1 \in Good PROVE n \in Good
    <3>1. n \in 0..N /\ n # 0
      BY <1>1
    <3>2. stays[n] = turn(stays[n - 1], n) /\ stays[n - 1] \in Seq(T) /\ lines[n] \in T
      BY <1>7, <2>2, <3>1
    <3>3. turn(stays[n - 1], n) \in Seq(T)
      BY <3>2
    <3> HIDE DEF turn
    <3> QED
      BY <3>1, <3>2, <3>3
  <2> HIDE DEF Good
  <2>3. 0..N \subseteq Good
    BY <1>1, <2>1, <2>2, UpTo
  <2> QED
    BY <2>3 DEF Good
<1>9. stays \in [0..N -> Seq(T)]
  BY <1>6, <1>8
<1>10. stays[0] = <<>> /\ \A n \in 1..N : stays[n] = turn(stays[n - 1], n)
  <2> HIDE DEF turn
  <2> QED
    BY <1>1, <1>7
<1> QED
  BY <1>5, <1>9, <1>10 DEF Filters

\* After n lines the filter has those of them that are in S.
Filtered(q, n, lines, S) ==
    /\ Len(q) <= n
    /\ \A i \in 1..Len(q) : q[i] \in S /\ \E j \in 1..n : lines[j] = q[i]
    /\ \A j \in 1..n : lines[j] \in S => \E i \in 1..Len(q) : lines[j] = q[i]

\* The filter gives the lines that are in the set, no more and no fewer.
LEMMA KeptIs ==
    ASSUME NEW T, NEW lines \in Seq(T), NEW S
    PROVE  /\ Kept(lines, S) \in Seq(T)
           /\ Len(Kept(lines, S)) <= Len(lines)
           /\ Range(Kept(lines, S)) = Range(lines) \cap S
<1> DEFINE N == Len(lines)
<1>1. PICK stays : Filters(stays, T, lines, S)
  BY KeptTurns
<1> DEFINE Good == {n \in 0..N : Filtered(stays[n], n, lines, S)}
<1>2. N \in Nat
  OBVIOUS
<1>3. 0 \in Good
  BY <1>1, <1>2 DEF Filters, Filtered
<1>4. ASSUME NEW n \in 1..N, n - 1 \in Good PROVE n \in Good
  <2>1. PICK q : q = stays[n - 1]
    OBVIOUS
  <2>2. n \in Nat /\ n \in 0..N /\ n - 1 \in 0..N /\ lines[n] \in T
    BY <1>2
  <2>3. q \in Seq(T) /\ stays[n] = IF lines[n] \in S THEN Append(q, lines[n]) ELSE q
    BY <1>1, <2>1, <2>2 DEF Filters
  <2>4. Filtered(q, n - 1, lines, S)
    BY <1>4, <2>1
  <2>5. CASE lines[n] \notin S
    <3>1. Filtered(q, n, lines, S)
      BY <2>2, <2>3, <2>4, <2>5 DEF Filtered
    <3> QED
      BY <2>2, <2>3, <2>5, <3>1
  <2>6. CASE lines[n] \in S
    <3>1. PICK p : p = Append(q, lines[n])
      OBVIOUS
    <3>2. Len(q) \in Nat /\ Len(p) = Len(q) + 1 /\ p[Len(q) + 1] = lines[n]
          /\ \A i \in 1..Len(q) : p[i] = q[i]
      BY <2>2, <2>3, <3>1
    <3>3. Len(p) <= n
      BY <2>2, <2>4, <3>2 DEF Filtered
    <3>4. ASSUME NEW i \in 1..Len(p) PROVE p[i] \in S /\ \E j \in 1..n : lines[j] = p[i]
      <4>1. CASE i \in 1..Len(q)
        <5>1. PICK j \in 1..n - 1 : q[i] \in S /\ lines[j] = q[i]
          BY <2>4, <4>1 DEF Filtered
        <5>2. j \in 1..n
          BY <2>2, <5>1
        <5> QED
          BY <3>2, <4>1, <5>1, <5>2
      <4>2. CASE i = Len(q) + 1
        BY <2>2, <2>6, <3>2, <4>2
      <4> QED
        BY <3>2, <4>1, <4>2
    <3>5. ASSUME NEW j \in 1..n, lines[j] \in S PROVE \E i \in 1..Len(p) : lines[j] = p[i]
      <4>1. CASE j = n
        BY <3>2, <4>1
      <4>2. CASE j # n
        <5>1. j \in 1..n - 1
          BY <2>2, <4>2
        <5>2. PICK i \in 1..Len(q) : lines[j] = q[i]
          BY <2>4, <3>5, <5>1 DEF Filtered
        <5> QED
          BY <3>2, <5>2
      <4> QED
        BY <4>1, <4>2
    <3>6. Filtered(p, n, lines, S)
      BY <3>3, <3>4, <3>5 DEF Filtered
    <3> QED
      BY <2>2, <2>3, <2>6, <3>1, <3>6
  <2> QED
    BY <2>5, <2>6
<1>5. N \in Good
  <2> HIDE DEF Good, N
  <2>1. 0..N \subseteq Good
    BY <1>2, <1>3, <1>4, UpTo
  <2> QED
    BY <1>2, <2>1
<1>6. /\ Filtered(Kept(lines, S), N, lines, S)
      /\ Kept(lines, S) \in Seq(T)
  BY <1>1, <1>2, <1>5 DEF Filters
<1>7. Range(Kept(lines, S)) = Range(lines) \cap S
  <2>1. PICK q : q = Kept(lines, S)
    OBVIOUS
  <2>2. /\ q \in Seq(T) /\ DOMAIN q = 1..Len(q) /\ DOMAIN lines = 1..N
        /\ Filtered(q, N, lines, S)
    BY <1>6, <2>1
  <2>3. ASSUME NEW x \in Range(q) PROVE x \in Range(lines) /\ x \in S
    BY <2>2, <2>3 DEF Filtered, Range
  <2>4. ASSUME NEW x \in Range(lines), x \in S PROVE x \in Range(q)
    <3>1. PICK j \in 1..N : lines[j] = x
      BY <2>2, <2>4 DEF Range
    <3>2. PICK i \in 1..Len(q) : lines[j] = q[i]
      BY <2>2, <2>4, <3>1 DEF Filtered
    <3> QED
      BY <2>2, <3>1, <3>2 DEF Range
  <2> QED
    BY <2>1, <2>3, <2>4
<1> QED
  BY <1>6, <1>7 DEF Filtered

-----------------------------------------------------------------------------
(* Containers. *)

\* Where things are, and where the table says they are.
ContainersInv ==
    /\ engine \in {"docker", "podman"}
    /\ store \in [Owner -> SUBSET Thing]
    /\ OneRowEach

\* A step of Machines is one of the containers' handlers or leaves them alone.
LEMMA ContainersSteps ==
    [Next]_machineVars =>
        (part = "containers" /\ part' = part /\ ContainersNext) \/ Stays("containers", containerVars)
<1>1. ASSUME NEW p, p # "containers", On(p) PROVE Stays("containers", containerVars)
  BY <1>1 DEF On, Leaves, Stays
<1>2. ASSUME UNCHANGED machineVars PROVE Stays("containers", containerVars)
  BY <1>2 DEF machineVars, containersVars, Stays
<1>3. ASSUME Next
      PROVE  (part = "containers" /\ part' = part /\ ContainersNext) \/ Stays("containers", containerVars)
  <2>1. On("containers") => part = "containers" /\ part' = part
    BY DEF On
  <2> QED
    BY <1>1, <1>3, <2>1 DEF Next
<1> QED
  BY <1>2, <1>3

\* The two listings of a merge have no id in common, and nothing but a listing changes the table.
LEMMA ContainersInvariant == Spec => []ContainersInv
<1>1. Init => ContainersInv
  <2> SUFFICES ASSUME ContainersInit PROVE ContainersInv
    BY DEF Init
  <2> QED
    BY DEF ContainersInit, ContainersInv, OneRowEach, StartsIn
<1>2. ContainersInv /\ [Next]_machineVars => ContainersInv'
  <2> SUFFICES ASSUME ContainersInv, ContainersNext \/ UNCHANGED containerVars PROVE ContainersInv'
    BY ContainersSteps DEF Stays
  <2> USE DEF ContainersInv
  <2>1. ASSUME NEW pw \in BOOLEAN, List(pw) PROVE ContainersInv'
    BY <2>1 DEF List, Merged, OneRowEach
  <2>2. ASSUME NEW pw \in BOOLEAN, NEW row \in table, RemoveRow(row, pw) PROVE ContainersInv'
    BY <2>2 DEF RemoveRow, OneRowEach, Owner
  <2>3. ASSUME NEW pw \in BOOLEAN, NEW row \in table, NEW op, RunRow(row, pw, op)
        PROVE  ContainersInv'
    BY <2>3 DEF RunRow, OneRowEach
  <2>4. ASSUME NEW pw \in BOOLEAN, NEW t \in Container, CreateContainer(t, pw) PROVE ContainersInv'
    BY <2>4 DEF CreateContainer, OneRowEach, Owner, Thing
  <2>5. ASSUME NEW pw \in BOOLEAN, NEW on \in BOOLEAN, SetService(on, pw) PROVE ContainersInv'
    BY <2>5 DEF SetService, OneRowEach
  <2>6. ASSUME NEW v \in Volume, CreateVolume(v) PROVE ContainersInv'
    BY <2>6 DEF CreateVolume, OneRowEach, Owner, Thing
  <2>7. ASSUME NEW kind \in {Container, Volume}, PruneStore(kind) PROVE ContainersInv'
    BY <2>7 DEF PruneStore, OneRowEach, Owner
  <2>8. ASSUME NEW t \in Thing, UserCreates(t) PROVE ContainersInv'
    BY <2>8 DEF UserCreates, OneRowEach, Owner
  <2>9. CASE UNCHANGED containerVars
    BY <2>9 DEF containerVars, OneRowEach
  <2> QED
    BY <2>1, <2>2, <2>3, <2>4, <2>5, <2>6, <2>7, <2>8, <2>9 DEF ContainersNext, RemoveVolume
<1> QED
  BY <1>1, <1>2, PTL DEF Spec

\* No thing is listed as two owners': list_containers_merged and the other merges.
THEOREM RowsAreUnique == Spec => []OneRowEach
<1>1. ContainersInv => OneRowEach
  BY DEF ContainersInv
<1> QED
  BY <1>1, ContainersInvariant, PTL

\* What is told of a row of root's, or of docker's, is so: container_action, remove_container and
\* volume_remove, on tables of any age.
THEOREM SharedRowsAreServed == Spec => []SharedRowsAct
<1> USE DEF SharedRowsAct, DoneToRow, Told, Answer, Refuse, NoReply
<1>1. Init => SharedRowsAct
  BY DEF Init, ContainersInit
<1>2. ContainersInv /\ SharedRowsAct /\ [Next]_machineVars => SharedRowsAct'
  <2> SUFFICES ASSUME ContainersInv, SharedRowsAct,
                      (part = "containers" /\ part' = part /\ ContainersNext)
                        \/ Stays("containers", containerVars)
               PROVE  SharedRowsAct'
    BY ContainersSteps
  <2> USE DEF ContainersInv
  <2>1. ASSUME NEW pw \in BOOLEAN, NEW row \in table, RemoveRow(row, pw) PROVE SharedRowsAct'
    BY <2>1 DEF RemoveRow, Owner, Home, Chain
  <2>2. ASSUME NEW pw \in BOOLEAN, NEW row \in table, NEW op \in {"start", "stop"}, RunRow(row, pw, op)
        PROVE  SharedRowsAct'
    BY <2>2 DEF RunRow, Owner, Home, Chain, Finds
  <2>3. ASSUME NEW pw \in BOOLEAN, List(pw) PROVE SharedRowsAct'
    BY <2>3 DEF List
  <2>4. ASSUME NEW pw \in BOOLEAN, NEW t \in Container, CreateContainer(t, pw) PROVE SharedRowsAct'
    BY <2>4 DEF CreateContainer
  <2>5. ASSUME NEW pw \in BOOLEAN, NEW on \in BOOLEAN, SetService(on, pw) PROVE SharedRowsAct'
    BY <2>5 DEF SetService
  <2>6. ASSUME NEW v \in Volume, CreateVolume(v) PROVE SharedRowsAct'
    BY <2>6 DEF CreateVolume
  <2>7. ASSUME NEW kind \in {Container, Volume}, PruneStore(kind) PROVE SharedRowsAct'
    BY <2>7 DEF PruneStore
  <2>8. ASSUME NEW t \in Thing, UserCreates(t) PROVE SharedRowsAct'
    BY <2>8 DEF UserCreates
  <2>9. CASE Stays("containers", containerVars)
    BY <2>9 DEF Stays, containerVars, Home
  <2> QED
    BY <2>1, <2>2, <2>3, <2>4, <2>5, <2>6, <2>7, <2>8, <2>9 DEF ContainersNext, RemoveVolume
<1> QED
  BY <1>1, <1>2, ContainersInvariant, PTL DEF Spec
-----------------------------------------------------------------------------
(* Packages. *)

\* What the package page was told is judged in behaviours of that part only.
LEMMA PackagesSteps ==
    ASSUME [Next]_machineVars, part' = "packages"
    PROVE  PackagesNext \/ UNCHANGED <<part, packagesVars>>
<1>1. ASSUME NEW p, On(p) PROVE p = "packages"
  BY <1>1 DEF On
<1>2. CASE UNCHANGED machineVars
  BY <1>2 DEF machineVars
<1> QED
  BY <1>1, <1>2 DEF Next

\* An update that is reported done has installed what was out when it began, though it upgrades
\* only from the local lists: update_system refreshes them first, whichever the manager.
THEOREM UpdatesAreCurrent == Spec => []UpdatedIsCurrent
<1> USE DEF UpdatedIsCurrent, Told, Answer, Refuse, NoReply
<1>1. Init => UpdatedIsCurrent
  BY DEF Init, PackagesInit
<1>2. UpdatedIsCurrent /\ [Next]_machineVars => UpdatedIsCurrent'
  <2> SUFFICES ASSUME UpdatedIsCurrent, part' = "packages",
                      PackagesNext \/ UNCHANGED <<part, packagesVars>>
               PROVE  UpdatedIsCurrent'
    BY PackagesSteps
  <2>1. ASSUME NEW op \in {"install", "remove"}, NEW names \in SUBSET Package, ChangePackages(op, names)
        PROVE  UpdatedIsCurrent'
    BY <2>1 DEF ChangePackages
  <2>2. CASE NewRelease
    BY <2>2 DEF NewRelease
  <2>3. CASE RefreshRepos
    BY <2>3 DEF RefreshRepos
  <2>4. CASE UpdateSystem
    <3>1. CASE manager = "none"
      BY <2>4, <3>1 DEF UpdateSystem
    <3>2. CASE manager # "none"
      <4>1. PICK c \in Chain(2) :
                /\ listsOld' = (listsOld /\ c.done = 0)
                /\ behind' = IF c.done = 2 THEN Upgraded(listsOld') ELSE behind
                /\ reply' = IF c.ok THEN [op |-> "update_system", arg |-> manager] ELSE NoReply
        BY <2>4, <3>2 DEF UpdateSystem
      <4>2. c.ok => c.done = 2 /\ c.done # 0
        BY DEF Chain
      <4>3. c.ok => ~listsOld'
        BY <4>1, <4>2, Zenon
      <4>4. c.ok => behind' = (behind /\ listsOld')
        BY <4>1, <4>2, Zenon DEF Upgraded
      <4>5. c.ok => ~behind'
        BY <4>3, <4>4, Zenon
      <4> QED
        BY <4>1, <4>5
    <3> QED
      BY <3>1, <3>2
  <2>5. CASE CheckUpdates
    <3>1. reply'.op # "update_system"
      BY <2>5 DEF CheckUpdates
    <3> QED
      BY <3>1
  <2>6. ASSUME NEW unneeded \in SUBSET Package, AutoRemove(unneeded) PROVE UpdatedIsCurrent'
    BY <2>6 DEF AutoRemove
  <2>7. CASE UNCHANGED <<part, packagesVars>>
    BY <2>7 DEF packagesVars, packageVars
  <2> QED
    BY <2>1, <2>2, <2>3, <2>4, <2>5, <2>6, <2>7 DEF PackagesNext
<1> QED
  BY <1>1, <1>2, PTL DEF Spec

-----------------------------------------------------------------------------
(* Sections of pacman.conf. *)

\* Every line of pacman.conf stands below the header it was written for: a line that is no header
\* has one of its own section before it.
Sectioned(lines) ==
    \A i \in 1..Len(lines) : ~lines[i].head => i > 1 /\ lines[i - 1].of = lines[i].of

\* The lines of the other sections, and the values the loop of remove_repo passes through.
Others(r) == {l \in Line : l.of # r}
Skips(after, r) ==
    /\ WithoutSection(r) = after[Len(conf)].out
    /\ after[0] = [skip |-> FALSE, out |-> <<>>]
    /\ \A n \in 1..Len(conf) :
        /\ after[n].skip = IF conf[n].head THEN conf[n].of = r ELSE after[n - 1].skip
        /\ after[n].out = IF after[n].skip THEN after[n - 1].out ELSE Append(after[n - 1].out, conf[n])

LEMMA SkipsTurns ==
    ASSUME NEW r \in Repo, conf \in Seq(Line)
    PROVE  \E after : Skips(after, r)
<1> DEFINE N == Len(conf)
           A == [skip : BOOLEAN, out : Seq(Line)]
           start == [skip |-> FALSE, out |-> <<>>]
           skips(acc, l) == IF l.head THEN l.of = r ELSE acc.skip
           turn(acc, l) == [skip |-> skips(acc, l),
                            out |-> IF skips(acc, l) THEN acc.out ELSE Append(acc.out, l)]
           step == [n \in 1..N |-> [acc \in A |-> turn(acc, conf[n])]]
           Is(g) == g = [n \in 0..N |-> IF n = 0 THEN start ELSE turn(g[n - 1], conf[n])]
           after == CHOOSE g : Is(g)
<1>1. N \in Nat /\ start \in A
  OBVIOUS
<1>2. ASSUME NEW n \in 1..N, NEW acc \in A PROVE turn(acc, conf[n]) \in A
  <2>1. conf[n] \in Line
    OBVIOUS
  <2>2. skips(acc, conf[n]) \in BOOLEAN
    BY <2>1 DEF Line
  <2> QED
    BY <2>1, <2>2
<1> HIDE DEF turn
<1>3. step \in [1..N -> [A -> A]]
  BY <1>2
<1> HIDE DEF start
<1>4. IsLoop(N, A, start, step)
  BY <1>1, <1>3 DEF IsLoop
<1>5. PICK g : Passes(g, N, A, start, step)
  <2> HIDE DEF N, A, start, step
  <2> QED
    BY <1>4, Turns
<1>6. Is(g)
  <2>1. ASSUME NEW n \in 0..N PROVE g[n] = IF n = 0 THEN start ELSE turn(g[n - 1], conf[n])
    <3>1. CASE n = 0
      BY <1>5, <3>1 DEF Passes
    <3>2. CASE n # 0
      <4>1. n \in 1..N /\ n - 1 \in 0..N
        BY <1>1, <3>2
      <4>2. g[n - 1] \in A /\ g[n] = step[n][g[n - 1]]
        <5> HIDE DEF A, step, N
        <5> QED
          BY <1>5, <4>1 DEF Passes
      <4>3. step[n][g[n - 1]] = turn(g[n - 1], conf[n])
        <5> HIDE DEF A, N
        <5> QED
          BY <4>1, <4>2
      <4> QED
        BY <3>2, <4>2, <4>3
    <3> QED
      BY <3>1, <3>2
  <2>2. g \in [0..N -> A]
    BY <1>5 DEF Passes
  <2> HIDE DEF A, N
  <2> QED
    BY <2>1, <2>2
<1>7. Is(after)
  <2> HIDE DEF Is
  <2> QED
    BY <1>6
<1>8. WithoutSection(r) = after[N].out
  BY DEF WithoutSection, turn, start
<1> HIDE DEF after
<1>9. after[0] = start /\ \A n \in 1..N : after[n] = turn(after[n - 1], conf[n])
  <2>1. \A n \in 0..N : after[n] = IF n = 0 THEN start ELSE turn(after[n - 1], conf[n])
    BY <1>7
  <2> HIDE DEF N
  <2> QED
    BY <1>1, <2>1
<1>10. ASSUME NEW n \in 1..N
       PROVE  /\ after[n].skip = IF conf[n].head THEN conf[n].of = r ELSE after[n - 1].skip
              /\ after[n].out = IF after[n].skip THEN after[n - 1].out
                                ELSE Append(after[n - 1].out, conf[n])
  <2>1. PICK acc : acc = after[n - 1]
    OBVIOUS
  <2>2. after[n] = turn(acc, conf[n])
    BY <1>9, <2>1
  <2>3. after[n].skip = skips(acc, conf[n])
    BY <2>2 DEF turn
  <2>4. after[n].out = IF skips(acc, conf[n]) THEN acc.out ELSE Append(acc.out, conf[n])
    BY <2>2 DEF turn
  <2> QED
    BY <2>1, <2>3, <2>4
<1> QED
  BY <1>8, <1>9, <1>10 DEF Skips, start

\* remove_repo drops what is not another section's.
LEMMA SectionIsFiltered ==
    ASSUME NEW r \in Repo, conf \in Seq(Line), Sectioned(conf)
    PROVE  WithoutSection(r) = Kept(conf, Others(r))
<1> DEFINE N == Len(conf)
<1>1. PICK after : Skips(after, r)
  BY SkipsTurns
<1>2. PICK stays : Filters(stays, Line, conf, Others(r))
  BY KeptTurns
<1> DEFINE Same(n) == /\ after[n].out = stays[n]
                      /\ after[n].skip <=> n > 0 /\ conf[n].of = r
           Good == {n \in 0..N : Same(n)}
<1>3. N \in Nat
  OBVIOUS
<1>4. 0 \in Good
  BY <1>1, <1>2, <1>3 DEF Skips, Filters
<1>5. ASSUME NEW n \in 1..N, n - 1 \in Good PROVE n \in Good
  <2>1. n \in Nat /\ n \in 0..N /\ conf[n] \in Line /\ Same(n - 1)
    BY <1>3, <1>5
  <2>2. after[n].skip <=> conf[n].of = r
    <3>1. CASE conf[n].head
      BY <1>1, <3>1 DEF Skips
    <3>2. CASE ~conf[n].head
      <4>1. n > 1 /\ conf[n - 1].of = conf[n].of
        BY <1>3, <3>2 DEF Sectioned
      <4>2. after[n].skip = after[n - 1].skip
        BY <1>1, <3>2 DEF Skips
      <4> QED
        BY <2>1, <4>1, <4>2
    <3> QED
      BY <3>1, <3>2
  <2>3. after[n].out = IF after[n].skip THEN stays[n - 1] ELSE Append(stays[n - 1], conf[n])
    BY <1>1, <2>1 DEF Skips
  <2>4. stays[n] = IF conf[n] \in Others(r) THEN Append(stays[n - 1], conf[n]) ELSE stays[n - 1]
    BY <1>2 DEF Filters
  <2>5. conf[n] \in Others(r) <=> conf[n].of # r
    BY <2>1 DEF Others
  <2>6. after[n].out = stays[n]
    BY <2>2, <2>3, <2>4, <2>5
  <2> QED
    BY <2>1, <2>2, <2>6
<1> HIDE DEF Good
<1>6. N \in Good
  <2> HIDE DEF N
  <2>1. 0..N \subseteq Good
    BY <1>3, <1>4, <1>5, UpTo
  <2> QED
    BY <1>3, <2>1
<1> QED
  BY <1>1, <1>2, <1>6 DEF Skips, Filters, Good

\* What is left is in sections still.
LEMMA FilterKeepsSections ==
    ASSUME NEW r \in Repo, NEW lines \in Seq(Line), Sectioned(lines)
    PROVE  Sectioned(Kept(lines, Others(r)))
<1> DEFINE N == Len(lines)
<1>1. PICK stays : Filters(stays, Line, lines, Others(r))
  BY KeptTurns
<1> DEFINE Ends(q, n) == n > 0 /\ lines[n].of # r => Len(q) > 0 /\ q[Len(q)].of = lines[n].of
           Good == {n \in 0..N : Sectioned(stays[n]) /\ Ends(stays[n], n)}
<1>2. N \in Nat
  OBVIOUS
<1>3. 0 \in Good
  BY <1>1, <1>2 DEF Filters, Sectioned
<1>4. ASSUME NEW n \in 1..N, n - 1 \in Good PROVE n \in Good
  <2>1. PICK q : q = stays[n - 1]
    OBVIOUS
  <2>2. PICK p : p = stays[n]
    OBVIOUS
  <2>3. n \in Nat /\ n \in 0..N /\ lines[n] \in Line /\ Sectioned(q) /\ Ends(q, n - 1)
    BY <1>2, <1>4, <2>1
  <2>4. q \in Seq(Line) /\ p = IF lines[n].of # r THEN Append(q, lines[n]) ELSE q
    <3>1. n - 1 \in 0..N /\ (lines[n] \in Others(r) <=> lines[n].of # r)
      BY <1>2, <2>3 DEF Others
    <3>2. stays[n - 1] \in Seq(Line)
      BY <1>1, <3>1 DEF Filters
    <3>3. stays[n] = IF lines[n] \in Others(r) THEN Append(stays[n - 1], lines[n]) ELSE stays[n - 1]
      BY <1>1 DEF Filters
    <3> QED
      BY <2>1, <2>2, <3>1, <3>2, <3>3
  <2>5. CASE lines[n].of = r
    BY <2>2, <2>3, <2>4, <2>5
  <2>6. CASE lines[n].of # r
    <3>1. /\ Len(q) \in Nat /\ Len(p) = Len(q) + 1 /\ p[Len(q) + 1] = lines[n]
          /\ \A i \in 1..Len(q) : p[i] = q[i]
      BY <2>3, <2>4, <2>6
    <3>2. ASSUME NEW i \in 1..Len(p), ~p[i].head PROVE i > 1 /\ p[i - 1].of = p[i].of
      <4>1. CASE i = Len(p)
        <5>1. ~lines[n].head
          BY <3>1, <3>2, <4>1
        <5>2. n > 1 /\ lines[n - 1].of = lines[n].of
          BY <1>2, <5>1 DEF Sectioned
        <5>3. Len(q) > 0 /\ q[Len(q)].of = lines[n].of
          BY <2>3, <2>6, <5>2
        <5> QED
          BY <3>1, <4>1, <5>3
      <4>2. CASE i # Len(p)
        <5>1. i \in 1..Len(q)
          BY <3>1, <4>2
        <5>2. i > 1 /\ q[i - 1].of = q[i].of
          BY <2>3, <3>1, <3>2, <5>1 DEF Sectioned
        <5>3. i - 1 \in 1..Len(q)
          BY <3>1, <5>1, <5>2
        <5> QED
          BY <3>1, <5>1, <5>2, <5>3
      <4> QED
        BY <4>1, <4>2
    <3>3. Sectioned(p) /\ Ends(p, n)
      BY <3>1, <3>2 DEF Sectioned
    <3> QED
      BY <2>2, <2>3, <3>3
  <2> QED
    BY <2>5, <2>6
<1> HIDE DEF Good
<1>5. N \in Good
  <2> HIDE DEF N
  <2>1. 0..N \subseteq Good
    BY <1>2, <1>3, <1>4, UpTo
  <2> QED
    BY <1>2, <2>1
<1> QED
  BY <1>1, <1>5 DEF Filters, Good

\* pacman.conf is in sections: it starts so, add_repo appends whole ones, remove_repo keeps them.
ConfTable == conf \in Seq(Line) /\ Sectioned(conf)

LEMMA ConfSteps ==
    ASSUME [Next]_machineVars
    PROVE  ReposNext \/ UNCHANGED <<conf, dropIn>>
<1>1. ASSUME NEW p, p # "packages", p # "repos", On(p) PROVE UNCHANGED <<conf, dropIn>>
  BY <1>1 DEF On, Leaves
<1>2. PackagesNext => UNCHANGED <<conf, dropIn>>
  BY DEF PackagesNext, ChangePackages, NewRelease, RefreshRepos, UpdateSystem, CheckUpdates, AutoRemove
<1>3. CASE UNCHANGED machineVars
  BY <1>3 DEF machineVars, packagesVars
<1> QED
  BY <1>1, <1>2, <1>3 DEF Next

LEMMA BlockAppended ==
    ASSUME ConfTable, NEW r \in Repo
    PROVE  conf \o Block(r) \in Seq(Line) /\ Sectioned(conf \o Block(r))
<1> DEFINE b == Block(r)
           new == conf \o b
<1>1. b \in Seq(Line) /\ Len(b) = 2 /\ b[1].head /\ b[1].of = r /\ ~b[2].head /\ b[2].of = r
  BY DEF Block, Line
<1> HIDE DEF b
<1>2. /\ new \in Seq(Line) /\ Len(conf) \in Nat /\ Len(new) = Len(conf) + 2
      /\ \A i \in 1..Len(conf) : new[i] = conf[i]
      /\ new[Len(conf) + 1] = b[1] /\ new[Len(conf) + 2] = b[2]
  <2>1. conf \in Seq(Line) /\ new = conf \o b /\ Len(conf) \in Nat
    BY DEF ConfTable
  <2> HIDE DEF new
  <2>2. b \in Seq(Line) /\ Len(b) = 2
    BY <1>1
  <2>3. /\ new \in Seq(Line) /\ Len(new) = Len(conf) + Len(b)
        /\ \A i \in 1..Len(new) : new[i] = IF i <= Len(conf) THEN conf[i] ELSE b[i - Len(conf)]
    BY <2>1, <2>2, Joined
  <2>4. new[Len(conf) + 1] = b[1] /\ new[Len(conf) + 2] = b[2]
    <3>1. /\ Len(conf) + 1 \in 1..Len(new) /\ Len(conf) + 2 \in 1..Len(new)
          /\ Len(conf) + 1 - Len(conf) = 1 /\ Len(conf) + 2 - Len(conf) = 2
          /\ ~(Len(conf) + 1 <= Len(conf)) /\ ~(Len(conf) + 2 <= Len(conf))
      BY <2>1, <2>2, <2>3
    <3> QED
      BY <2>3, <3>1
  <2> QED
    BY <2>1, <2>2, <2>3, <2>4
<1> HIDE DEF new
<1>3. ASSUME NEW i \in 1..Len(new), ~new[i].head PROVE i > 1 /\ new[i - 1].of = new[i].of
  <2>1. CASE i \in 1..Len(conf)
    <3>1. i > 1 /\ conf[i - 1].of = conf[i].of
      BY <1>2, <1>3, <2>1 DEF ConfTable, Sectioned
    <3>2. i - 1 \in 1..Len(conf)
      BY <1>2, <2>1, <3>1
    <3> QED
      BY <1>2, <2>1, <3>1, <3>2
  <2>2. CASE i = Len(conf) + 1
    BY <1>1, <1>2, <1>3, <2>2
  <2>3. CASE i = Len(conf) + 2
    BY <1>1, <1>2, <1>3, <2>3
  <2> QED
    BY <1>2, <2>1, <2>2, <2>3
<1> QED
  BY <1>2, <1>3 DEF Sectioned, new, b

\* What a cut leaves of lines in sections is in sections, for it is their beginning.
LEMMA CutsAreSectioned ==
    ASSUME NEW lines \in Seq(Line), Sectioned(lines), NEW q \in Cuts(lines)
    PROVE  q \in Seq(Line) /\ Sectioned(q) /\ Len(q) <= Len(lines)
<1>1. PICK n \in 0..Len(lines) : q = SubSeq(lines, 1, n)
  BY DEF Cuts
<1>2. q \in Seq(Line) /\ Len(q) = n /\ \A i \in 1..n : q[i] = lines[i]
  BY <1>1
<1>3. Sectioned(q)
  BY <1>1, <1>2 DEF Sectioned
<1> QED
  BY <1>1, <1>2, <1>3

\* An appended block that is cut is still in sections.
LEMMA CutBlockAppended ==
    ASSUME ConfTable, NEW r \in Repo, NEW q \in Cuts(Block(r))
    PROVE  conf \o q \in Cuts(conf \o Block(r))
<1>1. Block(r) \in Seq(Line) /\ conf \in Seq(Line)
  BY DEF Block, Line, ConfTable
<1>2. PICK b \in Seq(Line) : b = Block(r)
  BY <1>1
<1>3. PICK n \in 0..Len(b) : q = SubSeq(b, 1, n)
  BY <1>2 DEF Cuts
<1>4. q \in Seq(Line) /\ Len(q) = n /\ \A i \in 1..n : q[i] = b[i]
  BY <1>2, <1>3
<1>5. PICK whole : whole = conf \o b
  OBVIOUS
<1>6. PICK piece \in Seq(Line) : piece = q /\ Len(piece) = n /\ \A i \in 1..n : piece[i] = b[i]
  BY <1>4
<1>7. PICK longer : longer = conf \o piece
  OBVIOUS
<1>8. /\ whole \in Seq(Line) /\ Len(whole) = Len(conf) + Len(b)
      /\ \A i \in 1..Len(whole) : whole[i] = IF i <= Len(conf) THEN conf[i] ELSE b[i - Len(conf)]
  BY <1>1, <1>2, <1>5, Joined
<1>9. /\ longer \in Seq(Line) /\ Len(longer) = Len(conf) + Len(piece)
      /\ \A i \in 1..Len(longer) : longer[i] = IF i <= Len(conf) THEN conf[i] ELSE piece[i - Len(conf)]
  BY <1>1, <1>6, <1>7, Joined
<1>10. PICK m \in 0..Len(whole) : m = Len(conf) + n
  <2>1. Len(conf) \in Nat /\ Len(b) \in Nat /\ n \in Nat /\ n <= Len(b)
    BY <1>1, <1>2, <1>3
  <2>2. Len(conf) + n \in 0..Len(whole)
    BY <1>8, <2>1
  <2> QED
    BY <2>2
<1>11. PICK head : head = SubSeq(whole, 1, m)
  OBVIOUS
<1>12. head \in Seq(Line) /\ Len(head) = m /\ \A i \in 1..m : head[i] = whole[i]
  BY <1>8, <1>10, <1>11
<1>13. \A i \in 1..m : head[i] = longer[i]
  <2> SUFFICES ASSUME NEW i \in 1..m PROVE whole[i] = longer[i]
    BY <1>12
  <2>1. Len(conf) \in Nat /\ i \in 1..Len(whole) /\ i \in 1..Len(longer)
    BY <1>1, <1>6, <1>8, <1>9, <1>10
  <2>2. CASE i <= Len(conf)
    BY <1>8, <1>9, <2>1, <2>2
  <2>3. CASE ~(i <= Len(conf))
    <3>1. i - Len(conf) \in 1..n
      BY <1>10, <2>1, <2>3
    <3> QED
      BY <1>6, <1>8, <1>9, <2>1, <2>3, <3>1
  <2> QED
    BY <2>2, <2>3
<1>14. Len(longer) = m
  BY <1>6, <1>9, <1>10
<1>15. longer = head
  BY <1>9, <1>12, <1>13, <1>14
<1> QED
  BY <1>2, <1>5, <1>6, <1>10, <1>11, <1>15, <1>7 DEF Cuts

\* What add_repo and remove_repo leave of pacman.conf.
LEMMA ConfAfter ==
    ASSUME ConfTable, NEW r \in Repo, NEW f \in File
    PROVE  /\ AddRepo(r, f) => conf' = conf \/ (manager = "pacman" /\ conf' \in Cuts(conf \o Block(r)))
           /\ RemoveRepo(r, f) =>
                  /\ conf' \in {conf} \cup Cuts(Kept(conf, Others(r)))
                  /\ manager = "pacman" /\ reply'.op = "remove_repo" => conf' = Kept(conf, Others(r))
<1>1. WithoutSection(r) = Kept(conf, Others(r))
  BY SectionIsFiltered DEF ConfTable
<1>2. ASSUME NEW q \in Seq(Line) PROVE q \in Cuts(q)
  <2>1. q = SubSeq(q, 1, Len(q)) /\ Len(q) \in 0..Len(q)
    BY <1>2
  <2> QED
    BY <2>1 DEF Cuts
<1>3. conf \o Block(r) \in Cuts(conf \o Block(r))
  BY <1>2, BlockAppended
<1>4. Kept(conf, Others(r)) \in Cuts(Kept(conf, Others(r)))
  BY <1>2, KeptIs DEF ConfTable
<1>5. ASSUME AddRepo(r, f)
      PROVE  conf' = conf \/ (manager = "pacman" /\ conf' \in Cuts(conf \o Block(r)))
  BY <1>3, <1>5, CutBlockAppended DEF AddRepo, Teed
<1>6. ASSUME RemoveRepo(r, f)
      PROVE  /\ conf' \in {conf} \cup Cuts(Kept(conf, Others(r)))
             /\ manager = "pacman" /\ reply'.op = "remove_repo" => conf' = Kept(conf, Others(r))
  <2>1. CASE manager = "none"
    BY <1>6, <2>1 DEF RemoveRepo
  <2>2. CASE manager # "none"
    <3>1. PICK c \in Chain(1) :
              /\ conf' \in Teed(conf, WithoutSection(r), Cuts(WithoutSection(r)),
                               manager = "pacman", manager = "pacman" /\ c.done = 1)
              /\ Answer("remove_repo", r, c.ok)
      BY <1>6, <2>2 DEF RemoveRepo
    <3>2. conf' \in {conf} \cup Cuts(Kept(conf, Others(r)))
      BY <1>1, <1>4, <3>1 DEF Teed
    <3>3. reply'.op = "remove_repo" => c.done = 1
      BY <3>1 DEF Answer, NoReply, Chain
    <3> QED
      BY <1>1, <3>1, <3>2, <3>3 DEF Teed
  <2> QED
    BY <2>1, <2>2
<1> QED
  BY <1>5, <1>6

LEMMA ConfSectioned == Spec => []ConfTable
<1>1. Init => ConfTable
  <2> SUFFICES ASSUME PackagesInit PROVE ConfTable
    BY DEF Init
  <2> QED
    BY DEF PackagesInit, ConfTable, Sectioned, Line
<1>2. ConfTable /\ [Next]_machineVars => ConfTable'
  <2> SUFFICES ASSUME ConfTable, ReposNext \/ UNCHANGED conf PROVE ConfTable'
    BY ConfSteps
  <2>1. ASSUME NEW r \in Repo, NEW f \in File, AddRepo(r, f) PROVE ConfTable'
    <3>1. conf' = conf \/ conf' \in Cuts(conf \o Block(r))
      BY <2>1, ConfAfter
    <3> QED
      BY <3>1, BlockAppended, CutsAreSectioned DEF ConfTable
  <2>2. ASSUME NEW r \in Repo, NEW f \in File, RemoveRepo(r, f) PROVE ConfTable'
    <3>1. conf' = conf \/ conf' \in Cuts(Kept(conf, Others(r)))
      BY <2>2, ConfAfter
    <3>2. Kept(conf, Others(r)) \in Seq(Line) /\ Sectioned(Kept(conf, Others(r)))
      BY KeptIs, FilterKeepsSections DEF ConfTable
    <3> QED
      BY <3>1, <3>2, CutsAreSectioned DEF ConfTable
  <2>3. CASE UNCHANGED conf
    BY <2>3 DEF ConfTable
  <2> QED
    BY <2>1, <2>2, <2>3 DEF ReposNext
<1> QED
  BY <1>1, <1>2, PTL DEF Spec

\* Removing a repository takes the lines of its sections and, when it is reported done, no other:
\* remove_repo skips from a header up to the next one, and every line is below the header it
\* belongs to, also in a file that an earlier write left cut.
THEOREM SectionsStay == Spec => OtherSectionsStay
<1>1. ConfTable => [\A r \in Repo, f \in File : manager = "pacman" /\ RemoveRepo(r, f) =>
                        LET left == Kept(conf, {l \in Line : l.of # r}) IN
                        /\ conf' \in {conf} \cup Cuts(left)
                        /\ reply'.op = "remove_repo" => conf' = left]_packagesVars
  BY ConfAfter DEF Others
<1> QED
  BY <1>1, ConfSectioned, PTL DEF OtherSectionsStay

-----------------------------------------------------------------------------
(* Certificates. *)

\* The anchor files are a table of the names.
LEMMA AnchorsTyped == Spec => [](anchor \in [CertName -> Content])
<1> USE DEF Content
<1>1. Init => anchor \in [CertName -> Content]
  <2>1. [n \in CertName |-> "none"] \in [CertName -> Material \cup {"none"}]
    OBVIOUS
  <2>2. StartsIn("trust", [CertName -> Material \cup {"none"}]) \subseteq [CertName -> Material \cup {"none"}]
    BY <2>1 DEF StartsIn
  <2> QED
    BY <2>2 DEF Init, CertsInit
<1>2. anchor \in [CertName -> Content] /\ [Next]_machineVars => (anchor \in [CertName -> Content])'
  <2> SUFFICES ASSUME anchor \in [CertName -> Content], TrustNext \/ UNCHANGED trustVars
               PROVE  anchor' \in [CertName -> Content]
    <3>1. ASSUME NEW p, p # "trust", On(p) PROVE UNCHANGED trustVars
      BY <3>1 DEF On, Leaves
    <3>2. CASE UNCHANGED machineVars
      BY <3>2 DEF machineVars, certsVars
    <3> QED
      BY <3>1, <3>2 DEF Next
  <2>1. ASSUME NEW n \in CertName, TrustRemove(n) PROVE anchor' \in [CertName -> Content]
    BY <2>1 DEF TrustRemove
  <2>2. ASSUME NEW n \in CertName, NEW m \in Material, TrustAdd(n, m)
        PROVE  anchor' \in [CertName -> Content]
    BY <2>2 DEF TrustAdd, Pem, Teed
  <2>3. CASE UNCHANGED trustVars
    BY <2>3 DEF trustVars
  <2> QED
    BY <2>1, <2>2, <2>3 DEF TrustNext
<1> QED
  BY <1>1, <1>2, PTL DEF Spec

\* A certificate that is reported added is trusted, and one reported removed has no anchor and, on
\* a distribution the agent knows, is trusted only for another one, though an addition may have
\* left its anchor cut or the store unbuilt: trust_add and trust_remove.
THEOREM TrustIsReported == Spec => []TrustIsAsTold
<1> USE DEF TrustIsAsTold, Told, Answer, Refuse, NoReply, Taken, Content
<1>1. Init => TrustIsAsTold
  BY DEF Init, CertsInit
<1>2. anchor \in [CertName -> Content] /\ TrustIsAsTold /\ [Next]_machineVars => TrustIsAsTold'
  <2> SUFFICES ASSUME anchor \in [CertName -> Content], TrustIsAsTold, part' = "trust",
                      TrustNext \/ UNCHANGED <<part, certsVars>>
               PROVE  TrustIsAsTold'
    <3>1. ASSUME NEW p, On(p), part' = "trust" PROVE p = "trust"
      BY <3>1 DEF On
    <3>2. CASE UNCHANGED machineVars
      BY <3>2 DEF machineVars
    <3> QED
      BY <3>1, <3>2 DEF Next
  <2>1. ASSUME NEW n \in CertName, TrustRemove(n) PROVE TrustIsAsTold'
    BY <2>1 DEF TrustRemove, Chain
  <2>2. ASSUME NEW n \in CertName, NEW m \in Material, TrustAdd(n, m) PROVE TrustIsAsTold'
    BY <2>2 DEF TrustAdd, Chain, Pem, Teed
  <2>3. CASE UNCHANGED <<part, certsVars>>
    BY <2>3 DEF certsVars, trustVars
  <2> QED
    BY <2>1, <2>2, <2>3 DEF TrustNext
<1> QED
  BY <1>1, <1>2, AnchorsTyped, PTL DEF Spec

\* The installed files are tables of the names.
LEMMA PairsTyped == Spec => []({crt, keyOf} \subseteq [CertName -> Content])
<1> USE DEF Content
<1>1. Init => {crt, keyOf} \subseteq [CertName -> Content]
  BY DEF Init, CertsInit
<1>2. {crt, keyOf} \subseteq [CertName -> Content] /\ [Next]_machineVars
        => ({crt, keyOf} \subseteq [CertName -> Content])'
  <2> SUFFICES ASSUME crt \in [CertName -> Content], keyOf \in [CertName -> Content],
                      PairNext \/ UNCHANGED pairVars
               PROVE  crt' \in [CertName -> Content] /\ keyOf' \in [CertName -> Content]
    <3>1. ASSUME NEW p, p # "certs", On(p) PROVE UNCHANGED pairVars
      BY <3>1 DEF On, Leaves
    <3>2. CASE UNCHANGED machineVars
      BY <3>2 DEF machineVars, certsVars
    <3> QED
      BY <3>1, <3>2 DEF Next
  <2>1. ASSUME NEW n \in CertName, NEW m \in Material, NEW k \in Material, CertSave(n, m, k)
        PROVE  crt' \in [CertName -> Content] /\ keyOf' \in [CertName -> Content]
    BY <2>1 DEF CertSave, Pem, Teed
  <2>2. ASSUME NEW n \in CertName, NEW m \in Material, NEW valid \in BOOLEAN, SavePem(n, m, valid)
        PROVE  crt' \in [CertName -> Content] /\ keyOf' \in [CertName -> Content]
    BY <2>2 DEF SavePem, Pem, Teed
  <2>3. CASE UNCHANGED pairVars
    BY <2>3 DEF pairVars
  <2> QED
    BY <2>1, <2>2, <2>3 DEF PairNext
<1> QED
  BY <1>1, <1>2, PTL DEF Spec

\* A pair that is reported saved is whole and its key is root's alone, and an edited file holds
\* what was sent, whatever an earlier write left cut: cert_save and save_pem.
THEOREM PairsAreWhole == Spec => []SavedPairIsWhole
<1> USE DEF SavedPairIsWhole, Told, Answer, Refuse, NoReply
<1>1. Init => SavedPairIsWhole
  BY DEF Init, CertsInit
<1>2. {crt, keyOf} \subseteq [CertName -> Content] /\ SavedPairIsWhole /\ [Next]_machineVars
        => SavedPairIsWhole'
  <2> SUFFICES ASSUME crt \in [CertName -> Content], keyOf \in [CertName -> Content],
                      SavedPairIsWhole, part' = "certs", PairNext \/ UNCHANGED <<part, certsVars>>
               PROVE  SavedPairIsWhole'
    <3>1. ASSUME NEW p, On(p), part' = "certs" PROVE p = "certs"
      BY <3>1 DEF On
    <3>2. CASE UNCHANGED machineVars
      BY <3>2 DEF machineVars
    <3> QED
      BY <3>1, <3>2 DEF Next
  <2>1. ASSUME NEW n \in CertName, NEW m \in Material, NEW k \in Material, CertSave(n, m, k)
        PROVE  SavedPairIsWhole'
    BY <2>1 DEF CertSave, Chain, Pem, Teed
  <2>2. ASSUME NEW n \in CertName, NEW m \in Material, NEW valid \in BOOLEAN, SavePem(n, m, valid)
        PROVE  SavedPairIsWhole'
    BY <2>2 DEF SavePem, Chain, Pem, Teed
  <2>3. CASE UNCHANGED <<part, certsVars>>
    BY <2>3 DEF certsVars, pairVars
  <2> QED
    BY <2>1, <2>2, <2>3 DEF PairNext
<1> QED
  BY <1>1, <1>2, PairsTyped, PTL DEF Spec
=============================================================================
