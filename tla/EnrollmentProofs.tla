-------------------------- MODULE EnrollmentProofs --------------------------
(***************************************************************************)
(* The safety of enrolment for any connections, tokens and administrators' *)
(* calls, however they interleave.                                         *)
(*                                                                         *)
(* The properties look at the file and at served connections only.  To be  *)
(* inductive they need what is on its way there: the copies tasks have     *)
(* read, the keys they are about to write, the hosts approvals have sent.  *)
(***************************************************************************)
EXTENDS Enrollment, TLAPS

Rewriting(t) == phase[t] \in {"load", "save"}
Gives(t) == Rewriting(t) /\ mode[t] \in {"register", "replace"}

\* Some save gave host id the key k.
Given(id, k) == \E e \in written : e.id = id /\ e.key = k

\* An approval under way knows the key and the name it is about.
AsksSomething ==
    \A a \in Approval : phase[a] \in {"byName", "load", "save", "answer"} =>
        ask[a] \in [key : Key, name : Name]

\* A task that rewrites the file knows what to do, and has found the host to do it to.
ModesFit ==
    /\ \A r \in Removal : mode[r] \in {"none", "remove"}
    /\ \A t \in Task : Rewriting(t) => mode[t] # "none"
    /\ \A t \in Task : phase[t] = "save" /\ mode[t] # "register" =>
            \E e \in copy[t] : e.id = target[t]

\* A pending entry is under its handler's own key, and no host was offered to it yet.
PendingIsOwn ==
    /\ PendingHasHandler
    /\ \A k \in Key : pending[k] # None => KeyOf[pending[k]] = k
    /\ \A c \in Conn : offer[c] # None =>
        /\ pending[KeyOf[c]] # c
        /\ phase[c] \in {"waiting", "withdraw", "acking", "acked", "load", "save", "gone"}

\* Every key that may still reach the file or a served connection is admitted.
AdmittedOnTheWay ==
    /\ \A t \in Task : \A e \in copy[t] : e.key \in Admitted
    /\ \A t \in Task : Gives(t) => KeyFor(t) \in Admitted
    /\ \A a \in Approval : phase[a] \in {"byName", "answer"} => ask[a].key \in Admitted
    /\ \A c \in Conn : offer[c] # None => KeyOf[c] \in Admitted

\* Every host that may still be handed to a connection was given its key.
GivenOnTheWay ==
    /\ file \subseteq written
    /\ \A t \in Task : copy[t] \subseteq written
    /\ \A a \in Approval : phase[a] = "answer" => Given(host[a], ask[a].key)
    /\ \A c \in Conn : offer[c] # None => Given(offer[c], KeyOf[c])

Inv ==
    /\ TypeOK /\ AsksSomething /\ ModesFit /\ PendingIsOwn
    /\ KeysAreAdmitted /\ AdmittedOnTheWay
    /\ ServedAsOwnHost /\ GivenOnTheWay

-----------------------------------------------------------------------------

\* The initial state: the file as it is found, and nobody at work.
LEMMA InitInv == Init => Inv
<1> SUFFICES ASSUME Init PROVE Inv
  OBVIOUS
<1> USE EnrollmentAssumption DEF Init, Task, Admin
<1>1. TypeOK
  BY DEF TypeOK, ConnPhase, AdminPhase, Entry
<1>2. AsksSomething /\ ModesFit /\ PendingIsOwn
  BY DEF AsksSomething, ModesFit, PendingIsOwn, PendingHasHandler, Rewriting
<1>3. KeysAreAdmitted /\ AdmittedOnTheWay
  BY DEF KeysAreAdmitted, AdmittedOnTheWay, Admitted, Gives, Rewriting
<1>4. ServedAsOwnHost /\ GivenOnTheWay
  BY DEF ServedAsOwnHost, GivenOnTheWay, Given
<1> QED
  BY <1>1, <1>2, <1>3, <1>4 DEF Inv

\* What a save writes: entries of the copy, but for one that carries the task's key, and
\* that one under the id the task was to write.
LEMMA EditWrites ==
    ASSUME Inv, NEW t \in Task, phase[t] = "save", NEW id \in IdsFor(t)
    PROVE  /\ Edit(t, id) \subseteq Entry
           /\ \A e \in Edit(t, id) : e \in copy[t] \/ (Gives(t) /\ e.key = KeyFor(t))
           /\ Gives(t) => \E e \in Edit(t, id) : e.id = id /\ e.key = KeyFor(t)
<1> USE EnrollmentAssumption DEF Inv, TypeOK, Task, Admin
<1>1. Gives(t) => KeyFor(t) \in Key /\ NameFor(t) \in Name
  BY DEF Gives, KeyFor, NameFor, AsksSomething, ModesFit, Rewriting
<1>2. copy[t] \subseteq Entry /\ mode[t] # "none"
  BY DEF ModesFit, Rewriting
<1>3. CASE mode[t] = "register"
  <2> DEFINE new == [id |-> id, name |-> NameFor(t), key |-> KeyFor(t)]
  <2>1. Edit(t, id) = copy[t] \cup {new}
    BY <1>3 DEF Edit
  <2>2. id \in HostId /\ Gives(t)
    BY <1>3 DEF IdsFor, Gives, Rewriting
  <2>3. new \in Entry /\ new.id = id /\ new.key = KeyFor(t)
    BY <1>1, <2>2 DEF Entry
  <2> HIDE DEF new
  <2> QED
    BY <1>2, <2>1, <2>2, <2>3
<1>4. CASE mode[t] = "replace"
  <2> DEFINE WithItsKey(d) == [d EXCEPT !.key = KeyFor(t)]
  <2>1. PICK e \in copy[t] : e.id = id
    BY <1>4 DEF ModesFit, IdsFor
  <2>2. Edit(t, id) = {IF d.id = id THEN WithItsKey(d) ELSE d : d \in copy[t]}
    BY <1>4 DEF Edit
  <2>3. Gives(t)
    BY <1>4 DEF Gives, Rewriting
  <2>4. \A d \in copy[t] : /\ WithItsKey(d) \in Entry
                           /\ WithItsKey(d).key = KeyFor(t)
                           /\ WithItsKey(d).id = d.id
    BY <1>1, <1>2, <2>3 DEF Entry
  <2> HIDE DEF WithItsKey
  <2>5. Edit(t, id) \subseteq Entry
    BY <1>2, <2>2, <2>4
  <2>6. \A d \in Edit(t, id) : d \in copy[t] \/ d.key = KeyFor(t)
    BY <2>2, <2>4
  <2>7. WithItsKey(e) \in Edit(t, id)
    BY <2>1, <2>2
  <2> QED
    BY <2>1, <2>3, <2>4, <2>5, <2>6, <2>7
<1>5. CASE mode[t] \notin {"register", "replace"}
  BY <1>2, <1>5 DEF Edit, Gives
<1> QED
  BY <1>3, <1>4, <1>5

-----------------------------------------------------------------------------

\* Types are preserved by every step.
LEMMA NextTypeOK == Inv /\ [Next]_vars => TypeOK'
<1> SUFFICES ASSUME Inv, [Next]_vars PROVE TypeOK'
  OBVIOUS
<1> USE EnrollmentAssumption
        DEF Inv, TypeOK, ConnPhase, AdminPhase, Task, Admin, Goes, Plans, Consents, history
<1>1. ASSUME NEW c \in Conn, ConnNext(c) PROVE TypeOK'
  <2>1. CASE Connect(c)
    BY <2>1 DEF Connect
  <2>2. CASE FindByKey(c)
    <3>1. /\ UNCHANGED <<file, uses, pending, offer, mode, target, ask, copy, history>>
          /\ phase' \in [Task -> ConnPhase \cup AdminPhase]
      BY <2>2 DEF FindByKey
    <3>2. host' \in [Task -> HostId \cup {None}]
      BY <2>2 DEF FindByKey, WithKey, Entry
    <3> QED
      BY <3>1, <3>2
  <2>3. CASE FindKnownName(c)
    BY <2>3 DEF FindKnownName, WithName, Entry
  <2>4. CASE FindNewName(c)
    BY <2>4 DEF FindNewName
  <2>5. CASE UseKnownToken(c)
    BY <2>5 DEF UseKnownToken
  <2>6. CASE UseNewToken(c)
    BY <2>6 DEF UseNewToken
  <2>7. CASE InsertPending(c)
    BY <2>7 DEF InsertPending
  <2>8. CASE TakeApproval(c)
    BY <2>8 DEF TakeApproval
  <2>9. CASE GiveUp(c)
    BY <2>9 DEF GiveUp
  <2>10. CASE Withdraw(c)
    BY <2>10 DEF Withdraw
  <2>11. CASE Ack(c)
    BY <2>11 DEF Ack
  <2>12. CASE Leave(c)
    BY <2>12 DEF Leave
  <2> QED
    BY <1>1, <2>1, <2>2, <2>3, <2>4, <2>5, <2>6, <2>7, <2>8, <2>9, <2>10, <2>11, <2>12
    DEF ConnNext
<1>2. ASSUME NEW t \in Task, LoadFile(t) PROVE TypeOK'
  BY <1>2 DEF LoadFile
<1>3. ASSUME NEW t \in Task, SaveFile(t) PROVE TypeOK'
  <2>1. PICK id \in IdsFor(t) : file' = Edit(t, id) /\ host' = [host EXCEPT ![t] = id]
    BY <1>3 DEF SaveFile
  <2>2. file' \subseteq Entry
    BY <1>3, <2>1, EditWrites DEF SaveFile
  <2> QED
    BY <1>3, <2>1, <2>2 DEF SaveFile, Finishes, IdsFor
<1>4. ASSUME NEW a \in Approval, NEW k \in Key, ApproveFinds(a, k) PROVE TypeOK'
  BY <1>4 DEF ApproveFinds
<1>5. ASSUME NEW a \in Approval, ApproveByName(a) PROVE TypeOK'
  <2>1. /\ UNCHANGED <<file, uses, pending, offer, ask, copy, host, history>>
        /\ \E m \in {"register", "replace"}, id \in HostId \cup {None} : Plans(a, m, id)
    BY <1>5 DEF ApproveByName, WithName, Entry
  <2> QED
    BY <2>1
<1>6. ASSUME NEW a \in Approval, ApproveAnswers(a) PROVE TypeOK'
  BY <1>6 DEF ApproveAnswers
<1>7. ASSUME NEW r \in Removal, NEW id \in HostId, Remove(r, id) PROVE TypeOK'
  BY <1>7 DEF Remove
<1>8. ASSUME NEW t \in Token, TokenEnds(t) PROVE TypeOK'
  BY <1>8 DEF TokenEnds
<1>9. ASSUME UNCHANGED vars PROVE TypeOK'
  BY <1>9 DEF vars
<1> QED
  BY <1>1, <1>2, <1>3, <1>4, <1>5, <1>6, <1>7, <1>8, <1>9 DEF Next, AdminNext

\* An approval knows what it asks for, and a task that rewrites the file knows how.
LEMMA NextModesFit == Inv /\ [Next]_vars => AsksSomething' /\ ModesFit'
<1> SUFFICES ASSUME Inv, [Next]_vars PROVE AsksSomething' /\ ModesFit'
  OBVIOUS
<1> USE EnrollmentAssumption
        DEF Inv, TypeOK, Task, Admin, Goes, Plans, Consents, history,
            AsksSomething, ModesFit, Rewriting
<1>1. ASSUME NEW c \in Conn, ConnNext(c) PROVE AsksSomething' /\ ModesFit'
  <2>1. CASE Connect(c)
    BY <2>1 DEF Connect
  <2>2. CASE FindByKey(c)
    BY <2>2 DEF FindByKey
  <2>3. CASE FindKnownName(c)
    BY <2>3 DEF FindKnownName
  <2>4. CASE FindNewName(c)
    BY <2>4 DEF FindNewName
  <2>5. CASE UseKnownToken(c)
    BY <2>5 DEF UseKnownToken
  <2>6. CASE UseNewToken(c)
    BY <2>6, SMTT(30) DEF UseNewToken
  <2>7. CASE InsertPending(c)
    BY <2>7 DEF InsertPending
  <2>8. CASE TakeApproval(c)
    BY <2>8 DEF TakeApproval
  <2>9. CASE GiveUp(c)
    BY <2>9 DEF GiveUp
  <2>10. CASE Withdraw(c)
    BY <2>10 DEF Withdraw
  <2>11. CASE Ack(c)
    BY <2>11 DEF Ack
  <2>12. CASE Leave(c)
    BY <2>12 DEF Leave
  <2> QED
    BY <1>1, <2>1, <2>2, <2>3, <2>4, <2>5, <2>6, <2>7, <2>8, <2>9,
       <2>10, <2>11, <2>12 DEF ConnNext
<1>2. ASSUME NEW t \in Task, LoadFile(t) PROVE AsksSomething' /\ ModesFit'
  BY <1>2 DEF LoadFile
<1>3. ASSUME NEW t \in Task, SaveFile(t) PROVE AsksSomething' /\ ModesFit'
  BY <1>3 DEF SaveFile, Finishes
<1>4. ASSUME NEW a \in Approval, NEW k \in Key, ApproveFinds(a, k) PROVE AsksSomething' /\ ModesFit'
  BY <1>4 DEF ApproveFinds
<1>5. ASSUME NEW a \in Approval, ApproveByName(a) PROVE AsksSomething' /\ ModesFit'
  <2>1. CASE Plans(a, "register", None)
    BY <1>5, <2>1 DEF ApproveByName
  <2>2. CASE \E e \in WithName(ask[a].name) : Plans(a, "replace", e.id)
    BY <1>5, <2>2 DEF ApproveByName
  <2> QED
    BY <1>5, <2>1, <2>2 DEF ApproveByName
<1>6. ASSUME NEW a \in Approval, ApproveAnswers(a) PROVE AsksSomething' /\ ModesFit'
  BY <1>6 DEF ApproveAnswers
<1>7. ASSUME NEW r \in Removal, NEW id \in HostId, Remove(r, id) PROVE AsksSomething' /\ ModesFit'
  BY <1>7 DEF Remove
<1>8. ASSUME NEW t \in Token, TokenEnds(t) PROVE AsksSomething' /\ ModesFit'
  BY <1>8 DEF TokenEnds
<1>9. ASSUME UNCHANGED vars PROVE AsksSomething' /\ ModesFit'
  BY <1>9 DEF vars
<1> QED
  BY <1>1, <1>2, <1>3, <1>4, <1>5, <1>6, <1>7, <1>8,
     <1>9 DEF Next, AdminNext

\* Only InsertPending adds a pending entry, for a handler that then waits; one that stops
\* waiting has been taken out or takes itself out.
LEMMA NextPendingIsOwn == Inv /\ [Next]_vars => PendingIsOwn'
<1> SUFFICES ASSUME Inv, [Next]_vars PROVE PendingIsOwn'
  OBVIOUS
<1> USE EnrollmentAssumption
        DEF Inv, TypeOK, Task, Admin, Goes, Plans, Consents, history,
            PendingIsOwn, PendingHasHandler
<1>1. ASSUME NEW c \in Conn, ConnNext(c) PROVE PendingIsOwn'
  <2>1. CASE Connect(c)
    BY <2>1 DEF Connect
  <2>2. CASE FindByKey(c)
    <3>1. PICK p \in {"byName", "acking"} : phase' = [phase EXCEPT ![c] = p]
      BY <2>2 DEF FindByKey
    <3>2. phase[c] = "byKey" /\ UNCHANGED <<pending, offer>>
      BY <2>2 DEF FindByKey
    <3> QED
      BY <3>1, <3>2
  <2>3. CASE FindKnownName(c)
    BY <2>3 DEF FindKnownName
  <2>4. CASE FindNewName(c)
    BY <2>4 DEF FindNewName
  <2>5. CASE UseKnownToken(c)
    BY <2>5 DEF UseKnownToken
  <2>6. CASE UseNewToken(c)
    BY <2>6, SMTT(30) DEF UseNewToken
  <2>7. CASE InsertPending(c)
    <3>1. CASE phase' = [phase EXCEPT ![c] = "gone"] /\ UNCHANGED pending
      BY <2>7, <3>1 DEF InsertPending
    <3>2. CASE /\ phase' = [phase EXCEPT ![c] = "waiting"]
               /\ pending' = [pending EXCEPT ![KeyOf[c]] = c]
      BY <2>7, <3>2 DEF InsertPending
    <3> QED
      BY <2>7, <3>1, <3>2 DEF InsertPending
  <2>8. CASE TakeApproval(c)
    BY <2>8 DEF TakeApproval
  <2>9. CASE GiveUp(c)
    BY <2>9 DEF GiveUp
  <2>10. CASE Withdraw(c)
    BY <2>10 DEF Withdraw
  <2>11. CASE Ack(c)
    BY <2>11 DEF Ack
  <2>12. CASE Leave(c)
    BY <2>12 DEF Leave
  <2> QED
    BY <1>1, <2>1, <2>2, <2>3, <2>4, <2>5, <2>6, <2>7, <2>8, <2>9,
       <2>10, <2>11, <2>12 DEF ConnNext
<1>2. ASSUME NEW t \in Task, LoadFile(t) PROVE PendingIsOwn'
  BY <1>2, SMTT(30) DEF LoadFile
<1>3. ASSUME NEW t \in Task, SaveFile(t) PROVE PendingIsOwn'
  BY <1>3 DEF SaveFile, Finishes
<1>4. ASSUME NEW a \in Approval, NEW k \in Key, ApproveFinds(a, k) PROVE PendingIsOwn'
  BY <1>4 DEF ApproveFinds
<1>5. ASSUME NEW a \in Approval, ApproveByName(a) PROVE PendingIsOwn'
  BY <1>5 DEF ApproveByName, WithName
<1>6. ASSUME NEW a \in Approval, ApproveAnswers(a) PROVE PendingIsOwn'
  <2> DEFINE k == ask[a].key
             c == pending[k]
             told == c # None /\ phase[c] = "waiting"
  <2>1. k \in Key /\ a \notin Conn
    BY <1>6 DEF ApproveAnswers, AsksSomething
  <2>2. c # None => c \in Conn /\ KeyOf[c] = k
    BY <2>1 DEF PendingIsOwn
  <2>3. /\ pending' = [pending EXCEPT ![k] = None]
        /\ offer' = IF told THEN [offer EXCEPT ![c] = host[a]] ELSE offer
        /\ phase' = [phase EXCEPT ![a] = IF told THEN "approved" ELSE "notFound"]
        /\ phase[a] = "answer"
        /\ UNCHANGED <<file, mode, ask, copy, host, history>>
    BY <1>6 DEF ApproveAnswers
  <2> HIDE DEF k, c, told
  <2>4. PendingHasHandler'
    BY <2>1, <2>2, <2>3
  <2>5. \A j \in Key : pending'[j] # None => KeyOf[pending'[j]] = j
    BY <2>1, <2>3
  <2>6. ASSUME NEW d \in Conn, offer'[d] # None
        PROVE  /\ pending'[KeyOf[d]] # d
               /\ phase'[d] \in {"waiting", "withdraw", "acking", "acked", "load", "save", "gone"}
    <3>1. CASE told /\ d = c
      BY <2>1, <2>2, <2>3, <3>1 DEF told
    <3>2. CASE ~(told /\ d = c)
      <4>1. offer[d] # None
        BY <2>2, <2>3, <2>6, <3>2
      <4> QED
        BY <2>1, <2>3, <4>1
    <3> QED
      BY <3>1, <3>2
  <2> QED
    BY <2>4, <2>5, <2>6
<1>7. ASSUME NEW r \in Removal, NEW id \in HostId, Remove(r, id) PROVE PendingIsOwn'
  BY <1>7 DEF Remove
<1>8. ASSUME NEW t \in Token, TokenEnds(t) PROVE PendingIsOwn'
  BY <1>8 DEF TokenEnds
<1>9. ASSUME UNCHANGED vars PROVE PendingIsOwn'
  BY <1>9 DEF vars
<1> QED
  BY <1>1, <1>2, <1>3, <1>4, <1>5, <1>6, <1>7, <1>8,
     <1>9 DEF Next, AdminNext

\* A key gets on its way to the file by consent, and from there it only moves.
LEMMA NextAdmitted == Inv /\ [Next]_vars => (KeysAreAdmitted /\ AdmittedOnTheWay)'
<1> SUFFICES ASSUME Inv, [Next]_vars PROVE (KeysAreAdmitted /\ AdmittedOnTheWay)'
  OBVIOUS
<1> USE EnrollmentAssumption
        DEF Inv, TypeOK, Task, Admin, Goes, Plans, Consents, history, Admitted,
            KeysAreAdmitted, AdmittedOnTheWay, Gives, Rewriting, KeyFor
<1>1. ASSUME NEW c \in Conn, ConnNext(c) PROVE (KeysAreAdmitted /\ AdmittedOnTheWay)'
  <2>1. CASE Connect(c)
    BY <2>1 DEF Connect
  <2>2. CASE FindByKey(c)
    <3>1. CASE phase' = [phase EXCEPT ![c] = "byName"]
      BY <2>2, <3>1 DEF FindByKey
    <3>2. CASE /\ phase' = [phase EXCEPT ![c] = "acking"]
               /\ \E e \in file : e.key = KeyOf[c]
      BY <2>2, <3>2 DEF FindByKey
    <3> QED
      BY <2>2, <3>1, <3>2 DEF FindByKey, WithKey
  <2>3. CASE FindKnownName(c)
    BY <2>3 DEF FindKnownName
  <2>4. CASE FindNewName(c)
    <3>1. CASE phase' = [phase EXCEPT ![c] = "newToken"] /\ UNCHANGED <<mode, target, consent>>
      BY <2>4, <3>1 DEF FindNewName
    <3>2. CASE Plans(c, "register", None) /\ Consents(KeyOf[c])
      BY <2>4, <3>2 DEF FindNewName
    <3>3. CASE phase' = [phase EXCEPT ![c] = "insert"] /\ UNCHANGED <<mode, target, consent>>
      BY <2>4, <3>3 DEF FindNewName
    <3> QED
      BY <2>4, <3>1, <3>2, <3>3 DEF FindNewName
  <2>5. CASE UseKnownToken(c)
    <3>1. CASE Plans(c, "replace", target[c]) /\ Consents(KeyOf[c])
      BY <2>5, <3>1 DEF UseKnownToken
    <3>2. CASE phase' = [phase EXCEPT ![c] = "gone"] /\ UNCHANGED <<mode, target, consent>>
      BY <2>5, <3>2 DEF UseKnownToken
    <3> QED
      BY <2>5, <3>1, <3>2 DEF UseKnownToken
  <2>6. CASE UseNewToken(c)
    <3>1. CASE Plans(c, "register", None) /\ Consents(KeyOf[c])
      BY <2>6, <3>1 DEF UseNewToken
    <3>2. CASE phase' = [phase EXCEPT ![c] = "insert"] /\ UNCHANGED <<mode, target, consent>>
      BY <2>6, <3>2 DEF UseNewToken
    <3> QED
      BY <2>6, <3>1, <3>2 DEF UseNewToken
  <2>7. CASE InsertPending(c)
    <3>1. PICK p \in {"gone", "waiting"} : phase' = [phase EXCEPT ![c] = p]
      BY <2>7 DEF InsertPending
    <3>2. UNCHANGED <<file, offer, mode, ask, copy, consent>>
      BY <2>7 DEF InsertPending
    <3> QED
      BY <3>1, <3>2
  <2>8. CASE TakeApproval(c)
    BY <2>8 DEF TakeApproval
  <2>9. CASE GiveUp(c)
    BY <2>9 DEF GiveUp
  <2>10. CASE Withdraw(c)
    BY <2>10 DEF Withdraw
  <2>11. CASE Ack(c)
    <3>1. PICK p \in {"acked", "gone"} : phase' = [phase EXCEPT ![c] = p]
      BY <2>11 DEF Ack
    <3>2. phase[c] = "acking" /\ UNCHANGED <<file, offer, mode, ask, copy, consent>>
      BY <2>11 DEF Ack
    <3> QED
      BY <3>1, <3>2
  <2>12. CASE Leave(c)
    BY <2>12 DEF Leave
  <2> QED
    BY <1>1, <2>1, <2>2, <2>3, <2>4, <2>5, <2>6, <2>7, <2>8, <2>9,
       <2>10, <2>11, <2>12 DEF ConnNext
<1>2. ASSUME NEW t \in Task, LoadFile(t) PROVE (KeysAreAdmitted /\ AdmittedOnTheWay)'
  <2>1. /\ phase[t] = "load"
        /\ copy' = [copy EXCEPT ![t] = file]
        /\ UNCHANGED <<file, offer, mode, ask, consent>>
    BY <1>2 DEF LoadFile
  <2>2. PICK p \in {"save", "gone", "done"} : phase' = [phase EXCEPT ![t] = p]
    BY <1>2 DEF LoadFile
  <2> QED
    BY <2>1, <2>2
<1>3. ASSUME NEW t \in Task, SaveFile(t) PROVE (KeysAreAdmitted /\ AdmittedOnTheWay)'
  <2>1. PICK id \in IdsFor(t) : file' = Edit(t, id)
    BY <1>3 DEF SaveFile
  <2>2. phase[t] = "save"
    BY <1>3 DEF SaveFile
  <2>3. \A e \in file' : e \in copy[t] \/ (Gives(t) /\ e.key = KeyFor(t))
    BY <2>1, <2>2, EditWrites
  <2>4. \A e \in file' : e.key \in Admitted
    BY <2>3
  <2>5. t \in Conn /\ mode[t] \in {"register", "replace"} => KeyOf[t] \in Admitted
    BY <2>2
  <2>6. t \notin Conn /\ mode[t] \in {"register", "replace"} => ask[t].key \in Admitted
    BY <2>2
  <2>7. /\ copy' = [copy EXCEPT ![t] = {}]
        /\ mode' = [mode EXCEPT ![t] = "none"]
        /\ phase' = [phase EXCEPT ![t] = IF mode[t] \in {"register", "replace"}
                THEN IF t \in Conn THEN "acking" ELSE "answer"
                ELSE IF t \in Conn THEN "gone" ELSE "done"]
        /\ UNCHANGED <<offer, ask, consent>>
    BY <1>3 DEF SaveFile, Finishes
  <2>8. KeysAreAdmitted'
    BY <2>4, <2>5, <2>7
  <2> QED
    BY <2>2, <2>5, <2>6, <2>7, <2>8
<1>4. ASSUME NEW a \in Approval, NEW k \in Key, ApproveFinds(a, k) PROVE (KeysAreAdmitted /\ AdmittedOnTheWay)'
  BY <1>4 DEF ApproveFinds
<1>5. ASSUME NEW a \in Approval, ApproveByName(a) PROVE (KeysAreAdmitted /\ AdmittedOnTheWay)'
  <2>1. a \notin Conn /\ ask[a].key \in Admitted
    BY <1>5 DEF ApproveByName
  <2>2. PICK m \in {"register", "replace"}, id \in HostId \cup {None} : Plans(a, m, id)
    BY <1>5 DEF ApproveByName, WithName, Entry
  <2> QED
    BY <1>5, <2>1, <2>2 DEF ApproveByName
<1>6. ASSUME NEW a \in Approval, ApproveAnswers(a) PROVE (KeysAreAdmitted /\ AdmittedOnTheWay)'
  <2> DEFINE k == ask[a].key
             c == pending[k]
             told == c # None /\ phase[c] = "waiting"
  <2>1. k \in Key /\ a \notin Conn
    BY <1>6 DEF ApproveAnswers, AsksSomething
  <2>2. c # None => c \in Conn /\ KeyOf[c] = k
    BY <2>1 DEF PendingIsOwn
  <2>3. /\ pending' = [pending EXCEPT ![k] = None]
        /\ offer' = IF told THEN [offer EXCEPT ![c] = host[a]] ELSE offer
        /\ phase' = [phase EXCEPT ![a] = IF told THEN "approved" ELSE "notFound"]
        /\ phase[a] = "answer"
        /\ UNCHANGED <<file, mode, ask, copy, host, history>>
    BY <1>6 DEF ApproveAnswers
  <2>4. k \in Admitted
    BY <2>3
  <2> HIDE DEF k, c, told
  <2>5. \A d \in Conn : offer'[d] # None => KeyOf[d] \in Admitted
    BY <2>1, <2>2, <2>3, <2>4 DEF told
  <2>6. \A t \in Task : t # a => phase'[t] = phase[t]
    BY <2>3
  <2>7. phase'[a] \in {"approved", "notFound"}
    BY <2>1, <2>3
  <2> QED
    BY <2>1, <2>3, <2>5, <2>6, <2>7
<1>7. ASSUME NEW r \in Removal, NEW id \in HostId, Remove(r, id) PROVE (KeysAreAdmitted /\ AdmittedOnTheWay)'
  BY <1>7 DEF Remove
<1>8. ASSUME NEW t \in Token, TokenEnds(t) PROVE (KeysAreAdmitted /\ AdmittedOnTheWay)'
  BY <1>8 DEF TokenEnds
<1>9. ASSUME UNCHANGED vars PROVE (KeysAreAdmitted /\ AdmittedOnTheWay)'
  BY <1>9 DEF vars
<1> QED
  BY <1>1, <1>2, <1>3, <1>4, <1>5, <1>6, <1>7, <1>8,
     <1>9 DEF Next, AdminNext

\* A host is handed over only once a save has given it the key.
LEMMA NextGiven == Inv /\ [Next]_vars => (ServedAsOwnHost /\ GivenOnTheWay)'
<1> SUFFICES ASSUME Inv, [Next]_vars PROVE (ServedAsOwnHost /\ GivenOnTheWay)'
  OBVIOUS
<1> USE EnrollmentAssumption
        DEF Inv, TypeOK, Task, Admin, Goes, Plans, Consents, history, Given,
            ServedAsOwnHost, GivenOnTheWay
<1>1. ASSUME NEW c \in Conn, ConnNext(c) PROVE (ServedAsOwnHost /\ GivenOnTheWay)'
  <2>1. CASE Connect(c)
    BY <2>1 DEF Connect
  <2>2. CASE FindByKey(c)
    BY <2>2 DEF FindByKey, WithKey
  <2>3. CASE FindKnownName(c)
    BY <2>3 DEF FindKnownName
  <2>4. CASE FindNewName(c)
    BY <2>4 DEF FindNewName
  <2>5. CASE UseKnownToken(c)
    BY <2>5 DEF UseKnownToken
  <2>6. CASE UseNewToken(c)
    BY <2>6 DEF UseNewToken
  <2>7. CASE InsertPending(c)
    BY <2>7 DEF InsertPending
  <2>8. CASE TakeApproval(c)
    BY <2>8, SMTT(30) DEF TakeApproval
  <2>9. CASE GiveUp(c)
    BY <2>9 DEF GiveUp
  <2>10. CASE Withdraw(c)
    BY <2>10 DEF Withdraw
  <2>11. CASE Ack(c)
    BY <2>11 DEF Ack
  <2>12. CASE Leave(c)
    BY <2>12 DEF Leave
  <2> QED
    BY <1>1, <2>1, <2>2, <2>3, <2>4, <2>5, <2>6, <2>7, <2>8, <2>9,
       <2>10, <2>11, <2>12 DEF ConnNext
<1>2. ASSUME NEW t \in Task, LoadFile(t) PROVE (ServedAsOwnHost /\ GivenOnTheWay)'
  BY <1>2 DEF LoadFile
<1>3. ASSUME NEW t \in Task, SaveFile(t) PROVE (ServedAsOwnHost /\ GivenOnTheWay)'
  <2>1. PICK id \in IdsFor(t) : file' = Edit(t, id) /\ host' = [host EXCEPT ![t] = id]
    BY <1>3 DEF SaveFile
  <2>2. phase[t] = "save" /\ written' = written \cup file'
    BY <1>3 DEF SaveFile
  <2> DEFINE Now(i, k) == \E e \in written' : e.id = i /\ e.key = k
  <2>3. mode[t] \in {"register", "replace"} => Now(id, KeyFor(t))
    BY <2>1, <2>2, EditWrites DEF Gives, Rewriting
  <2>4. \A i, k : Given(i, k) => Now(i, k)
    BY <2>2
  <2>5. /\ copy' = [copy EXCEPT ![t] = {}]
        /\ phase' = [phase EXCEPT ![t] = IF mode[t] \in {"register", "replace"}
                THEN IF t \in Conn THEN "acking" ELSE "answer"
                ELSE IF t \in Conn THEN "gone" ELSE "done"]
        /\ UNCHANGED <<offer, ask>>
    BY <1>3 DEF SaveFile, Finishes
  <2> HIDE DEF Now
  <2>6. ASSUME NEW c \in Conn, phase'[c] \in {"acking", "acked"} PROVE Now(host'[c], KeyOf[c])
    <3>1. CASE c = t
      BY <2>1, <2>3, <2>5, <2>6, <3>1 DEF KeyFor
    <3>2. CASE c # t
      BY <2>1, <2>4, <2>5, <2>6, <3>2
    <3> QED
      BY <3>1, <3>2
  <2>7. ASSUME NEW a \in Approval, phase'[a] = "answer" PROVE Now(host'[a], ask'[a].key)
    <3>1. CASE a = t
      BY <2>1, <2>3, <2>5, <2>7, <3>1 DEF KeyFor
    <3>2. CASE a # t
      BY <2>1, <2>4, <2>5, <2>7, <3>2
    <3> QED
      BY <3>1, <3>2
  <2>8. \A c \in Conn : offer'[c] # None => Now(offer'[c], KeyOf[c])
    BY <2>4, <2>5
  <2>9. file' \subseteq written' /\ \A u \in Task : copy'[u] \subseteq written'
    BY <2>2, <2>5
  <2> QED
    BY <2>6, <2>7, <2>8, <2>9 DEF Now
<1>4. ASSUME NEW a \in Approval, NEW k \in Key, ApproveFinds(a, k) PROVE (ServedAsOwnHost /\ GivenOnTheWay)'
  BY <1>4 DEF ApproveFinds
<1>5. ASSUME NEW a \in Approval, ApproveByName(a) PROVE (ServedAsOwnHost /\ GivenOnTheWay)'
  BY <1>5 DEF ApproveByName, WithName
<1>6. ASSUME NEW a \in Approval, ApproveAnswers(a) PROVE (ServedAsOwnHost /\ GivenOnTheWay)'
  <2> DEFINE k == ask[a].key
             c == pending[k]
             told == c # None /\ phase[c] = "waiting"
  <2>1. k \in Key /\ a \notin Conn
    BY <1>6 DEF ApproveAnswers, AsksSomething
  <2>2. c # None => c \in Conn /\ KeyOf[c] = k
    BY <2>1 DEF PendingIsOwn
  <2>3. /\ pending' = [pending EXCEPT ![k] = None]
        /\ offer' = IF told THEN [offer EXCEPT ![c] = host[a]] ELSE offer
        /\ phase' = [phase EXCEPT ![a] = IF told THEN "approved" ELSE "notFound"]
        /\ phase[a] = "answer"
        /\ UNCHANGED <<file, mode, ask, copy, host, history>>
    BY <1>6 DEF ApproveAnswers
  <2>4. Given(host[a], k)
    BY <2>3
  <2> DEFINE Now(i, j) == \E e \in written' : e.id = i /\ e.key = j
  <2>5. \A i, j : Given(i, j) => Now(i, j)
    BY <2>3
  <2> HIDE DEF k, c, told, Now
  <2>6. ASSUME NEW d \in Conn, offer'[d] # None PROVE Now(offer'[d], KeyOf[d])
    <3>1. CASE told /\ d = c
      BY <2>2, <2>3, <2>4, <2>5, <3>1 DEF told
    <3>2. CASE ~(told /\ d = c)
      <4>1. offer'[d] = offer[d]
        BY <2>2, <2>3, <3>2
      <4> QED
        BY <2>5, <2>6, <4>1
    <3> QED
      BY <3>1, <3>2
  <2>7. \A t \in Task : t # a => phase'[t] = phase[t]
    BY <2>3
  <2>8. phase'[a] \in {"approved", "notFound"}
    BY <2>1, <2>3
  <2>9. ServedAsOwnHost'
    BY <2>1, <2>3, <2>7
  <2> QED
    BY <2>1, <2>3, <2>6, <2>7, <2>8, <2>9 DEF Now
<1>7. ASSUME NEW r \in Removal, NEW id \in HostId, Remove(r, id) PROVE (ServedAsOwnHost /\ GivenOnTheWay)'
  BY <1>7 DEF Remove
<1>8. ASSUME NEW t \in Token, TokenEnds(t) PROVE (ServedAsOwnHost /\ GivenOnTheWay)'
  BY <1>8 DEF TokenEnds
<1>9. ASSUME UNCHANGED vars PROVE (ServedAsOwnHost /\ GivenOnTheWay)'
  BY <1>9 DEF vars
<1> QED
  BY <1>1, <1>2, <1>3, <1>4, <1>5, <1>6, <1>7, <1>8,
     <1>9 DEF Next, AdminNext

-----------------------------------------------------------------------------

\* The inductive invariant holds in every reachable state.
THEOREM Invariance == Spec => []Inv
<1>1. Inv /\ [Next]_vars => Inv'
  BY NextTypeOK, NextModesFit, NextPendingIsOwn, NextAdmitted, NextGiven DEF Inv
<1> QED
  BY InitInv, <1>1, PTL DEF Spec

\* Every variable keeps its type.
THEOREM TypeCorrect == Spec => []TypeOK
<1>1. Inv => TypeOK
  BY DEF Inv
<1> QED
  BY Invariance, <1>1, PTL

\* No key reaches hosts.json or a served connection without consent, whatever updates of
\* the file are lost.
THEOREM OnlyAdmittedKeys == Spec => []KeysAreAdmitted
<1>1. Inv => KeysAreAdmitted
  BY DEF Inv
<1> QED
  BY Invariance, <1>1, PTL

\* A connection is served only as a host that was given its key.
THEOREM OnlyOwnHost == Spec => []ServedAsOwnHost
<1>1. Inv => ServedAsOwnHost
  BY DEF Inv
<1> QED
  BY Invariance, <1>1, PTL

\* A pending entry always has a handler that will answer for it.
THEOREM NoOrphanPending == Spec => []PendingHasHandler
<1>1. Inv => PendingHasHandler
  BY DEF Inv, PendingIsOwn
<1> QED
  BY Invariance, <1>1, PTL
=============================================================================
