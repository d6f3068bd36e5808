--------------------------- MODULE SessionsProofs ---------------------------
(***************************************************************************)
(* The session store's safety for any sessions, sockets and periods.       *)
(* ExpiredIsReaped is not inductive: a session's age says nothing of how   *)
(* near the next pass of the reaper is.  DueBeforeReap adds the two.       *)
(***************************************************************************)
EXTENDS Sessions, TLAPS

\* What a session will be at the reaper's next pass is within the limit and one period.
DueBeforeReap ==
    \A s \in store :
        /\ age[s] + reapIn <= MaxLifetime + ReapPeriod
        /\ idle[s] + reapIn <= IdleTimeout + ReapPeriod

Inv == TypeOK /\ DueBeforeReap

-----------------------------------------------------------------------------

\* The initial state: an empty store, the reaper about to run.
LEMMA InitInv == Init => Inv
BY SessionAssumption, TimeAssumption
DEF Init, Inv, TypeOK, DueBeforeReap, SocketPhase, Serving

\* Types are preserved by every step.
LEMMA NextTypeOK == TypeOK /\ [Next]_vars => TypeOK'
<1> SUFFICES ASSUME TypeOK, [Next]_vars PROVE TypeOK'
  OBVIOUS
<1> USE SessionAssumption, TimeAssumption
        DEF TypeOK, SocketPhase, Serving, storeVars, socketVars
<1>1. ASSUME NEW s \in Session, Login(s) PROVE TypeOK'
  BY <1>1 DEF Login
<1>2. ASSUME NEW s \in Session, RestAccepted(s) PROVE TypeOK'
  BY <1>2 DEF RestAccepted, Accepts
<1>3. ASSUME NEW s \in Session, RestRejected(s) PROVE TypeOK'
  BY <1>3 DEF RestRejected, Rejects
<1>4. ASSUME NEW s \in Session, Logout(s) PROVE TypeOK'
  BY <1>4 DEF Logout
<1>5. ASSUME NEW w \in Socket, NEW s \in Session, SocketAuthenticates(w, s) PROVE TypeOK'
  BY <1>5 DEF SocketAuthenticates, Accepts
<1>6. ASSUME NEW w \in Socket, NEW s \in Session, SocketRefused(w, s) PROVE TypeOK'
  BY <1>6 DEF SocketRefused, Rejects
<1>7. ASSUME NEW w \in Socket, SocketStarts(w) PROVE TypeOK'
  BY <1>7 DEF SocketStarts, Touch
<1>8. ASSUME NEW w \in Socket, SocketFrame(w) PROVE TypeOK'
  BY <1>8 DEF SocketFrame, Touch
<1>9. ASSUME NEW w \in Socket, SocketServed(w) PROVE TypeOK'
  BY <1>9 DEF SocketServed
<1>10. ASSUME NEW w \in Socket, SocketChecked(w) PROVE TypeOK'
  BY <1>10 DEF SocketChecked
<1>11. ASSUME NEW w \in Socket, SocketInvalidated(w) PROVE TypeOK'
  BY <1>11 DEF SocketInvalidated
<1>12. ASSUME NEW w \in Socket, SocketLeaves(w) PROVE TypeOK'
  BY <1>12 DEF SocketLeaves
<1>13. ASSUME Reap PROVE TypeOK'
  BY <1>13 DEF Reap
<1>14. ASSUME Tick PROVE TypeOK'
  BY <1>14 DEF Tick
<1>15. ASSUME UNCHANGED vars PROVE TypeOK'
  BY <1>15 DEF vars
<1> QED
  BY <1>1, <1>2, <1>3, <1>4, <1>5, <1>6, <1>7, <1>8, <1>9, <1>10, <1>11, <1>12, <1>13,
     <1>14, <1>15 DEF Next, StoreNext, SocketNext

\* Whatever uses a session sets its inactivity to zero or leaves it; only Tick ages a
\* session, and it brings the reaper nearer by as much.
LEMMA NextDueBeforeReap == Inv /\ [Next]_vars => DueBeforeReap'
<1> SUFFICES ASSUME Inv, [Next]_vars PROVE DueBeforeReap'
  OBVIOUS
<1> USE TimeAssumption DEF Inv, TypeOK, DueBeforeReap, storeVars, socketVars
<1>1. ASSUME NEW s \in Session, Login(s) PROVE DueBeforeReap'
  BY <1>1 DEF Login
<1>2. ASSUME NEW s \in Session, Accepts(s), UNCHANGED reapIn PROVE DueBeforeReap'
  BY <1>2 DEF Accepts
<1>3. ASSUME NEW s \in Session, Rejects(s), UNCHANGED reapIn PROVE DueBeforeReap'
  BY <1>3 DEF Rejects
<1>4. ASSUME NEW s \in Session, Logout(s) PROVE DueBeforeReap'
  BY <1>4 DEF Logout
<1>5. ASSUME NEW s, Touch(s), UNCHANGED <<age, reapIn>> PROVE DueBeforeReap'
  BY <1>5 DEF Touch
<1>6. ASSUME Reap PROVE DueBeforeReap'
  BY <1>6 DEF Reap, Valid
<1>7. ASSUME Tick PROVE DueBeforeReap'
  BY <1>7 DEF Tick
<1>8. ASSUME UNCHANGED <<storeVars, reapIn>> PROVE DueBeforeReap'
  BY <1>8
<1>9. ASSUME NEW s \in Session, StoreNext(s) PROVE DueBeforeReap'
  BY <1>9, <1>1, <1>2, <1>3, <1>4 DEF StoreNext, RestAccepted, RestRejected
<1>10. ASSUME NEW w \in Socket, NEW s \in Session, SocketAuthenticates(w, s) \/ SocketRefused(w, s)
       PROVE DueBeforeReap'
  BY <1>10, <1>2, <1>3 DEF SocketAuthenticates, SocketRefused
<1>11. ASSUME NEW w \in Socket, SocketStarts(w) \/ SocketFrame(w) PROVE DueBeforeReap'
  BY <1>11, <1>5 DEF SocketStarts, SocketFrame
<1>12. ASSUME NEW w \in Socket,
              SocketServed(w) \/ SocketChecked(w) \/ SocketInvalidated(w) \/ SocketLeaves(w)
       PROVE DueBeforeReap'
  BY <1>12, <1>8 DEF SocketServed, SocketChecked, SocketInvalidated, SocketLeaves
<1> QED
  BY <1>6, <1>7, <1>8, <1>9, <1>10, <1>11, <1>12 DEF Next, SocketNext, vars

-----------------------------------------------------------------------------

\* The inductive invariant holds in every reachable state.
THEOREM Invariance == Spec => []Inv
<1>1. Inv /\ [Next]_vars => Inv'
  BY NextTypeOK, NextDueBeforeReap DEF Inv
<1> QED
  BY InitInv, <1>1, PTL DEF Spec

\* Every variable keeps its type, and a socket is served under a session that was created.
THEOREM TypeCorrect == Spec => []TypeOK
<1>1. Inv => TypeOK
  BY DEF Inv
<1> QED
  BY Invariance, <1>1, PTL

\* A stored session exceeds its limits by at most one period of the reaper.
THEOREM ExpiryBound == Spec => []ExpiredIsReaped
<1>1. Inv => ExpiredIsReaped
  BY TimeAssumption DEF Inv, TypeOK, DueBeforeReap, ExpiredIsReaped
<1> QED
  BY Invariance, <1>1, PTL

\* No step puts a session back that was removed: only login inserts, and its id is new.
THEOREM RemovalIsFinal == Spec => RemovedStaysRemoved
<1>1. Next => \A s \in made \ store : s \notin store'
  BY DEF Next, StoreNext, SocketNext, Login, RestAccepted, RestRejected, Logout, Reap, Tick,
         Accepts, Rejects, Touch, SocketAuthenticates, SocketRefused, SocketStarts,
         SocketFrame, SocketServed, SocketChecked, SocketInvalidated, SocketLeaves, storeVars
<1>2. UNCHANGED vars => \A s \in made \ store : s \notin store'
  BY DEF vars
<1> QED
  BY <1>1, <1>2, PTL DEF Spec, RemovedStaysRemoved
=============================================================================
