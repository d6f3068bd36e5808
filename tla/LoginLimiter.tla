---------------------------- MODULE LoginLimiter ----------------------------
(***************************************************************************)
(* Logins at the gateway from one client address: rate_limit.rs and login  *)
(* of auth.rs.  The wait for PAM lies between the check of the limit and   *)
(* the record of the failure.                                              *)
(***************************************************************************)
EXTENDS HostCommand, FiniteSets

CONSTANTS
    Request,      \* bound: logins of the address served at one time
    MaxAttempts,  \* max_startups
    Window        \* bound: the window, in ticks

ASSUME LimiterAssumption ==
    /\ IsFiniteSet(Request) /\ Request # {}
    /\ MaxAttempts \in Nat \ {0} /\ Window \in Nat \ {0}

Age == 0..Window - 1

VARIABLES
    login,     \* login[q]: the request is "idle" or waits for PAM; "in" has a session
    attempts,  \* attempts[a]: failures recorded a ticks ago
    failed     \* failed[a]: logins answered with a failure of PAM a ticks ago

limiterState == <<login, attempts, failed>>
limiterVars  == <<reply, limiterState>>

\* The list that is counted has an entry, with its age, for each failure.
Entries(count) == UNION {{a} \X (1..count[a]) : a \in Age}
Total(count)   == Cardinality(Entries(count))

LimiterTypeOK ==
    /\ login \in [Request -> {"idle", "pam", "in"}]
    /\ attempts \in [Age -> 0..MaxAttempts]
    /\ failed \in [Age -> Nat]

LimiterInit ==
    /\ reply = NoReply
    /\ login = [q \in Request |-> "idle"]
    /\ attempts = [a \in Age |-> 0]
    /\ failed = [a \in Age |-> 0]

\* is_limited, after it has dropped what is older than the window.
Limited == Total(attempts) >= MaxAttempts

-----------------------------------------------------------------------------
Older(count) == [a \in Age |-> IF a = 0 THEN 0 ELSE count[a - 1]]

\* Time passes; what leaves the window is never counted again (retain, cleanup).
Tick ==
    /\ attempts' = Older(attempts) /\ failed' = Older(failed)
    /\ UNCHANGED login

\* Mutant: the limit is not looked at before PAM.
AskPamAlways(q) ==
    /\ login[q] = "idle"
    /\ login' = [login EXCEPT ![q] = "pam"]
    /\ UNCHANGED <<attempts, failed>>

\* A login that is not limited starts the helper; one that is limited, or without a name or a
\* password, is refused and leaves no trace.
AskPam(q) ==
    /\ login[q] = "idle" /\ ~Limited
    /\ login' = [login EXCEPT ![q] = "pam"]
    /\ UNCHANGED <<attempts, failed>>

\* Mutant: a failure is recorded without another look at the limit.
PamFailsRecorded(q) ==
    /\ login[q] = "pam"
    /\ login' = [login EXCEPT ![q] = "idle"]
    /\ attempts' = [attempts EXCEPT ![0] = @ + 1]
    /\ failed' = [failed EXCEPT ![0] = @ + 1]

\* PAM refuses, or the helper does not start, dies or is killed after 30 s: check_and_record.
PamFails(q) ==
    /\ login[q] = "pam"
    /\ login' = [login EXCEPT ![q] = "idle"]
    /\ attempts' = IF Limited THEN attempts ELSE [attempts EXCEPT ![0] = @ + 1]
    /\ failed' = [failed EXCEPT ![0] = @ + 1]

\* PAM accepts: a session; recorded failures stay.
PamAccepts(q) ==
    /\ login[q] = "pam"
    /\ login' = [login EXCEPT ![q] = "in"]
    /\ UNCHANGED <<attempts, failed>>

\* The client goes away; the handler is dropped with its helper and nothing is recorded.  A
\* client that has logged in may log in again.
Leave(q) ==
    /\ login[q] \in {"pam", "in"}
    /\ login' = [login EXCEPT ![q] = "idle"]
    /\ UNCHANGED <<attempts, failed>>

LimiterNext ==
    /\ Tick \/ \E q \in Request : AskPam(q) \/ PamFails(q) \/ PamAccepts(q) \/ Leave(q)
    /\ reply' = reply

-----------------------------------------------------------------------------
(* Properties. *)

\* A window sees at most this many failures of PAM for one address, not the limit alone: each of
\* the failures that are recorded may be followed by one of every other request that was on its
\* way to PAM, and such failures come again as old records expire (is_limited and
\* check_and_record around the wait for PAM).
FailuresBounded == Total(failed) <= (MaxAttempts + 1) * Cardinality(Request) - 1
=============================================================================
