-------------------------- MODULE ComplianceClient --------------------------
(***************************************************************************)
(* The calls of src/shared/api_client/client.py that share one             *)
(* ComplianceClient, and so one CircuitBreaker: the retry loop of _request *)
(* and the single attempt of upload_identity_proof.                        *)
(*                                                                         *)
(* A call is an asyncio task: it runs atomically from one await to the     *)
(* next, and everything may happen while it waits for the answer (sending) *)
(* or sleeps (backoff).  A call that returned may be made again.           *)
(***************************************************************************)
EXTENDS CircuitBreaker

CONSTANTS
    Gets,           \* calls of _request("GET", ...)
    Writes,         \* calls of _request with any other method
    Uploads,        \* calls of upload_identity_proof
    MaxAttempts,    \* max_attempts of _request
    Outcomes,       \* how an attempt may end: a subset of AllOutcomes
    NoCall          \* "no call has been a probe yet"

Calls == Gets \cup Writes \cup Uploads

\* unavailable : an exception of the except clause, or (in _request) a 5xx
\* rejected    : any other status >= 400
\* escape      : an exception the except clause does not name, or cancellation
AllOutcomes == {"ok", "redirect", "unavailable", "rejected", "escape"}

ASSUME ClientAssumption ==
    /\ MaxAttempts \in Nat \ {0}
    /\ Outcomes \subseteq AllOutcomes
    /\ NoCall \notin Calls
    /\ Gets \cap Writes = {} /\ Uploads \cap (Gets \cup Writes) = {}

\* As many tasks as there are requests under way.
ASSUME FinitelyManyCalls == IsFiniteSet(Calls)

VARIABLES
    pc,             \* what each call is doing
    attempt,        \* the attempt it is at, from 1
    probe,          \* history: the call last admitted by a breaker not CLOSED
    sinceProbe      \* history: the age of that admission, up to Cooldown

callVars == <<pc, attempt, probe, sinceProbe>>
vars == <<breakerVars, callVars>>

\* attempts_max: a method other than GET is tried at most twice.
AttemptsMax(c) ==
    IF c \in Gets THEN MaxAttempts
    ELSE IF c \in Writes /\ MaxAttempts >= 2 THEN 2 ELSE 1

ClientTypeOK ==
    /\ pc \in [Calls -> {"idle", "sending", "backoff"}]
    /\ attempt \in [Calls -> 1 .. MaxAttempts]
    /\ probe \in Calls \cup {NoCall}
    /\ sinceProbe \in 0 .. Cooldown

TypeOK == BreakerTypeOK /\ ClientTypeOK

Init ==
    /\ BreakerInit
    /\ pc = [c \in Calls |-> "idle"]
    /\ attempt = [c \in Calls |-> 1]
    /\ probe = NoCall
    /\ sinceProbe = Cooldown

-----------------------------------------------------------------------------
\* The call is admitted and its first attempt is sent.
Admit(c) ==
    /\ pc[c] = "idle"
    /\ CanRequest
    /\ pc' = [pc EXCEPT ![c] = "sending"]
    /\ attempt' = [attempt EXCEPT ![c] = 1]
    /\ IF state = "closed"
       THEN UNCHANGED <<probe, sinceProbe>>
       ELSE probe' = c /\ sinceProbe' = 0

\* ServiceUnavailableError(code="circuit_open").
FailFast(c) ==
    /\ pc[c] = "idle"
    /\ CannotRequest
    /\ UNCHANGED callVars

Return(c) ==
    /\ pc' = [pc EXCEPT ![c] = "idle"]
    /\ UNCHANGED <<attempt, probe, sinceProbe>>

\* Mutant: the answer is not returned, the loop goes on.
Succeed_GoesOn(c) ==
    /\ pc[c] = "sending" /\ "ok" \in Outcomes
    /\ RecordSuccess
    /\ UNCHANGED callVars

Succeed(c) ==
    /\ pc[c] = "sending" /\ "ok" \in Outcomes
    /\ RecordSuccess
    /\ Return(c)

\* UnexpectedRedirectError: counted, never retried.
Redirected(c) ==
    /\ pc[c] = "sending" /\ "redirect" \in Outcomes
    /\ RecordFailure
    /\ Return(c)

\* Counted at every attempt; raised at the last one, slept over before it.
Unavailable(c) ==
    /\ pc[c] = "sending" /\ "unavailable" \in Outcomes
    /\ RecordFailure
    /\ IF attempt[c] < AttemptsMax(c)
       THEN /\ pc' = [pc EXCEPT ![c] = "backoff"]
            /\ UNCHANGED <<attempt, probe, sinceProbe>>
       ELSE Return(c)

\* A 4xx (and, for an upload, any 5xx) is raised and not counted.
Rejected(c) ==
    /\ pc[c] = "sending" /\ "rejected" \in Outcomes
    /\ UNCHANGED breakerVars
    /\ Return(c)

\* ConnectTimeout, WriteTimeout, ReadError, ... or CancelledError.
Escape(c) ==
    /\ pc[c] \in {"sending", "backoff"} /\ "escape" \in Outcomes
    /\ UNCHANGED breakerVars
    /\ Return(c)

\* Mutant: the attempt is not counted.
Retry_Uncounted(c) ==
    /\ pc[c] = "backoff"
    /\ pc' = [pc EXCEPT ![c] = "sending"]
    /\ UNCHANGED <<breakerVars, attempt, probe, sinceProbe>>

\* The loop goes round: can_request is not asked again.
Retry(c) ==
    /\ pc[c] = "backoff"
    /\ pc' = [pc EXCEPT ![c] = "sending"]
    /\ attempt' = [attempt EXCEPT ![c] = @ + 1]
    /\ UNCHANGED <<breakerVars, probe, sinceProbe>>

\* A backoff (0.1 s, then 0.4 s, with 25% of jitter) ends within the second.
Tick ==
    /\ \A c \in Calls : pc[c] # "backoff"
    /\ BreakerTick
    /\ sinceProbe' = Older(sinceProbe, Cooldown)
    /\ UNCHANGED <<pc, attempt, probe>>

Settle(c) ==
    Succeed(c) \/ Redirected(c) \/ Unavailable(c) \/ Rejected(c) \/ Escape(c)

Next ==
    \/ \E c \in Calls : Admit(c) \/ FailFast(c) \/ Settle(c) \/ Retry(c)
    \/ Tick

Spec == Init /\ [][Next]_vars

\* An attempt ends (httpx times every phase of it out), a sleep ends, time
\* passes; and requests keep arriving at the portal.
Fairness ==
    /\ WF_vars(Tick)
    /\ \A c \in Calls :
         /\ WF_vars(pc[c] = "sending" /\ Settle(c))
         /\ WF_vars(Retry(c))
         /\ WF_vars(Admit(c))

FairSpec == Spec /\ Fairness

-----------------------------------------------------------------------------
\* A tripped breaker has been open no longer than its last probe is old: the
\* probe's failure restarts the cooldown (circuit_breaker.py:80-85).
TrippedSinceProbe == state = "open" => openedFor <= sinceProbe

\* The service gets one probe per cooldown, however the calls that were under
\* way when the breaker tripped interleave with it: two admissions by a breaker
\* that is not CLOSED are at least Cooldown apart (circuit_breaker.py:46-93).
ProbesSpaced ==
    [][\A c \in Calls :
         (pc[c] = "idle" /\ pc'[c] = "sending" /\ state # "closed")
            => sinceProbe >= Cooldown]_vars

\* A half-open breaker admits nobody besides the probe that opened it
\* (circuit_breaker.py:62-66).
HalfOpenAdmitsNobodyElse ==
    [][\A c \in Calls :
         state = "half_open" => ~(pc[c] = "idle" /\ pc'[c] = "sending")]_vars

\* A call sleeps only if the loop will come round again (client.py:261, 285).
BackoffBelowMax ==
    \A c \in Calls : pc[c] = "backoff" => attempt[c] < AttemptsMax(c)

\* Every attempt the calls may make, each the k-th of its call, and those that
\* may still report a failure before their call returns.
Attempts == {a \in Calls \X (1 .. MaxAttempts) : a[2] <= AttemptsMax(a[1])}

AttemptsLeft ==
    {a \in Attempts : \/ pc[a[1]] = "sending" /\ a[2] >= attempt[a[1]]
                      \/ pc[a[1]] = "backoff" /\ a[2] > attempt[a[1]]}

\* While the breaker refuses everybody only the calls already under way add to
\* _failures, so the deque is bounded although nothing caps it
\* (circuit_breaker.py:75-93, client.py:249-269).
BacklogBounded ==
    state = "open" =>
        Len(failures) + Cardinality(AttemptsLeft) <= Cardinality(Attempts)

-----------------------------------------------------------------------------
\* Every call comes back to its caller (client.py:249-306).
CallsReturn == \A c \in Calls : (pc[c] # "idle") ~> (pc[c] = "idle")

\* An open breaker lets the service be tried again (circuit_breaker.py:55-60).
OpenIsProbed == (state = "open") ~> (state # "open")

\* "HALF_OPEN -- allow ONE probe request; success -> CLOSED, failure -> OPEN":
\* a half-open period ends (circuit_breaker.py:6).
HalfOpenSettles == (state = "half_open") ~> (state # "half_open")
=============================================================================
