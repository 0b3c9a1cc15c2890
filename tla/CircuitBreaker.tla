--------------------------- MODULE CircuitBreaker ---------------------------
(***************************************************************************)
(* The circuit breaker of src/shared/api_client/circuit_breaker.py.        *)
(*                                                                         *)
(* Every method body runs under one asyncio.Lock and awaits nothing while  *)
(* it holds it, so a method call is one atomic step.  The monotonic clock  *)
(* is only ever compared with Window and Cooldown: a time stamp is kept as *)
(* the age it has now, in whole seconds, saturating one past the bound it  *)
(* is compared with.  Tick is the passage of one second.                   *)
(***************************************************************************)
EXTENDS Naturals, Sequences, FiniteSets

CONSTANTS
    FailureThreshold,   \* failure_threshold: failures that open the breaker
    Window,             \* window_s: how long a failure counts
    Cooldown            \* cooldown_s: how long OPEN refuses every request

ASSUME BreakerAssumption ==
    /\ FailureThreshold \in Nat \ {0}
    /\ Window \in Nat
    /\ Cooldown \in Nat

VARIABLES
    state,              \* _state
    failures,           \* _failures: ages, the oldest first
    openedFor,          \* now - _opened_at, saturating at Cooldown
    halfOpenInFlight    \* _half_open_in_flight

breakerVars == <<state, failures, openedFor, halfOpenInFlight>>

State == {"closed", "open", "half_open"}
Age == 0 .. Window + 1

BreakerTypeOK ==
    /\ state \in State
    /\ failures \in Seq(Age)
    /\ openedFor \in 0 .. Cooldown
    /\ halfOpenInFlight \in BOOLEAN

BreakerInit ==
    /\ state = "closed"
    /\ failures = <<>>
    /\ openedFor = Cooldown
    /\ halfOpenInFlight = FALSE

-----------------------------------------------------------------------------
\* _prune: pop from the left while the oldest failure is older than the window.
Expired(fs) == {i \in DOMAIN fs : \A j \in 1 .. i : fs[j] > Window}

Prune(fs) == SubSeq(fs, Cardinality(Expired(fs)) + 1, Len(fs))

\* Mutant: the probe in flight is forgotten.
MayRequest_SecondProbe ==
    state = "open" => openedFor >= Cooldown

\* can_request: the cases in which it returns True ...
MayRequest ==
    \/ state = "closed"
    \/ state = "open" /\ openedFor >= Cooldown
    \/ state = "half_open" /\ ~halfOpenInFlight

\* ... and what it then changes: outside CLOSED the caller becomes the probe.
CanRequest ==
    /\ MayRequest
    /\ failures' = Prune(failures)
    /\ state' = IF state = "closed" THEN "closed" ELSE "half_open"
    /\ halfOpenInFlight' = (halfOpenInFlight \/ state # "closed")
    /\ UNCHANGED openedFor

\* Mutant: a refused caller restarts the cooldown.
CannotRequest_Restarts ==
    /\ ~MayRequest
    /\ failures' = Prune(failures)
    /\ openedFor' = 0
    /\ UNCHANGED <<state, halfOpenInFlight>>

\* can_request returning False.
CannotRequest ==
    /\ ~MayRequest
    /\ failures' = Prune(failures)
    /\ UNCHANGED <<state, openedFor, halfOpenInFlight>>

\* Mutant: the failures survive the success.
RecordSuccess_KeepsFailures ==
    /\ state' = "closed"
    /\ halfOpenInFlight' = FALSE
    /\ UNCHANGED <<failures, openedFor>>

RecordSuccess ==
    /\ failures' = <<>>
    /\ state' = "closed"
    /\ halfOpenInFlight' = FALSE
    /\ UNCHANGED openedFor

\* Mutants: the probe's failure is taken for any other; its trip leaves the
\* clock of the first one.
Trips_OnlyWhenClosed ==
    state = "closed" /\ Len(Prune(failures)) + 1 >= FailureThreshold

\* record_failure: the failure just seen is counted, then the breaker trips
\* from HALF_OPEN at once and from CLOSED at the threshold.
Counted == Append(Prune(failures), 0)

Trips ==
    \/ state = "half_open"
    \/ state = "closed" /\ Len(Counted) >= FailureThreshold

RecordFailure_KeepsClock ==
    IF Trips
    THEN /\ state' = "open"
         /\ openedFor' = IF state = "closed" THEN 0 ELSE openedFor
         /\ halfOpenInFlight' = FALSE
         /\ failures' = <<>>
    ELSE /\ failures' = Counted
         /\ UNCHANGED <<state, openedFor, halfOpenInFlight>>

RecordFailure ==
    IF Trips
    THEN /\ state' = "open"
         /\ openedFor' = 0
         /\ halfOpenInFlight' = FALSE
         /\ failures' = <<>>
    ELSE /\ failures' = Counted
         /\ UNCHANGED <<state, openedFor, halfOpenInFlight>>

\* time.monotonic() advances by one second.
Older(age, bound) == IF age < bound THEN age + 1 ELSE bound

BreakerTick ==
    /\ failures' = [i \in DOMAIN failures |-> Older(failures[i], Window + 1)]
    /\ openedFor' = Older(openedFor, Cooldown)
    /\ UNCHANGED <<state, halfOpenInFlight>>

-----------------------------------------------------------------------------
\* The breaker used by callers that keep no discipline at all: any method may
\* be called at any time.  A client that calls it in some order refines this.
BreakerNext ==
    \/ CanRequest
    \/ CannotRequest
    \/ RecordSuccess
    \/ RecordFailure
    \/ BreakerTick

BreakerSpec == BreakerInit /\ [][BreakerNext]_breakerVars

-----------------------------------------------------------------------------
\* HALF_OPEN and "a probe is out" are the same thing: the flag is raised only
\* on the way into HALF_OPEN and lowered on every way out of it, so the branch
\* of can_request that grants a second probe in HALF_OPEN (lines 62-66) never
\* runs (circuit_breaker.py:46-93).
ProbeOutIffHalfOpen == halfOpenInFlight <=> state = "half_open"

\* A CLOSED breaker never sits on a full window: whatever way it came back to
\* CLOSED, the failures that opened it are forgotten (circuit_breaker.py:68-93).
ClosedBelowThreshold == state = "closed" => Len(failures) < FailureThreshold

\* What holds of the breaker whoever calls it.
BreakerSafe ==
    /\ BreakerTypeOK
    /\ ProbeOutIffHalfOpen
    /\ ClosedBelowThreshold
=============================================================================
