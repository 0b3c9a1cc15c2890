---------------------- MODULE ComplianceClientProofs ----------------------
(***************************************************************************)
(* The breaker and the calls that share it, for every number of calls and  *)
(* every threshold, window and cooldown: type correctness, the invariants  *)
(* of the breaker, and the spacing of its probes.                          *)
(***************************************************************************)
EXTENDS ComplianceClient, FiniteSetTheorems, TLAPS

\* Pruning drops a prefix: what is left is a sequence of ages, no longer than
\* before (_prune, circuit_breaker.py:95-98).
LEMMA PruneShortens ==
    ASSUME NEW fs \in Seq(Age)
    PROVE  Prune(fs) \in Seq(Age) /\ Len(Prune(fs)) <= Len(fs)
<1> DEFINE n == Cardinality(Expired(fs))
<1>1. IsFiniteSet(1 .. Len(fs)) /\ Cardinality(1 .. Len(fs)) = Len(fs)
  <2>1. Len(fs) \in Nat /\ Len(fs) \in Int /\ 1 \in Int
    OBVIOUS
  <2>2. IsFiniteSet(1 .. Len(fs))
    BY <2>1, FS_Interval
  <2>3. Cardinality(1 .. Len(fs)) = IF 1 > Len(fs) THEN 0 ELSE Len(fs) - 1 + 1
    BY <2>1, FS_Interval
  <2> QED
    BY <2>1, <2>2, <2>3
<1>2. Expired(fs) \subseteq 1 .. Len(fs)
  BY DEF Expired
<1>3. IsFiniteSet(Expired(fs)) /\ n <= Len(fs)
  BY <1>1, <1>2, FS_Subset
<1>4. n \in Nat
  BY <1>3, FS_CardinalityType
<1> HIDE DEF n
<1>5. SubSeq(fs, n + 1, Len(fs)) \in Seq(Age) /\ Len(SubSeq(fs, n + 1, Len(fs))) <= Len(fs)
  BY <1>3, <1>4
<1> QED
  BY <1>5 DEF Prune, n

LEMMA NoFailures == <<>> \in Seq(Age)
OBVIOUS

-----------------------------------------------------------------------------
(* What each method of the breaker preserves, whoever calls it. *)

LEMMA InitSafe == BreakerInit => BreakerSafe
<1> SUFFICES ASSUME BreakerInit PROVE BreakerSafe
  OBVIOUS
<1> USE BreakerAssumption DEF BreakerInit
<1>1. openedFor \in 0 .. Cooldown
  OBVIOUS
<1>2. BreakerTypeOK
  BY <1>1, NoFailures DEF BreakerTypeOK, State
<1>3. ProbeOutIffHalfOpen /\ ClosedBelowThreshold
  BY DEF ProbeOutIffHalfOpen, ClosedBelowThreshold
<1> QED
  BY <1>2, <1>3 DEF BreakerSafe

LEMMA GrantSafe == BreakerSafe /\ CanRequest => BreakerSafe'
<1> SUFFICES ASSUME BreakerSafe, CanRequest PROVE BreakerSafe'
  OBVIOUS
<1> USE DEF BreakerSafe, BreakerTypeOK, State, CanRequest
<1>1. Prune(failures) \in Seq(Age) /\ Len(Prune(failures)) <= Len(failures)
  BY PruneShortens
<1>2. BreakerTypeOK'
  BY <1>1
<1>3. ProbeOutIffHalfOpen'
  BY DEF ProbeOutIffHalfOpen
<1>4. ClosedBelowThreshold'
  BY <1>1, BreakerAssumption DEF ClosedBelowThreshold
<1> QED
  BY <1>2, <1>3, <1>4

LEMMA RefuseSafe == BreakerSafe /\ CannotRequest => BreakerSafe'
<1> SUFFICES ASSUME BreakerSafe, CannotRequest PROVE BreakerSafe'
  OBVIOUS
<1> USE DEF BreakerSafe, BreakerTypeOK, CannotRequest
<1>1. Prune(failures) \in Seq(Age) /\ Len(Prune(failures)) <= Len(failures)
  BY PruneShortens
<1>2. BreakerTypeOK' /\ ProbeOutIffHalfOpen'
  BY <1>1 DEF ProbeOutIffHalfOpen
<1>3. ClosedBelowThreshold'
  BY <1>1, BreakerAssumption DEF ClosedBelowThreshold
<1> QED
  BY <1>2, <1>3

LEMMA SuccessSafe == BreakerSafe /\ RecordSuccess => BreakerSafe'
<1> SUFFICES ASSUME BreakerSafe, RecordSuccess PROVE BreakerSafe'
  OBVIOUS
<1>1. BreakerTypeOK'
  BY NoFailures DEF BreakerSafe, BreakerTypeOK, RecordSuccess, State
<1>2. ProbeOutIffHalfOpen'
  BY DEF ProbeOutIffHalfOpen, RecordSuccess
<1>3. ClosedBelowThreshold'
  BY BreakerAssumption DEF ClosedBelowThreshold, RecordSuccess
<1> QED
  BY <1>1, <1>2, <1>3 DEF BreakerSafe

LEMMA FailureSafe == BreakerSafe /\ RecordFailure => BreakerSafe'
<1> SUFFICES ASSUME BreakerSafe, RecordFailure PROVE BreakerSafe'
  OBVIOUS
<1> USE DEF BreakerSafe
<1>1. Counted \in Seq(Age)
  BY PruneShortens, BreakerAssumption DEF Counted, Age, BreakerTypeOK
<1>2. CASE Trips
  <2>1. BreakerTypeOK'
    <3>1. openedFor' \in 0 .. Cooldown
      BY <1>2, BreakerAssumption DEF RecordFailure
    <3> QED
      BY <1>2, <3>1, NoFailures DEF RecordFailure, BreakerTypeOK, State
  <2>2. ProbeOutIffHalfOpen' /\ ClosedBelowThreshold'
    BY <1>2 DEF RecordFailure, ProbeOutIffHalfOpen, ClosedBelowThreshold
  <2> QED
    BY <2>1, <2>2
<1>3. CASE ~Trips
  <2>1. BreakerTypeOK' /\ ProbeOutIffHalfOpen'
    BY <1>1, <1>3 DEF RecordFailure, BreakerTypeOK, ProbeOutIffHalfOpen
  <2>2. Len(Counted) \in Nat
    BY <1>1
  <2>3. ClosedBelowThreshold'
    BY <1>3, <2>2, BreakerAssumption DEF RecordFailure, Trips, ClosedBelowThreshold
  <2> QED
    BY <2>1, <2>3
<1> QED
  BY <1>2, <1>3

LEMMA TickSafe == BreakerSafe /\ BreakerTick => BreakerSafe'
<1> SUFFICES ASSUME BreakerSafe, BreakerTick PROVE BreakerSafe'
  OBVIOUS
<1> USE BreakerAssumption DEF BreakerSafe, BreakerTypeOK, BreakerTick
<1>1. \A age \in Age : Older(age, Window + 1) \in Age
  BY DEF Age, Older
<1>2. failures' \in Seq(Age) /\ Len(failures') = Len(failures)
  BY <1>1
<1>3. openedFor' \in 0 .. Cooldown
  BY DEF Older
<1>4. BreakerTypeOK' /\ ProbeOutIffHalfOpen'
  BY <1>2, <1>3 DEF ProbeOutIffHalfOpen
<1>5. ClosedBelowThreshold'
  BY <1>2 DEF ClosedBelowThreshold
<1> QED
  BY <1>4, <1>5

\* The invariants hold of the breaker however its methods are called
\* (circuit_breaker.py:46-98).
THEOREM BreakerAlwaysSafe == BreakerSpec => []BreakerSafe
<1>1. BreakerSafe /\ [BreakerNext]_breakerVars => BreakerSafe'
  <2> SUFFICES ASSUME BreakerSafe, [BreakerNext]_breakerVars PROVE BreakerSafe'
    OBVIOUS
  <2>1. CASE BreakerNext
    BY <2>1, GrantSafe, RefuseSafe, SuccessSafe, FailureSafe, TickSafe DEF BreakerNext
  <2>2. CASE UNCHANGED breakerVars
    BY <2>2 DEF breakerVars, BreakerSafe, BreakerTypeOK, ProbeOutIffHalfOpen,
                ClosedBelowThreshold
  <2> QED
    BY <2>1, <2>2
<1> QED
  BY <1>1, InitSafe, PTL DEF BreakerSpec

-----------------------------------------------------------------------------
(* The calls that share a breaker use nothing but its methods. *)

\* Every step of the retry loop is a step of the breaker or leaves it alone
\* (client.py:227-298, 725-758).
LEMMA StepRefines == [Next]_vars => [BreakerNext]_breakerVars
<1> SUFFICES ASSUME [Next]_vars PROVE [BreakerNext]_breakerVars
  OBVIOUS
<1> USE DEF BreakerNext
<1>1. ASSUME NEW c \in Calls, Admit(c) \/ FailFast(c) \/ Settle(c) \/ Retry(c)
      PROVE  [BreakerNext]_breakerVars
  BY <1>1 DEF Admit, FailFast, Settle, Succeed, Redirected, Unavailable,
              Rejected, Escape, Retry
<1>2. ASSUME Tick PROVE [BreakerNext]_breakerVars
  BY <1>2 DEF Tick
<1>3. ASSUME UNCHANGED vars PROVE UNCHANGED breakerVars
  BY <1>3 DEF vars
<1> QED
  BY <1>1, <1>2, <1>3 DEF Next

\* A set of calls that share a breaker implements the breaker used by callers
\* without discipline: no order in which the loop calls its methods is new.
THEOREM ClientImplementsBreaker == Spec => BreakerSpec
<1>1. Init => BreakerInit
  BY DEF Init
<1> QED
  BY <1>1, StepRefines, PTL DEF Spec, BreakerSpec

LEMMA AlwaysSafe == Spec => []BreakerSafe
BY ClientImplementsBreaker, BreakerAlwaysSafe, PTL

-----------------------------------------------------------------------------
LEMMA InitTyped == Init => ClientTypeOK
BY BreakerAssumption, ClientAssumption DEF Init, ClientTypeOK

LEMMA AttemptsMaxRange ==
    ASSUME NEW c \in Calls
    PROVE  AttemptsMax(c) \in 1 .. MaxAttempts
BY ClientAssumption DEF AttemptsMax

LEMMA StepTyped ==
    ASSUME ClientTypeOK, BackoffBelowMax, [Next]_vars
    PROVE  ClientTypeOK' /\ BackoffBelowMax'
<1> USE ClientAssumption, BreakerAssumption DEF ClientTypeOK, BackoffBelowMax
<1>1. ASSUME NEW c \in Calls, Admit(c)
      PROVE  ClientTypeOK' /\ BackoffBelowMax'
  <2>1. 1 \in 1 .. MaxAttempts /\ 0 \in 0 .. Cooldown
    OBVIOUS
  <2> QED
    BY <1>1, <2>1 DEF Admit
<1>2. ASSUME NEW c \in Calls, FailFast(c)
      PROVE  ClientTypeOK' /\ BackoffBelowMax'
  BY <1>2 DEF FailFast, callVars
<1>3. ASSUME NEW c \in Calls, Settle(c)
      PROVE  ClientTypeOK' /\ BackoffBelowMax'
  BY <1>3 DEF Settle, Succeed, Redirected, Unavailable, Rejected, Escape, Return
<1>4. ASSUME NEW c \in Calls, Retry(c)
      PROVE  ClientTypeOK' /\ BackoffBelowMax'
  <2>1. attempt[c] + 1 \in 1 .. MaxAttempts
    BY <1>4, AttemptsMaxRange DEF Retry
  <2> QED
    BY <1>4, <2>1 DEF Retry
<1>5. ASSUME Tick
      PROVE  ClientTypeOK' /\ BackoffBelowMax'
  <2>1. Older(sinceProbe, Cooldown) \in 0 .. Cooldown
    BY DEF Older
  <2> QED
    BY <1>5, <2>1 DEF Tick
<1>6. ASSUME UNCHANGED vars
      PROVE  ClientTypeOK' /\ BackoffBelowMax'
  BY <1>6 DEF vars, callVars
<1> QED
  BY <1>1, <1>2, <1>3, <1>4, <1>5, <1>6 DEF Next

\* Type correctness (circuit_breaker.py:26-40, client.py:245-249).
THEOREM TypeCorrect == Spec => []TypeOK
<1>1. Init => ClientTypeOK /\ BackoffBelowMax
  BY InitTyped DEF Init, BackoffBelowMax
<1>2. ClientTypeOK /\ BackoffBelowMax /\ [Next]_vars => ClientTypeOK' /\ BackoffBelowMax'
  BY StepTyped
<1>3. Spec => []ClientTypeOK
  BY <1>1, <1>2, PTL DEF Spec
<1>4. ClientTypeOK /\ BreakerSafe => TypeOK
  BY DEF BreakerSafe, TypeOK
<1> QED
  BY <1>3, <1>4, AlwaysSafe, PTL

\* A breaker is HALF_OPEN exactly while a probe is out, and CLOSED only below
\* its threshold (circuit_breaker.py:46-93).
THEOREM FlagsAgree == Spec => []BreakerSafe
<1> QED
  BY AlwaysSafe, PTL

-----------------------------------------------------------------------------
\* Only Admit takes a call from idle to sending.
LEMMA OnlyAdmitSends ==
    ASSUME ClientTypeOK, [Next]_vars, NEW c \in Calls,
           pc[c] = "idle", pc'[c] = "sending"
    PROVE  Admit(c)
<1> USE DEF ClientTypeOK
<1>1. ASSUME NEW d \in Calls, Admit(d) PROVE Admit(c)
  BY <1>1 DEF Admit
<1>2. ASSUME NEW d \in Calls, FailFast(d) PROVE FALSE
  BY <1>2 DEF FailFast, callVars
<1>3. ASSUME NEW d \in Calls, Settle(d) PROVE FALSE
  BY <1>3 DEF Settle, Succeed, Redirected, Unavailable, Rejected, Escape, Return
<1>4. ASSUME NEW d \in Calls, Retry(d) PROVE FALSE
  BY <1>4 DEF Retry
<1>5. ASSUME Tick PROVE FALSE
  BY <1>5 DEF Tick
<1>6. ASSUME UNCHANGED vars PROVE FALSE
  BY <1>6 DEF vars, callVars
<1> QED
  BY <1>1, <1>2, <1>3, <1>4, <1>5, <1>6 DEF Next

\* A half-open period admits one call (circuit_breaker.py:62-66).
THEOREM HalfOpenAdmitsOne == Spec => HalfOpenAdmitsNobodyElse
<1>1. BreakerSafe /\ TypeOK /\ [Next]_vars =>
        [\A c \in Calls :
           state = "half_open" => ~(pc[c] = "idle" /\ pc'[c] = "sending")]_vars
  <2> SUFFICES ASSUME BreakerSafe, TypeOK, [Next]_vars, NEW c \in Calls,
                      state = "half_open", pc[c] = "idle", pc'[c] = "sending"
               PROVE  FALSE
    OBVIOUS
  <2>1. Admit(c)
    BY OnlyAdmitSends DEF TypeOK
  <2> QED
    BY <2>1 DEF Admit, CanRequest, MayRequest, BreakerSafe, ProbeOutIffHalfOpen
<1> QED
  BY <1>1, AlwaysSafe, TypeCorrect, PTL DEF Spec, HalfOpenAdmitsNobodyElse

-----------------------------------------------------------------------------
\* The cooldown of a tripped breaker began no earlier than its last probe.
LEMMA StepTripped ==
    ASSUME TypeOK, BreakerSafe, TrippedSinceProbe, [Next]_vars
    PROVE  TrippedSinceProbe'
<1> USE BreakerAssumption DEF TypeOK, ClientTypeOK, BreakerTypeOK, TrippedSinceProbe
<1>1. ASSUME UNCHANGED sinceProbe, RecordFailure
      PROVE  TrippedSinceProbe'
  BY <1>1 DEF RecordFailure
<1>2. ASSUME NEW c \in Calls, Admit(c)
      PROVE  TrippedSinceProbe'
  BY <1>2 DEF Admit, CanRequest
<1>3. ASSUME NEW c \in Calls, FailFast(c)
      PROVE  TrippedSinceProbe'
  BY <1>3 DEF FailFast, CannotRequest, callVars
<1>4. ASSUME NEW c \in Calls, Settle(c)
      PROVE  TrippedSinceProbe'
  <2>1. CASE Succeed(c)
    BY <2>1 DEF Succeed, RecordSuccess
  <2>2. CASE Redirected(c) \/ Unavailable(c)
    BY <1>1, <2>2 DEF Redirected, Unavailable, Return
  <2>3. CASE Rejected(c) \/ Escape(c)
    BY <2>3 DEF Rejected, Escape, Return, breakerVars
  <2> QED
    BY <1>4, <2>1, <2>2, <2>3 DEF Settle
<1>5. ASSUME NEW c \in Calls, Retry(c)
      PROVE  TrippedSinceProbe'
  BY <1>5 DEF Retry, breakerVars
<1>6. ASSUME Tick
      PROVE  TrippedSinceProbe'
  BY <1>6 DEF Tick, BreakerTick, Older
<1>7. ASSUME UNCHANGED vars
      PROVE  TrippedSinceProbe'
  BY <1>7 DEF vars, breakerVars, callVars
<1> QED
  BY <1>2, <1>3, <1>4, <1>5, <1>6, <1>7 DEF Next

THEOREM CooldownRestarts == Spec => []TrippedSinceProbe
<1>1. Init => TrippedSinceProbe
  BY DEF Init, BreakerInit, TrippedSinceProbe
<1>2. TypeOK /\ BreakerSafe /\ TrippedSinceProbe /\ [Next]_vars => TrippedSinceProbe'
  BY StepTripped
<1> QED
  BY <1>1, <1>2, TypeCorrect, AlwaysSafe, PTL DEF Spec

\* Probes are at least a cooldown apart (circuit_breaker.py:46-93).
THEOREM ProbeSpacing == Spec => ProbesSpaced
<1>1. TypeOK /\ BreakerSafe /\ TrippedSinceProbe /\ [Next]_vars =>
        [\A c \in Calls :
           (pc[c] = "idle" /\ pc'[c] = "sending" /\ state # "closed")
              => sinceProbe >= Cooldown]_vars
  <2> SUFFICES ASSUME TypeOK, BreakerSafe, TrippedSinceProbe, [Next]_vars,
                      NEW c \in Calls,
                      pc[c] = "idle", pc'[c] = "sending", state # "closed"
               PROVE  sinceProbe >= Cooldown
    OBVIOUS
  <2>1. Admit(c)
    BY OnlyAdmitSends DEF TypeOK
  <2>2. state = "open" /\ openedFor >= Cooldown
    BY <2>1 DEF Admit, CanRequest, MayRequest, BreakerSafe, ProbeOutIffHalfOpen
  <2> QED
    BY <2>2, BreakerAssumption
       DEF TrippedSinceProbe, TypeOK, BreakerTypeOK, ClientTypeOK
<1> QED
  BY <1>1, TypeCorrect, AlwaysSafe, CooldownRestarts, PTL DEF Spec, ProbesSpaced

-----------------------------------------------------------------------------
(* The deque of failures while the breaker is OPEN. *)

\* An attempt that is under way is one of those its call may make.
WithinMax ==
    \A c \in Calls : pc[c] = "sending" => attempt[c] <= AttemptsMax(c)

BacklogInv ==
    ClientTypeOK /\ BackoffBelowMax /\ WithinMax /\ BacklogBounded

LEMMA AttemptsFinite ==
    /\ IsFiniteSet(Attempts) /\ Cardinality(Attempts) \in Nat
    /\ \A S \in SUBSET Attempts :
         /\ IsFiniteSet(S) /\ Cardinality(S) \in Nat
         /\ Cardinality(S) <= Cardinality(Attempts)
<1>1. IsFiniteSet(1 .. MaxAttempts)
  BY ClientAssumption, FS_Interval
<1>2. IsFiniteSet(Calls \X (1 .. MaxAttempts))
  BY <1>1, FinitelyManyCalls, FS_Product
<1>3. IsFiniteSet(Attempts)
  BY <1>2, FS_Subset DEF Attempts
<1> QED
  BY <1>3, FS_Subset, FS_CardinalityType

\* What is left of the calls is among what they may do, before and after.
LEMMA LeftBelowAll ==
    /\ AttemptsLeft \subseteq Attempts /\ AttemptsLeft' \subseteq Attempts
    /\ Cardinality(AttemptsLeft) \in Nat /\ Cardinality(AttemptsLeft') \in Nat
    /\ Cardinality(AttemptsLeft) <= Cardinality(Attempts)
    /\ Cardinality(AttemptsLeft') <= Cardinality(Attempts)
<1>1. AttemptsLeft \subseteq Attempts /\ AttemptsLeft' \subseteq Attempts
  BY DEF AttemptsLeft, Attempts
<1> QED
  BY <1>1, AttemptsFinite

LEMMA StepWithinMax ==
    ASSUME ClientTypeOK, BackoffBelowMax, WithinMax, [Next]_vars
    PROVE  WithinMax'
<1> USE ClientAssumption DEF ClientTypeOK, WithinMax
<1>1. ASSUME NEW c \in Calls, Admit(c) PROVE WithinMax'
  BY <1>1, AttemptsMaxRange DEF Admit
<1>2. ASSUME NEW c \in Calls, FailFast(c) PROVE WithinMax'
  BY <1>2 DEF FailFast, callVars
<1>3. ASSUME NEW c \in Calls, Settle(c) PROVE WithinMax'
  BY <1>3 DEF Settle, Succeed, Redirected, Unavailable, Rejected, Escape, Return
<1>4. ASSUME NEW c \in Calls, Retry(c) PROVE WithinMax'
  BY <1>4, AttemptsMaxRange DEF Retry, BackoffBelowMax
<1>5. ASSUME Tick PROVE WithinMax'
  BY <1>5 DEF Tick
<1>6. ASSUME UNCHANGED vars PROVE WithinMax'
  BY <1>6 DEF vars, callVars
<1> QED
  BY <1>1, <1>2, <1>3, <1>4, <1>5, <1>6 DEF Next

\* A failure that is told to the breaker is one fewer that is left: the attempt
\* was left before it, and is not after (client.py:258-288).
LEMMA FailureUsesAttempt ==
    ASSUME ClientTypeOK, WithinMax, NEW c \in Calls, Redirected(c) \/ Unavailable(c)
    PROVE  Cardinality(AttemptsLeft') + 1 <= Cardinality(AttemptsLeft)
<1> DEFINE this == <<c, attempt[c]>>
<1> USE DEF ClientTypeOK
<1>1. this \in AttemptsLeft
  <2>1. pc[c] = "sending"
    BY DEF Redirected, Unavailable
  <2> QED
    BY <2>1 DEF WithinMax, Attempts, AttemptsLeft
<1>2. AttemptsLeft' \subseteq AttemptsLeft \ {this}
  <2> SUFFICES ASSUME NEW a \in AttemptsLeft' PROVE a \in AttemptsLeft /\ a # this
    OBVIOUS
  <2>1. /\ a \in Attempts /\ a[1] \in Calls /\ a[2] \in 1 .. MaxAttempts
        /\ a = <<a[1], a[2]>>
    BY DEF AttemptsLeft, Attempts
  <2>2. CASE a[1] = c
    BY <2>1, <2>2 DEF Redirected, Unavailable, Return, AttemptsLeft
  <2>3. CASE a[1] # c
    BY <2>1, <2>3 DEF Redirected, Unavailable, Return, AttemptsLeft
  <2> QED
    BY <2>2, <2>3
<1>3. /\ IsFiniteSet(AttemptsLeft)
      /\ Cardinality(AttemptsLeft) \in Nat /\ Cardinality(AttemptsLeft') \in Nat
  BY LeftBelowAll, AttemptsFinite
<1> HIDE DEF this
<1>4. /\ IsFiniteSet(AttemptsLeft \ {this})
      /\ Cardinality(AttemptsLeft \ {this}) = Cardinality(AttemptsLeft) - 1
  BY <1>1, <1>3, FS_RemoveElement
<1>5. Cardinality(AttemptsLeft') <= Cardinality(AttemptsLeft \ {this})
  BY <1>2, <1>4, FS_Subset
<1> QED
  BY <1>3, <1>4, <1>5

\* No other step adds to what is left while nobody is admitted.
LEMMA OthersKeepAttempts ==
    ASSUME ClientTypeOK, NEW c \in Calls,
           Succeed(c) \/ Rejected(c) \/ Escape(c) \/ Retry(c)
    PROVE  Cardinality(AttemptsLeft') <= Cardinality(AttemptsLeft)
<1> USE DEF ClientTypeOK
<1>1. AttemptsLeft' \subseteq AttemptsLeft
  <2> SUFFICES ASSUME NEW a \in AttemptsLeft' PROVE a \in AttemptsLeft
    OBVIOUS
  <2>1. a \in Attempts /\ a[1] \in Calls /\ a[2] \in 1 .. MaxAttempts
    BY DEF AttemptsLeft, Attempts
  <2>2. CASE a[1] = c
    BY <2>1, <2>2 DEF Succeed, Rejected, Escape, Retry, Return, AttemptsLeft
  <2>3. CASE a[1] # c
    BY <2>1, <2>3 DEF Succeed, Rejected, Escape, Retry, Return, AttemptsLeft
  <2> QED
    BY <2>2, <2>3
<1>2. IsFiniteSet(AttemptsLeft)
  BY LeftBelowAll, AttemptsFinite
<1> QED
  BY <1>1, <1>2, FS_Subset

LEMMA StepBacklog ==
    ASSUME BreakerSafe, BacklogInv, [Next]_vars
    PROVE  BacklogBounded'
<1> SUFFICES ASSUME state' = "open"
             PROVE  Len(failures') + Cardinality(AttemptsLeft') <= Cardinality(Attempts)
  BY DEF BacklogBounded, Attempts, AttemptsMax
<1> USE DEF BacklogInv
<1>1. failures \in Seq(Age) /\ Len(failures) \in Nat
  BY DEF BreakerSafe, BreakerTypeOK
<1>2. /\ Prune(failures) \in Seq(Age) /\ Len(Prune(failures)) \in Nat
      /\ Len(Prune(failures)) <= Len(failures)
  BY <1>1, PruneShortens
<1>3. Cardinality(Attempts) \in Nat
  BY AttemptsFinite
<1>4. ASSUME NEW c \in Calls, Admit(c) PROVE FALSE
  BY <1>4 DEF Admit, CanRequest
<1>5. ASSUME NEW c \in Calls, FailFast(c)
      PROVE  Len(failures') + Cardinality(AttemptsLeft') <= Cardinality(Attempts)
  <2>1. AttemptsLeft' = AttemptsLeft
    BY <1>5 DEF FailFast, callVars, AttemptsLeft
  <2> QED
    BY <1>1, <1>2, <1>3, <1>5, <2>1, LeftBelowAll
       DEF FailFast, CannotRequest, BacklogBounded
<1>6. ASSUME NEW c \in Calls, Redirected(c) \/ Unavailable(c)
      PROVE  Len(failures') + Cardinality(AttemptsLeft') <= Cardinality(Attempts)
  <2>1. RecordFailure
    BY <1>6 DEF Redirected, Unavailable
  <2>2. CASE Trips
    <3>1. Len(failures') = 0
      BY <2>1, <2>2 DEF RecordFailure
    <3> QED
      BY <3>1, LeftBelowAll, <1>3
  <2>3. CASE ~Trips
    <3>1. state = "open" /\ Len(failures') = Len(Prune(failures)) + 1
      BY <1>2, <2>1, <2>3 DEF RecordFailure, Counted
    <3>2. Cardinality(AttemptsLeft') + 1 <= Cardinality(AttemptsLeft)
      BY <1>6, FailureUsesAttempt
    <3> QED
      BY <1>1, <1>2, <1>3, <3>1, <3>2, LeftBelowAll DEF BacklogBounded
  <2> QED
    BY <2>2, <2>3
<1>7. ASSUME NEW c \in Calls, Succeed(c) PROVE FALSE
  BY <1>7 DEF Succeed, RecordSuccess
<1>8. ASSUME NEW c \in Calls, Rejected(c) \/ Escape(c) \/ Retry(c)
      PROVE  Len(failures') + Cardinality(AttemptsLeft') <= Cardinality(Attempts)
  <2>1. UNCHANGED breakerVars
    BY <1>8 DEF Rejected, Escape, Retry
  <2>2. Cardinality(AttemptsLeft') <= Cardinality(AttemptsLeft)
    BY <1>8, OthersKeepAttempts
  <2> QED
    BY <1>1, <1>3, <2>1, <2>2, LeftBelowAll DEF breakerVars, BacklogBounded
<1>9. ASSUME Tick \/ UNCHANGED vars
      PROVE  Len(failures') + Cardinality(AttemptsLeft') <= Cardinality(Attempts)
  <2>1. AttemptsLeft' = AttemptsLeft /\ state' = state
    BY <1>9 DEF Tick, BreakerTick, vars, breakerVars, callVars, AttemptsLeft
  <2>2. Len(failures') = Len(failures)
    BY <1>1, <1>9 DEF Tick, BreakerTick, vars, breakerVars
  <2> QED
    BY <2>1, <2>2 DEF BacklogBounded
<1> QED
  BY <1>4, <1>5, <1>6, <1>7, <1>8, <1>9 DEF Next, Settle

\* The failures an OPEN breaker gathers, with those still to come, are no more
\* than the attempts of the calls that share it: nothing caps the deque, but
\* nobody is admitted to add to it (circuit_breaker.py:75-93, client.py:249-269).
THEOREM BacklogIsBounded == Spec => []BacklogBounded
<1>1. Init => BacklogInv
  BY InitTyped
     DEF Init, BreakerInit, BacklogInv, BackoffBelowMax, WithinMax, BacklogBounded
<1>2. BreakerSafe /\ BacklogInv /\ [Next]_vars => BacklogInv'
  BY StepTyped, StepWithinMax, StepBacklog DEF BacklogInv
<1>3. BacklogInv => BacklogBounded
  BY DEF BacklogInv
<1> QED
  BY <1>1, <1>2, <1>3, AlwaysSafe, PTL DEF Spec
=============================================================================
