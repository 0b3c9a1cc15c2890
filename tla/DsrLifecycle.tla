---------------------------- MODULE DsrLifecycle ----------------------------
(***************************************************************************)
(* Requests of data subjects, as officers handle them:                     *)
(* src/portal/routers/dsr.py.  A request is received, its subject's        *)
(* identity is reviewed, evidence is generated and delivered, the request  *)
(* is closed; or it is rejected on the way.                                *)
(*                                                                         *)
(* The calls are those of ServiceCall.  "service is authoritative" about   *)
(* transitions (dsr.py:54); here it takes whatever it is sent, so what     *)
(* holds, holds by the checks of the portal.                               *)
(***************************************************************************)
EXTENDS ServiceCall

CONSTANTS
    Requests,       \* requests of data subjects
    Users,          \* officers
    Public          \* submits through the public portal: no user

ASSUME DsrAssumption == Public \notin Users

VARIABLES
    status,         \* service: status of each request, "absent" before it is there
    submittedBy,    \* service: who submitted it
    reached,        \* every status it has had
    vetted,         \* requests verified by another than their submitter, by a
                    \* method he named
    generated,      \* service: requests evidence was generated for
    issued,         \* service: requests a delivery token was issued for
    audited         \* audit trail: what the portal said was done

serviceVars == <<status, submittedBy, reached, vetted, generated, issued>>
vars == <<callVars, serviceVars, audited>>

Status == {"received", "identity_pending", "identity_insufficient",
           "identity_rejected", "verified", "processing", "evidence_generated",
           "delivered", "closed", "rejected"}

\* A request of an officer; documented is a reason to reject or a method to verify.
Form ==
    [kind : {"transition"}, request : Requests, user : Users, to : Status,
     documented : BOOLEAN]
        \cup [kind : {"evidence", "deliver", "close"}, request : Requests, user : Users]

Op == Status \cup {"evidence", "deliver"}

\* evidence.generation_requested, delivery_token.issued, token.invalidated_on_close.
Event == [request : Requests, kind : {"evidence", "deliver", "close"}]

ASSUME FormAssumption == NoForm \notin Form

TypeOK ==
    /\ CallTypeOK(Form, Status \cup {"absent"}, Op)
    /\ status \in [Requests -> Status \cup {"absent"}]
    /\ submittedBy \in [Requests -> Users \cup {Public}]
    /\ reached \in [Requests -> SUBSET Status]
    /\ vetted \subseteq Requests
    /\ generated \subseteq Requests
    /\ issued \subseteq Requests
    /\ audited \subseteq Event

Init ==
    /\ CallInit
    /\ status = [r \in Requests |-> "absent"]
    /\ submittedBy \in [Requests -> Users \cup {Public}]
    /\ reached = [r \in Requests |-> {}]
    /\ vetted = {} /\ generated = {} /\ issued = {} /\ audited = {}

-----------------------------------------------------------------------------
\* Mutant: identity may be verified as soon as a request is received.
ValidTransitions_Hasty(s) ==
    CASE s = "received" -> {"identity_pending", "verified", "rejected"}
      [] s = "identity_pending" ->
             {"verified", "identity_insufficient", "identity_rejected", "rejected"}
      [] s = "identity_insufficient" ->
             {"identity_pending", "identity_rejected", "rejected"}
      [] s = "verified" -> {"processing", "rejected"}
      [] s = "processing" -> {"evidence_generated", "rejected"}
      [] s = "evidence_generated" -> {"delivered", "rejected"}
      [] s = "delivered" -> {"closed", "rejected"}
      [] OTHER -> {}

ValidTransitions(s) ==
    CASE s = "received" -> {"identity_pending", "rejected"}
      [] s = "identity_pending" ->
             {"verified", "identity_insufficient", "identity_rejected", "rejected"}
      [] s = "identity_insufficient" ->
             {"identity_pending", "identity_rejected", "rejected"}
      [] s = "verified" -> {"processing", "rejected"}
      [] s = "processing" -> {"evidence_generated", "rejected"}
      [] s = "evidence_generated" -> {"delivered", "rejected"}
      [] s = "delivered" -> {"closed", "rejected"}
      [] OTHER -> {}

\* The service has a request of someone: of the public portal, or of a user.
Lodge(r) ==
    /\ status[r] = "absent"
    /\ status' = [status EXCEPT ![r] = "received"]
    /\ reached' = [reached EXCEPT ![r] = {"received"}]
    /\ UNCHANGED <<callVars, submittedBy, vetted, generated, issued, audited>>

Post(t, f) ==
    /\ f.kind = "transition" /\ f.documented => f.to \in {"verified", "rejected"}
    /\ Arrive(t, f)
    /\ UNCHANGED <<serviceVars, audited>>

\* get_dsr_request; what is absent is a 404 (CallFails).
Fetch(t) ==
    /\ pc[t] = "fetching" /\ status[form[t].request] # "absent"
    /\ Read(t, status[form[t].request])
    /\ UNCHANGED <<serviceVars, audited>>

\* Mutant: only the rejection of an identity is kept from the submitter.
SodViolation_Rejecting(f) ==
    /\ f.kind = "transition" /\ f.to = "identity_rejected"
    /\ submittedBy[f.request] = f.user

\* AMD-01: the identity of a request is not for its submitter to judge.
SodViolation(f) ==
    /\ f.kind = "transition"
    /\ f.to \in {"verified", "identity_insufficient", "identity_rejected"}
    /\ submittedBy[f.request] = f.user

\* A rejection has its reason, a verification its method.
Documented(f) ==
    f.kind = "transition" /\ f.to \in {"verified", "rejected"} => f.documented

MayMove(t) == form[t].to \in ValidTransitions(seen[t])

-----------------------------------------------------------------------------
\* dsr_transition.
Transition(t) ==
    LET f == form[t] IN
    /\ pc[t] = "fetched" /\ f.kind = "transition" /\ MayMove(t)
    /\ ~SodViolation(f) /\ Documented(f)
    /\ Send(t, "sending")
    /\ UNCHANGED <<serviceVars, audited>>

\* 409, audited first.
Blocked(t) ==
    /\ pc[t] = "fetched" /\ form[t].kind = "transition" /\ MayMove(t)
    /\ SodViolation(form[t])
    /\ Refuse(t)
    /\ UNCHANGED <<serviceVars, audited>>

Refusal(t) == Refused(t) /\ UNCHANGED <<serviceVars, audited>>

\* 400: the state, or what is missing.
TransitionRefused(t) ==
    LET f == form[t] IN
    /\ pc[t] = "fetched" /\ f.kind = "transition"
    /\ ~MayMove(t) \/ (~SodViolation(f) /\ ~Documented(f))
    /\ Finish(t)
    /\ UNCHANGED <<serviceVars, audited>>

EvidenceStates(s) == s \in {"verified", "processing"}

\* dsr_generate_evidence.
GenerateEvidence(t) ==
    /\ pc[t] = "fetched" /\ form[t].kind = "evidence" /\ EvidenceStates(seen[t])
    /\ Send(t, "sending")
    /\ UNCHANGED <<serviceVars, audited>>

\* dsr_deliver.
Deliver(t) ==
    /\ pc[t] = "fetched" /\ form[t].kind = "deliver" /\ seen[t] = "evidence_generated"
    /\ Send(t, "sending")
    /\ UNCHANGED <<serviceVars, audited>>

\* dsr_close.
Close(t) ==
    /\ pc[t] = "fetched" /\ form[t].kind = "close" /\ seen[t] = "delivered"
    /\ Send(t, "sending")
    /\ UNCHANGED <<serviceVars, audited>>

\* 400, of the three of them.
WrongState(t) ==
    /\ pc[t] = "fetched"
    /\ \/ form[t].kind = "evidence" /\ ~EvidenceStates(seen[t])
       \/ form[t].kind = "deliver" /\ seen[t] # "evidence_generated"
       \/ form[t].kind = "close" /\ seen[t] # "delivered"
    /\ Finish(t)
    /\ UNCHANGED <<serviceVars, audited>>

\* Mutant: the operation is named for its endpoint.
OpOf_Kind(f) == IF f.kind = "transition" THEN f.to ELSE f.kind

\* close_dsr is a transition to closed.
OpOf(f) ==
    CASE f.kind = "transition" -> f.to
      [] f.kind = "close" -> "closed"
      [] OTHER -> f.kind

\* What the service may make of a request: an evidence job may end at once.
StatusAfter(op, r) ==
    CASE op = "evidence" -> {status[r], "evidence_generated"}
      [] op = "deliver" -> {"delivered"}
      [] OTHER -> {op}

\* The service takes mutation op of form f.
Apply(op, f) ==
    LET r == f.request IN
    /\ status[r] # "absent"
    /\ \E s \in StatusAfter(op, r) :
         /\ status' = [status EXCEPT ![r] = s]
         /\ reached' = [reached EXCEPT ![r] = @ \cup {s}]
    /\ vetted' = IF op = "verified" /\ f.documented /\ submittedBy[r] # f.user
                 THEN vetted \cup {r} ELSE vetted
    /\ generated' = IF op = "evidence" THEN generated \cup {r} ELSE generated
    /\ issued' = IF op = "deliver" THEN issued \cup {r} ELSE issued
    /\ UNCHANGED submittedBy

ServiceTakes(t) ==
    /\ pc[t] = "sending" /\ Take(t) /\ Apply(OpOf(form[t]), form[t])
    /\ UNCHANGED audited

ServiceTakesLate(m) == TakeLate(m) /\ Apply(m.op, m.form) /\ UNCHANGED audited

-----------------------------------------------------------------------------
\* Mutant: the event is sent before the service has answered.
Answered_Early(t) ==
    /\ pc[t] = "sending"
    /\ Goto(t, IF form[t].kind = "transition" THEN "reloading" ELSE "advancing")
    /\ UNCHANGED <<form, seen, taken, late, serviceVars, audited>>

\* The mutation is done: every handler but the generic one has it audited.
Answered(t) ==
    /\ pc[t] = "sending" /\ taken[t]
    /\ Goto(t, IF form[t].kind = "transition" THEN "reloading" ELSE "advancing")
    /\ UNCHANGED <<form, seen, taken, late, serviceVars, audited>>

\* The event is recorded, or its failure is logged; close reads the request again.
Audit(t) ==
    LET f == form[t] IN
    /\ pc[t] = "advancing"
    /\ \/ UNCHANGED audited
       \/ audited' = audited \cup {[request |-> f.request, kind |-> f.kind]}
    /\ IF f.kind = "close"
       THEN Goto(t, "reloading") /\ UNCHANGED <<form, seen, taken, late>>
       ELSE Finish(t)
    /\ UNCHANGED serviceVars

\* The page shows the request as it is read again.
Reloaded(t) ==
    /\ pc[t] = "reloading" /\ Finish(t)
    /\ UNCHANGED <<serviceVars, audited>>

Fails(t) ==
    /\ pc[t] # "advancing" /\ CallFails(t, OpOf(form[t]))
    /\ UNCHANGED <<serviceVars, audited>>

TaskStep(t) ==
    \/ Fetch(t) \/ Transition(t) \/ Blocked(t) \/ Refusal(t) \/ TransitionRefused(t)
    \/ GenerateEvidence(t) \/ Deliver(t) \/ Close(t) \/ WrongState(t)
    \/ ServiceTakes(t) \/ Answered(t) \/ Audit(t) \/ Reloaded(t) \/ Fails(t)

Next ==
    \/ \E r \in Requests : Lodge(r)
    \/ \E t \in Tasks, f \in Form : Post(t, f)
    \/ \E t \in Tasks : TaskStep(t)
    \/ \E m \in late : ServiceTakesLate(m)

Spec == Init /\ [][Next]_vars

-----------------------------------------------------------------------------
\* AMD-01: evidence is generated, and a delivery token issued, only for a request
\* that an officer other than its submitter verified, by a method he named
\* (dsr.py:258-297, 342-346, 387-391).
NothingLeavesUnverified == generated \cup issued \subseteq vetted

\* The step before each step of the way.
StepBefore ==
    [verified |-> "identity_pending", identity_insufficient |-> "identity_pending",
     processing |-> "verified", evidence_generated |-> "verified",
     delivered |-> "evidence_generated", closed |-> "delivered"]

\* Whatever mutations of several officers are taken in whatever order, each
\* status a request has had was come to by way of those before it (dsr.py:56-77).
StepsInOrder ==
    \A r \in Requests, s \in DOMAIN StepBefore :
        s \in reached[r] => StepBefore[s] \in reached[r]

\* The trail does not run ahead of the facts: an event says what the service had
\* done by then (dsr.py:350-361, 397-411, 457-470).
AuditedIsDone ==
    \A e \in audited :
        CASE e.kind = "evidence" -> e.request \in generated
          [] e.kind = "deliver" -> e.request \in issued
          [] e.kind = "close" -> "closed" \in reached[e.request]
=============================================================================
