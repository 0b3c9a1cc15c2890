----------------------------- MODULE GateDecision -----------------------------
(***************************************************************************)
(* Deciding a gate: gate_detail and gate_decide of                         *)
(* src/portal/routers/gates.py, on several workers, with the compliance    *)
(* service behind them.                                                    *)
(*                                                                         *)
(* A task is one POST /gates/{id}/decide.  It runs atomically between two  *)
(* awaits.  The service (external) records the first decision it receives  *)
(* for a gate; the two attempts of one call carry one idempotency key, so  *)
(* they are one decision, whose receipt may be lost on the way back.       *)
(***************************************************************************)
EXTENDS MfaNonce

CONSTANTS
    Tasks,          \* submissions
    TriggeredBy,    \* [Actions -> Users \cup {NoOne}]: gate.triggered_by
    Sensitive,      \* the gates classified confidential or restricted
    NoOne, NoNonce, NoTask

ASSUME GateAssumption ==
    /\ TriggeredBy \in [Actions -> Users \cup {NoOne}]
    /\ Sensitive \subseteq Actions
    /\ NoOne \notin Users /\ NoNonce \notin Nonces /\ NoTask \notin Tasks

Gates == Actions

VARIABLES
    pc,         \* where each task is
    form,       \* what it was posted with, and the worker that got it
    seenAge,    \* ticks since the mfa_at of the User it was given
    outcome,    \* what the user was told
    decision,   \* service: the task whose decision each gate bears
    wire,       \* decisions sent; the service may receive them even late
    presented   \* history: nonces some task has presented to a manager

taskVars == <<pc, form, seenAge, outcome>>
vars == <<mfaVars, taskVars, decision, wire, presented>>

Form == [user : Users, gate : Gates, nonce : Nonces \cup {NoNonce}, worker : Workers]

Outcome == {"none", "sod", "step_up", "no_nonce", "nonce_rejected", "error", "receipt"}

TypeOK ==
    /\ NonceTypeOK
    /\ pc \in [Tasks -> {"new", "fetching", "refusing", "submitting", "auditing", "done"}]
    /\ form \in [Tasks -> Form \cup {NoTask}]
    /\ \A t \in Tasks : pc[t] # "new" => form[t] \in Form
    /\ seenAge \in [Tasks -> 0 .. MfaMaxAge + 1]
    /\ outcome \in [Tasks -> Outcome]
    /\ decision \in [Gates -> Tasks \cup {NoTask}]
    /\ wire \subseteq Tasks
    /\ presented \subseteq Nonces

Init ==
    /\ NonceInit
    /\ pc = [t \in Tasks |-> "new"]
    /\ form = [t \in Tasks |-> NoTask]
    /\ seenAge = [t \in Tasks |-> MfaMaxAge + 1]
    /\ outcome = [t \in Tasks |-> "none"]
    /\ decision = [g \in Gates |-> NoTask]
    /\ wire = {}
    /\ presented = {}

-----------------------------------------------------------------------------
\* gate_detail: the page of a sensitive gate carries a nonce, except for the
\* user who fired the gate.
Detail(w, u, g) ==
    /\ g \in Sensitive /\ TriggeredBy[g] # u
    /\ \E n \in Nonces : Issue(w, n, u, g)
    /\ UNCHANGED <<mfaAge, taskVars, decision, wire, presented>>

\* gate_decide is called with the User of the session as it is now, which a
\* later step-up does not change; the first thing it awaits is the gate.
Post(t, f) ==
    /\ pc[t] = "new"
    /\ f.nonce # NoNonce => binding[f.nonce] # Unissued
    /\ pc' = [pc EXCEPT ![t] = "fetching"]
    /\ form' = [form EXCEPT ![t] = f]
    /\ seenAge' = [seenAge EXCEPT ![t] = mfaAge[f.user]]
    /\ UNCHANGED <<mfaVars, outcome, decision, wire, presented>>

Finish(t, o) ==
    /\ pc' = [pc EXCEPT ![t] = "done"]
    /\ outcome' = [outcome EXCEPT ![t] = o]
    /\ UNCHANGED <<form, seenAge>>

\* The refusal is audited, best effort, before it is raised.
Refuse(t, o) ==
    /\ pc' = [pc EXCEPT ![t] = "refusing"]
    /\ outcome' = [outcome EXCEPT ![t] = o]
    /\ UNCHANGED <<form, seenAge, wire>>

Submit(t) ==
    /\ pc' = [pc EXCEPT ![t] = "submitting"]
    /\ wire' = wire \cup {t}
    /\ UNCHANGED <<form, seenAge, outcome>>

\* Mutant: separation of duties only where the step-up applies.
SodViolation_Sensitive(f) == TriggeredBy[f.gate] = f.user /\ f.gate \in Sensitive

SodViolation(f) == TriggeredBy[f.gate] = f.user

\* The gate has arrived: separation of duties first ...
CheckSod(t) ==
    /\ pc[t] = "fetching" /\ SodViolation(form[t])
    /\ Refuse(t, "sod")
    /\ UNCHANGED <<mfaVars, decision, presented>>

\* ... then, for a sensitive gate, the step-up ...
CheckStepUp(t) ==
    LET f == form[t] IN
    /\ pc[t] = "fetching" /\ ~SodViolation(f)
    /\ f.gate \in Sensitive /\ ~MfaFresh(seenAge[t])
    /\ Finish(t, "step_up")
    /\ UNCHANGED <<mfaVars, decision, wire, presented>>

CheckNonceGiven(t) ==
    LET f == form[t] IN
    /\ pc[t] = "fetching" /\ ~SodViolation(f)
    /\ f.gate \in Sensitive /\ MfaFresh(seenAge[t]) /\ f.nonce = NoNonce
    /\ Finish(t, "no_nonce")
    /\ UNCHANGED <<mfaVars, decision, wire, presented>>

\* ... and the nonce, consumed whether or not it is good.
CheckNonce(t) ==
    LET f == form[t] IN
    /\ pc[t] = "fetching" /\ ~SodViolation(f)
    /\ f.gate \in Sensitive /\ MfaFresh(seenAge[t]) /\ f.nonce # NoNonce
    /\ Consume(f.worker, f.nonce)
    /\ presented' = presented \cup {f.nonce}
    /\ IF Accepts(f.worker, f.nonce, f.user, f.gate)
       THEN Submit(t)
       ELSE Refuse(t, "nonce_rejected")
    /\ UNCHANGED <<mfaAge, decision>>

\* Any other gate needs neither.
SkipMfa(t) ==
    /\ pc[t] = "fetching" /\ ~SodViolation(form[t])
    /\ form[t].gate \notin Sensitive
    /\ Submit(t)
    /\ UNCHANGED <<mfaVars, decision, presented>>

\* The audit call returns or fails: the refusal is raised all the same.
Refused(t) ==
    /\ pc[t] = "refusing"
    /\ Finish(t, outcome[t])
    /\ UNCHANGED <<mfaVars, decision, wire, presented>>

\* decide_human_gate reaches the service, which takes the first decision; a
\* caller that has given up may still be heard.
ServiceDecides(t) ==
    /\ t \in wire /\ decision[form[t].gate] = NoTask
    /\ decision' = [decision EXCEPT ![form[t].gate] = t]
    /\ UNCHANGED <<mfaVars, taskVars, wire, presented>>

\* The receipt comes back.
ReceiptArrives(t) ==
    /\ pc[t] = "submitting" /\ decision[form[t].gate] = t
    /\ pc' = [pc EXCEPT ![t] = "auditing"]
    /\ UNCHANGED <<mfaVars, form, seenAge, outcome, decision, wire, presented>>

\* The client raises: get_human_gate failed, the service refused the decision,
\* or both attempts were lost, before or after the service recorded it.
CallFails(t) ==
    /\ pc[t] \in {"fetching", "submitting"}
    /\ Finish(t, "error")
    /\ UNCHANGED <<mfaVars, decision, wire, presented>>

\* The breadcrumb is best effort too.
Audited(t) ==
    /\ pc[t] = "auditing"
    /\ Finish(t, "receipt")
    /\ UNCHANGED <<mfaVars, decision, wire, presented>>

TaskStep(t) ==
    \/ CheckSod(t) \/ CheckStepUp(t) \/ CheckNonceGiven(t) \/ CheckNonce(t)
    \/ SkipMfa(t) \/ Refused(t) \/ ReceiptArrives(t) \/ CallFails(t) \/ Audited(t)

DoStepUp(u) == StepUp(u) /\ UNCHANGED <<taskVars, decision, wire, presented>>

Tick ==
    /\ NonceTick
    /\ seenAge' = [t \in Tasks |-> Later(seenAge[t], MfaMaxAge + 1)]
    /\ UNCHANGED <<pc, form, outcome, decision, wire, presented>>

Next ==
    \/ \E w \in Workers, u \in Users, g \in Gates : Detail(w, u, g)
    \/ \E t \in Tasks, f \in Form : Post(t, f)
    \/ \E t \in Tasks : TaskStep(t) \/ ServiceDecides(t)
    \/ \E u \in Users : DoStepUp(u)
    \/ Tick

Spec == Init /\ [][Next]_vars

-----------------------------------------------------------------------------
\* AMD-03: a nonce authorises at most one submission, whichever workers,
\* tabs or retries present it (mfa.py:249-271, gates.py:261-289).
NonceUsedOnce ==
    \A t, s \in Tasks :
        /\ t # s /\ t \in wire /\ s \in wire
        /\ form[t].gate \in Sensitive /\ form[s].gate \in Sensitive
        => form[t].nonce # form[s].nonce

\* The manager keeps its promise to this router: every nonce goes from one
\* holder to at most one request (mfa.py:198-206).
SensitiveUses(n) == {t \in wire : form[t].gate \in Sensitive /\ form[t].nonce = n}

Promise == INSTANCE SingleUse WITH
    Tokens   <- Nonces,
    Holders  <- Binding,
    NoHolder <- Unissued,
    Requests <- Tasks,
    holder   <- binding,
    live     <- stored,
    usedBy   <- [n \in Nonces |-> SensitiveUses(n)]

NoncePromise == Promise!Spec

\* A decision the service bears on a sensitive gate was posted by the user its
\* nonce was issued to, from the page of that gate (gates.py:166-174, 261-289).
DecisionBound ==
    \A g \in Sensitive :
        decision[g] # NoTask =>
            LET f == form[decision[g]] IN
            /\ f.nonce \in Nonces
            /\ binding[f.nonce].sub = f.user /\ binding[f.nonce].action = g
            /\ f.nonce \notin stored

\* No gate bears a decision of the user who triggered it (gates.py:231-249).
SeparationOfDuties ==
    \A g \in Gates : decision[g] # NoTask => form[decision[g]].user # TriggeredBy[g]

\* F-05: the first presentation of a nonce by its own user, on its own gate and
\* within its age, is accepted, whichever worker gets it (mfa.py:10-17).
FirstUseAccepted ==
    [][\A t \in Tasks :
         (pc[t] = "fetching" /\ outcome'[t] = "nonce_rejected")
            => LET f == form[t] IN
               \/ f.nonce \in presented
               \/ nonceAge[f.nonce] > NonceMaxAge
               \/ <<binding[f.nonce].sub, binding[f.nonce].action>>
                     # <<f.user, f.gate>>]_vars
=============================================================================
