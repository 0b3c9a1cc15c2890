----------------------------- MODULE ModelReview -----------------------------
(***************************************************************************)
(* Reviews of a model card: src/portal/routers/model_cards.py.  A review   *)
(* is scheduled, gathers evidence, gets a reviewer, a decision and a sign- *)
(* off.  One handler moves it from state to state; another signs it off,   *)
(* with a step-up and a nonce, and reads nothing first.                    *)
(*                                                                         *)
(* The calls are those of ServiceCall, and the service is as in            *)
(* ReportWorkflow: Authoritative or not.                                   *)
(***************************************************************************)
EXTENDS MfaNonce, ServiceCall

CONSTANTS
    Authoritative   \* the service refuses what the state does not allow

ASSUME ReviewAssumption == Authoritative \in BOOLEAN

Reviews == Actions

VARIABLES
    seenAge,    \* ticks since the mfa_at of the User each task was given
    state,      \* service: state of each review, "absent" before it is scheduled
    decided,    \* service: reviews with a decision and its rationale
    signature   \* service: the request that signed a review off

serviceVars == <<state, decided, signature>>
vars == <<mfaVars, callVars, seenAge, serviceVars>>

State == {"scheduled", "evidence_assembly", "reviewer_assigned", "decision",
          "signed_off"}

\* A request, with what its handler looks at; reasoned is a decision of the
\* three there are, with 30 characters of rationale.
SignForm == [kind : {"sign_off"}, user : Users, review : Reviews, worker : Workers,
             nonce : Nonces]

Form ==
    [kind : {"page"}, user : Users, worker : Workers]
        \cup [kind : {"transition"}, review : Reviews, to : State, reasoned : BOOLEAN]
        \cup SignForm

Op == State \cup {"sign"}

ASSUME FormAssumption == NoForm \notin Form

Card == [Reviews -> State \cup {"absent"}]

TypeOK ==
    /\ NonceTypeOK
    /\ CallTypeOK(Form, Card, Op)
    /\ seenAge \in [Tasks -> 0 .. MfaMaxAge + 1]
    /\ state \in Card
    /\ decided \subseteq Reviews
    /\ signature \in [Reviews -> SignForm \cup {NoForm}]

Init ==
    /\ NonceInit /\ CallInit
    /\ seenAge = [t \in Tasks |-> MfaMaxAge + 1]
    /\ state = [v \in Reviews |-> "absent"]
    /\ decided = {}
    /\ signature = [v \in Reviews |-> NoForm]

-----------------------------------------------------------------------------
ValidReviewTransitions ==
    [scheduled |-> {"evidence_assembly"}, evidence_assembly |-> {"reviewer_assigned"},
     reviewer_assigned |-> {"decision"}, decision |-> {"signed_off"},
     signed_off |-> {}, absent |-> {}]

SameUser == UNCHANGED seenAge
DropUser(t) == seenAge' = [seenAge EXCEPT ![t] = MfaMaxAge + 1]

\* model_review_start.
Start(v) ==
    /\ state[v] = "absent"
    /\ state' = [state EXCEPT ![v] = "scheduled"]
    /\ UNCHANGED <<mfaVars, callVars, seenAge, decided, signature>>

\* A request arrives, with the User of its session.
Post(t, f) ==
    /\ f.kind = "sign_off" => binding[f.nonce] # Unissued
    /\ f.kind = "transition" /\ f.reasoned => f.to = "decision"
    /\ Arrive(t, f)
    /\ seenAge' = [seenAge EXCEPT ![t] =
                       IF f.kind = "sign_off" THEN mfaAge[f.user] ELSE @]
    /\ UNCHANGED <<mfaVars, serviceVars>>

Fetch(t) ==
    /\ pc[t] = "fetching" /\ form[t].kind # "sign_off"
    /\ Read(t, state)
    /\ SameUser /\ UNCHANGED <<mfaVars, serviceVars>>

\* Mutant: a nonce for every review that is not over.
NeedsSignOff_Any(s) == s \notin {"absent", "signed_off"}

NeedsSignOff(s) == s = "decision"

\* model_card_detail: a nonce for each review that waits for its sign-off.
Page(t) ==
    LET f == form[t]
        open == {v \in Reviews : NeedsSignOff(seen[t][v])} IN
    /\ pc[t] = "fetched" /\ f.kind = "page"
    /\ \E drawn \in [open -> Nonces] :
         /\ \A v \in open : binding[drawn[v]] = Unissued
         /\ \A v, w \in open : drawn[v] = drawn[w] => v = w
         /\ binding' = [n \in Nonces |->
                IF \E v \in open : drawn[v] = n
                THEN [sub |-> f.user, backend |-> BackendOf[f.worker],
                      action |-> CHOOSE v \in open : drawn[v] = n]
                ELSE binding[n]]
         /\ stored' = stored \cup {drawn[v] : v \in open}
         /\ nonceAge' = [n \in Nonces |->
                IF \E v \in open : drawn[v] = n THEN 0 ELSE nonceAge[n]]
    /\ Finish(t) /\ DropUser(t)
    /\ UNCHANGED <<mfaAge, serviceVars>>

-----------------------------------------------------------------------------
\* A decision needs one of three outcomes and its rationale.
Reasoned(f) == f.to = "decision" => f.reasoned

MayMove(t) ==
    LET f == form[t] IN
    f.to \in ValidReviewTransitions[seen[t][f.review]] /\ Reasoned(f)

Transition(t) ==
    /\ pc[t] = "fetched" /\ form[t].kind = "transition" /\ MayMove(t)
    /\ Send(t, "sending")
    /\ SameUser /\ UNCHANGED <<mfaVars, serviceVars>>

\* 404 or 400.
TransitionRefused(t) ==
    /\ pc[t] = "fetched" /\ form[t].kind = "transition" /\ ~MayMove(t)
    /\ Finish(t) /\ DropUser(t)
    /\ UNCHANGED <<mfaVars, serviceVars>>

SignOffStepUp(t) ==
    /\ pc[t] = "fetching" /\ form[t].kind = "sign_off" /\ ~MfaFresh(seenAge[t])
    /\ Finish(t) /\ DropUser(t)
    /\ UNCHANGED <<mfaVars, serviceVars>>

\* The nonce is consumed, then signed with or refused.
SignOff(t) ==
    LET f == form[t] IN
    /\ pc[t] = "fetching" /\ f.kind = "sign_off" /\ MfaFresh(seenAge[t])
    /\ Consume(f.worker, f.nonce)
    /\ IF Accepts(f.worker, f.nonce, f.user, f.review)
       THEN Send(t, "sending")
       ELSE Refuse(t)
    /\ SameUser /\ UNCHANGED <<mfaAge, serviceVars>>

Refusal(t) == Refused(t) /\ DropUser(t) /\ UNCHANGED <<mfaVars, serviceVars>>

-----------------------------------------------------------------------------
\* Mutant: the name of the form is sent for that of the operation.
OpOf_Form(t) == IF form[t].kind = "sign_off" THEN form[t].kind ELSE form[t].to

OpOf(t) == IF form[t].kind = "sign_off" THEN "sign" ELSE form[t].to

Legal(op, s) == IF op = "sign" THEN s = "decision" ELSE op \in ValidReviewTransitions[s]

\* The service takes mutation op of request f.
Apply(op, f) ==
    LET v == f.review IN
    /\ state[v] # "absent" /\ (Authoritative => Legal(op, state[v]))
    /\ state' = [state EXCEPT ![v] = IF op = "sign" THEN "signed_off" ELSE op]
    /\ decided' = IF op = "decision" /\ f.reasoned THEN decided \cup {v} ELSE decided
    /\ signature' = IF op = "sign" THEN [signature EXCEPT ![v] = f] ELSE signature

ServiceTakes(t) ==
    /\ Take(t) /\ Apply(OpOf(t), form[t])
    /\ SameUser /\ UNCHANGED mfaVars

ServiceTakesLate(m) ==
    /\ TakeLate(m) /\ Apply(m.op, m.form)
    /\ SameUser /\ UNCHANGED mfaVars

\* The card is read again for the page that answers.
Answered(t) ==
    /\ pc[t] = "sending" /\ taken[t]
    /\ Goto(t, "reloading")
    /\ SameUser /\ UNCHANGED <<mfaVars, form, seen, taken, late, serviceVars>>

Reloaded(t) ==
    /\ pc[t] = "reloading"
    /\ Finish(t) /\ DropUser(t)
    /\ UNCHANGED <<mfaVars, serviceVars>>

Fails(t) == CallFails(t, OpOf(t)) /\ DropUser(t) /\ UNCHANGED <<mfaVars, serviceVars>>

TaskStep(t) ==
    \/ Fetch(t) \/ Page(t) \/ Transition(t) \/ TransitionRefused(t)
    \/ SignOffStepUp(t) \/ SignOff(t) \/ Refusal(t) \/ ServiceTakes(t)
    \/ Answered(t) \/ Reloaded(t) \/ Fails(t)

DoStepUp(u) == StepUp(u) /\ UNCHANGED <<callVars, seenAge, serviceVars>>

Tick ==
    /\ NonceTick
    /\ seenAge' = [t \in Tasks |-> Later(seenAge[t], MfaMaxAge + 1)]
    /\ UNCHANGED <<callVars, serviceVars>>

Next ==
    \/ \E v \in Reviews : Start(v)
    \/ \E t \in Tasks, f \in Form : Post(t, f)
    \/ \E t \in Tasks : TaskStep(t)
    \/ \E m \in late : ServiceTakesLate(m)
    \/ \E u \in Users : DoStepUp(u)
    \/ Tick

Spec == Init /\ [][Next]_vars

-----------------------------------------------------------------------------
\* A review that bears a signature bore a reasoned decision before, although
\* sign-off looks at no state and the service may take anything: the nonce is
\* only drawn on a page that showed the decision (model_cards.py:126-135, 281).
SignedAfterDecision == \A v \in Reviews : signature[v] # NoForm => v \in decided

\* AMD-03: a signature was asked for by the user its nonce was drawn for, for
\* that review, and the nonce is gone (model_cards.py:280-303).
SignatureBound ==
    \A v \in Reviews :
        signature[v] # NoForm =>
            LET f == signature[v] IN
            /\ binding[f.nonce].sub = f.user /\ binding[f.nonce].action = v
            /\ f.nonce \notin stored

\* "Sign-off is MFA-gated": a review that is signed off was signed off with a
\* nonce (docs/HOW-TO-USE.md:76).
SignOffIsGated == \A v \in Reviews : state[v] = "signed_off" => signature[v] # NoForm
=============================================================================
