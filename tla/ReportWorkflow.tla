---------------------------- MODULE ReportWorkflow ----------------------------
(***************************************************************************)
(* Regulatory reports: the handlers of src/portal/routers/reports.py that  *)
(* move a report through draft, review, approved, signed and delivered,    *)
(* with the stage rules of services/report_workflow.py.                    *)
(*                                                                         *)
(* The calls are those of ServiceCall.  The service (external) either      *)
(* checks every mutation against the stage it holds (Authoritative) or     *)
(* takes what it is sent.                                                  *)
(***************************************************************************)
EXTENDS MfaNonce, ServiceCall

CONSTANTS
    Admins,         \* the users with the admin role; all are officers
    Authoritative,  \* the service refuses what the stage does not allow
    NoOne           \* nobody yet

ASSUME ReportAssumption ==
    /\ Admins \subseteq Users /\ Authoritative \in BOOLEAN
    /\ NoOne \notin Users

Reports == Actions

VARIABLES
    seenAge,    \* ticks since the mfa_at of the User each task was given
    stage,      \* service: stage of each report, "absent" before generate
    creator,    \* service: created_by
    approver,   \* service: approved_by
    signature,  \* service: the request that signed it
    recorded    \* service: reports with a delivery record

serviceVars == <<stage, creator, approver, signature, recorded>>
vars == <<mfaVars, callVars, seenAge, serviceVars>>

\* A request, with what its handler looks at.
SignForm == [kind : {"sign"}, user : Users, report : Reports, worker : Workers,
             nonce : Nonces]

Form ==
    [kind : {"page"}, user : Users, report : Reports, worker : Workers]
        \cup [kind : {"review", "deliver"}, report : Reports]
        \cup [kind : {"approve"}, user : Admins, report : Reports]
        \cup SignForm

Stage == {"draft", "review", "approved", "signed", "delivered"}

Op == {"review", "approved", "signed", "record", "delivered"}

ASSUME FormAssumption == NoForm \notin Form /\ Unread \notin Stage

TypeOK ==
    /\ NonceTypeOK
    /\ CallTypeOK(Form, Stage, Op)
    /\ seenAge \in [Tasks -> 0 .. MfaMaxAge + 1]
    /\ stage \in [Reports -> Stage \cup {"absent"}]
    /\ creator \in [Reports -> Users \cup {NoOne}]
    /\ approver \in [Reports -> Users \cup {NoOne}]
    /\ signature \in [Reports -> SignForm \cup {NoForm}]
    /\ recorded \subseteq Reports

Init ==
    /\ NonceInit /\ CallInit
    /\ seenAge = [t \in Tasks |-> MfaMaxAge + 1]
    /\ stage = [r \in Reports |-> "absent"]
    /\ creator = [r \in Reports |-> NoOne]
    /\ approver = [r \in Reports |-> NoOne]
    /\ signature = [r \in Reports |-> NoForm]
    /\ recorded = {}

-----------------------------------------------------------------------------
\* report_workflow.py: where each stage may go.
ValidTransitions ==
    [draft |-> {"review"}, review |-> {"approved", "draft"},
     approved |-> {"signed"}, signed |-> {"delivered"}, delivered |-> {}]

CanSign(s) == s = "approved"

\* Mutant: the report may be delivered as soon as it can be signed.
CanDeliver_Early(s) == s \in {"approved", "signed"}

CanDeliver(s) == s = "signed"

\* The stage each handler insists on.
StageAllows(kind, s) ==
    CASE kind = "review"  -> "review" \in ValidTransitions[s]
      [] kind = "approve" -> "approved" \in ValidTransitions[s]
      [] kind = "sign"    -> CanSign(s)
      [] kind = "deliver" -> CanDeliver(s)
      [] kind = "page"    -> TRUE

\* The mutation each handler sends; deliver sends "delivered" after its record.
Target == [review |-> "review", approve |-> "approved", sign |-> "signed",
           deliver |-> "record"]

OpOf(t) == IF pc[t] = "advancing" THEN "delivered" ELSE Target[form[t].kind]

SameUser == UNCHANGED seenAge

\* Once a request is answered, its User is forgotten.
DropUser(t) == seenAge' = [seenAge EXCEPT ![t] = MfaMaxAge + 1]

\* reports_generate: a draft in the name of the user the call is made for.
Generate(u, r) ==
    /\ stage[r] = "absent"
    /\ stage' = [stage EXCEPT ![r] = "draft"]
    /\ creator' = [creator EXCEPT ![r] = u]
    /\ UNCHANGED <<mfaVars, callVars, seenAge, approver, signature, recorded>>

\* A request arrives; only an admin may approve.  It awaits get_report.
Post(t, f) ==
    /\ f.kind = "sign" => binding[f.nonce] # Unissued
    /\ Arrive(t, f)
    /\ seenAge' = [seenAge EXCEPT ![t] = IF f.kind = "sign" THEN mfaAge[f.user] ELSE @]
    /\ UNCHANGED <<mfaVars, serviceVars>>

Fetch(t) ==
    /\ pc[t] = "fetching" /\ stage[form[t].report] # "absent"
    /\ Read(t, stage[form[t].report])
    /\ SameUser /\ UNCHANGED <<mfaVars, serviceVars>>

-----------------------------------------------------------------------------
\* Mutant: every page carries a nonce.
Page_Always(t) ==
    /\ pc[t] = "fetched" /\ form[t].kind = "page"
    /\ \E n \in Nonces : Issue(form[t].worker, n, form[t].user, form[t].report)
    /\ Finish(t) /\ DropUser(t)
    /\ UNCHANGED <<mfaAge, serviceVars>>

\* reports_detail: the page of a report that can be signed carries a nonce.
Page(t) ==
    /\ pc[t] = "fetched" /\ form[t].kind = "page"
    /\ IF CanSign(seen[t])
       THEN \E n \in Nonces : Issue(form[t].worker, n, form[t].user, form[t].report)
       ELSE UNCHANGED nonceVars
    /\ Finish(t) /\ DropUser(t)
    /\ UNCHANGED <<mfaAge, serviceVars>>

WrongStage(t) ==
    /\ pc[t] = "fetched" /\ ~StageAllows(form[t].kind, seen[t])
    /\ Finish(t) /\ DropUser(t)
    /\ UNCHANGED <<mfaVars, serviceVars>>

Allowed(t, kind) ==
    pc[t] = "fetched" /\ form[t].kind = kind /\ StageAllows(kind, seen[t])

\* reports_review, and the first call of reports_deliver.
SendUnchecked(t) ==
    /\ Allowed(t, "review") \/ Allowed(t, "deliver")
    /\ Send(t, "sending")
    /\ SameUser /\ UNCHANGED <<mfaVars, serviceVars>>

\* Mutant: the user is compared with the last approver.
IsAuthor_Approver(t) == approver[form[t].report] = form[t].user

IsAuthor(t) == creator[form[t].report] = form[t].user

Approve(t) ==
    /\ Allowed(t, "approve")
    /\ IF IsAuthor(t) THEN Refuse(t) ELSE Send(t, "sending")
    /\ SameUser /\ UNCHANGED <<mfaVars, serviceVars>>

SignStepUp(t) ==
    /\ Allowed(t, "sign") /\ ~MfaFresh(seenAge[t])
    /\ Finish(t) /\ DropUser(t)
    /\ UNCHANGED <<mfaVars, serviceVars>>

\* The nonce is consumed, then signed with or refused.
Sign(t) ==
    LET f == form[t] IN
    /\ Allowed(t, "sign") /\ MfaFresh(seenAge[t])
    /\ Consume(f.worker, f.nonce)
    /\ IF Accepts(f.worker, f.nonce, f.user, f.report)
       THEN Send(t, "sending")
       ELSE Refuse(t)
    /\ SameUser /\ UNCHANGED <<mfaAge, serviceVars>>

Refusal(t) == Refused(t) /\ DropUser(t) /\ UNCHANGED <<mfaVars, serviceVars>>

-----------------------------------------------------------------------------
Legal(op, s) ==
    IF op = "record" THEN s \in {"signed", "delivered"} ELSE op \in ValidTransitions[s]

\* The service takes mutation op of request f.
Apply(op, f) ==
    LET r == f.report IN
    /\ Authoritative => Legal(op, stage[r])
    /\ stage' = IF op = "record" THEN stage ELSE [stage EXCEPT ![r] = op]
    /\ approver' = IF op = "approved" THEN [approver EXCEPT ![r] = f.user] ELSE approver
    /\ signature' = IF op = "signed" THEN [signature EXCEPT ![r] = f] ELSE signature
    /\ recorded' = IF op = "record" THEN recorded \cup {r} ELSE recorded
    /\ UNCHANGED creator

ServiceTakes(t) ==
    /\ Take(t) /\ Apply(OpOf(t), form[t])
    /\ SameUser /\ UNCHANGED mfaVars

ServiceTakesLate(m) ==
    /\ TakeLate(m) /\ Apply(m.op, m.form)
    /\ SameUser /\ UNCHANGED mfaVars

\* Mutant: an error of the call is swallowed, as deliver does.
Answered_Swallows(t) ==
    /\ pc[t] = "sending" /\ form[t].kind # "deliver"
    /\ Finish(t) /\ DropUser(t)
    /\ UNCHANGED <<mfaVars, serviceVars>>

Answered(t) ==
    /\ pc[t] = "sending" /\ taken[t] /\ form[t].kind # "deliver"
    /\ Finish(t) /\ DropUser(t)
    /\ UNCHANGED <<mfaVars, serviceVars>>

\* The delivery is recorded: now the stage ...
Advance(t) ==
    /\ pc[t] = "sending" /\ taken[t] /\ form[t].kind = "deliver"
    /\ Send(t, "advancing")
    /\ SameUser /\ UNCHANGED <<mfaVars, serviceVars>>

\* ... whose answer, or any exception ("already delivered"), is passed over.
Advanced(t) ==
    /\ pc[t] = "advancing"
    /\ Goto(t, "reloading")
    /\ Abandon(t, OpOf(t))
    /\ SameUser /\ UNCHANGED <<mfaVars, form, seen, taken, serviceVars>>

Reloaded(t) ==
    /\ pc[t] = "reloading"
    /\ Finish(t) /\ DropUser(t)
    /\ UNCHANGED <<mfaVars, serviceVars>>

Fails(t) ==
    /\ pc[t] # "advancing"
    /\ CallFails(t, OpOf(t)) /\ DropUser(t)
    /\ UNCHANGED <<mfaVars, serviceVars>>

TaskStep(t) ==
    \/ Fetch(t) \/ Page(t) \/ WrongStage(t) \/ SendUnchecked(t) \/ Approve(t)
    \/ SignStepUp(t) \/ Sign(t) \/ Refusal(t) \/ ServiceTakes(t) \/ Answered(t)
    \/ Advance(t) \/ Advanced(t) \/ Reloaded(t) \/ Fails(t)

DoStepUp(u) == StepUp(u) /\ UNCHANGED <<callVars, seenAge, serviceVars>>

Tick ==
    /\ NonceTick
    /\ seenAge' = [t \in Tasks |-> Later(seenAge[t], MfaMaxAge + 1)]
    /\ UNCHANGED <<callVars, serviceVars>>

Next ==
    \/ \E u \in Users, r \in Reports : Generate(u, r)
    \/ \E t \in Tasks, f \in Form : Post(t, f)
    \/ \E t \in Tasks : TaskStep(t)
    \/ \E m \in late : ServiceTakesLate(m)
    \/ \E u \in Users : DoStepUp(u)
    \/ Tick

Spec == Init /\ [][Next]_vars

-----------------------------------------------------------------------------
\* Four eyes: whatever the service lets through, a signed report was approved
\* before, by an admin who did not author it, although each handler acts on the
\* stage it read and not on the stage there is (reports.py:313-332, 357-361).
FourEyes ==
    \A r \in Reports :
        signature[r] # NoForm => approver[r] \in Admins \ {creator[r]}

\* AMD-03: a signature was asked for by the user its nonce was drawn for, on the
\* page of that report, and the nonce is gone (reports.py:369-388).
SignatureBound ==
    \A r \in Reports :
        signature[r] # NoForm =>
            LET f == signature[r] IN
            /\ binding[f.nonce].sub = f.user /\ binding[f.nonce].action = r
            /\ f.nonce \notin stored

\* Nothing is delivered, and no delivery recorded, that was never signed
\* (reports.py:415-430).
DeliveredWasSigned ==
    \A r \in Reports :
        r \in recorded \/ stage[r] = "delivered" => signature[r] # NoForm

\* A page with a signing nonce is only handed out once the report has been
\* approved (reports.py:249-251).
NonceAfterApproval ==
    \A n \in Nonces : binding[n] # Unissued => approver[binding[n].action] # NoOne

\* The stages in order; with an authoritative service no report goes back.
Rank == [absent |-> 0, draft |-> 1, review |-> 2, approved |-> 3, signed |-> 4,
         delivered |-> 5]

\* The request of task t, of that kind, is being answered with its result.
Shown(t, kind) == form[t] # NoForm /\ form[t].kind = kind /\ (Answered(t) \/ Reloaded(t))

Reached(t, s) == Rank[stage[form[t].report]] >= Rank[s]

\* A user who is shown the result of a review, an approval or a signature has
\* moved the report there (reports.py:293-298, 332-337, 386-393): of a step, and
\* only where the service took no mutation that its stage does not allow.
ShownIsDone ==
    \A t \in Tasks :
        /\ Shown(t, "review") => Reached(t, "review")
        /\ Shown(t, "approve") => Reached(t, "approved")
        /\ Shown(t, "sign") => Reached(t, "signed")

\* "Advance to delivered after first delivery record": a user who is shown the
\* new delivery has advanced the report (reports.py:428-432).
DeliveredOnOk ==
    [][\A t \in Tasks :
         Shown(t, "deliver") => Reached(t, "delivered")]_vars
=============================================================================
