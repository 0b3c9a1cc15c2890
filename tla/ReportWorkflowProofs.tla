------------------------- MODULE ReportWorkflowProofs -------------------------
(***************************************************************************)
(* Reports for any number of requests, users, reports, nonces and workers, *)
(* and for a service that takes whatever it is sent: a signed report was   *)
(* approved by another, its signature is bound to its nonce, and only what *)
(* is signed is delivered.                                                 *)
(***************************************************************************)
EXTENDS MCReportWorkflow, ServiceCallProofs

ServiceTypeOK ==
    /\ stage \in [Reports -> Stage \cup {"absent"}]
    /\ creator \in [Reports -> Users \cup {NoOne}]
    /\ approver \in [Reports -> Users \cup {NoOne}]
    /\ signature \in [Reports -> SignForm \cup {NoForm}]
    /\ recorded \subseteq Reports

AgeTypeOK == seenAge \in [Tasks -> 0 .. MfaMaxAge + 1]

LEMMA TypeParts ==
    TypeOK <=> NonceTypeOK /\ CallTypeOK(Form, Stage, Op) /\ AgeTypeOK /\ ServiceTypeOK
BY DEF TypeOK, AgeTypeOK, ServiceTypeOK

-----------------------------------------------------------------------------
(* The inductive invariant. *)

\* The nonce of f was drawn for its user and report, and is gone.
Bound(f) ==
    /\ binding[f.nonce] # Unissued
    /\ binding[f.nonce].sub = f.user /\ binding[f.nonce].action = f.report
    /\ f.nonce \notin stored

\* What is known of a mutation that is under way, whatever happens meanwhile.
MessageOK(op, f) ==
    /\ op \in Op /\ f \in Form
    /\ stage[f.report] # "absent"
    /\ op = "approved" => f.kind = "approve" /\ f.user # creator[f.report]
    /\ op = "signed" => f.kind = "sign" /\ approver[f.report] # NoOne /\ Bound(f)
    /\ op \in {"record", "delivered"} => signature[f.report] # NoForm

LateOK == \A m \in late : MessageOK(m.op, m.form)

SendOK(t) ==
    pc[t] \in {"sending", "advancing"} =>
        form[t].kind # "page" /\ MessageOK(OpOf(t), form[t])

\* What was read may be old, but some of it stays true.
ViewOK(t) ==
    pc[t] = "fetched" =>
        /\ stage[form[t].report] # "absent"
        /\ seen[t] = "approved" => approver[form[t].report] # NoOne
        /\ seen[t] = "signed" => signature[form[t].report] # NoForm

ReportOK(r) ==
    /\ stage[r] = "approved" => approver[r] # NoOne
    /\ stage[r] \in {"signed", "delivered"} \/ r \in recorded => signature[r] # NoForm
    /\ approver[r] # NoOne => approver[r] \in Admins \ {creator[r]} /\ stage[r] # "absent"
    /\ signature[r] # NoForm =>
           approver[r] # NoOne /\ signature[r].report = r /\ Bound(signature[r])

NonceOK(n) ==
    /\ n \in stored => binding[n] # Unissued
    /\ binding[n] # Unissued => approver[binding[n].action] # NoOne

IInv ==
    /\ TypeOK
    /\ LateOK
    /\ \A t \in Tasks : SendOK(t) /\ ViewOK(t)
    /\ \A r \in Reports : ReportOK(r)
    /\ \A n \in Nonces : NonceOK(n)

LEMMA InitIInv == Init => IInv
<1> SUFFICES ASSUME Init PROVE IInv
  OBVIOUS
<1> USE DEF Init, NonceInit, CallInit
<1>1. NonceTypeOK /\ AgeTypeOK
  BY NonceAssumption DEF NonceTypeOK, AgeTypeOK
<1>2. CallTypeOK(Form, Stage, Op) /\ ServiceTypeOK
  BY DEF CallTypeOK, Label, ServiceTypeOK
<1>3. LateOK /\ \A t \in Tasks : SendOK(t) /\ ViewOK(t)
  BY DEF LateOK, SendOK, ViewOK
<1>4. \A r \in Reports : ReportOK(r)
  BY DEF ReportOK
<1>5. \A n \in Nonces : NonceOK(n)
  BY DEF NonceOK
<1> QED
  BY <1>1, <1>2, <1>3, <1>4, <1>5, TypeParts DEF IInv

-----------------------------------------------------------------------------
(* Types, one group of variables at a time. *)

LEMMA FormKinds ==
    ASSUME NEW f \in Form
    PROVE  /\ f.kind \in {"page", "review", "approve", "sign", "deliver"}
           /\ f.report \in Reports
           /\ f.kind = "sign" => f \in SignForm
           /\ f.kind = "approve" => f.user \in Admins
           /\ f.kind \in {"page", "sign"} => f.user \in Users /\ f.worker \in Workers
BY DEF Form, SignForm

LEMMA ZeroAge == 0 \in 0 .. MfaMaxAge + 1 /\ 0 \in 0 .. NonceMaxAge + 1
                 /\ MfaMaxAge + 1 \in 0 .. MfaMaxAge + 1
BY NonceAssumption

LEMMA LaterBounded ==
    ASSUME NEW b \in Nat, NEW a \in 0 .. b + 1
    PROVE  Later(a, b + 1) \in 0 .. b + 1
BY DEF Later

\* The age of the User of a task stays in range.
LEMMA AgeStep == TypeOK /\ [Next]_vars => AgeTypeOK'
<1> SUFFICES ASSUME TypeOK, [Next]_vars PROVE AgeTypeOK'
  OBVIOUS
<1>0. AgeTypeOK /\ NonceTypeOK
  BY TypeParts
<1>1. CASE UNCHANGED seenAge
  BY <1>0, <1>1 DEF AgeTypeOK
<1>2. CASE \E t \in Tasks : DropUser(t)
  BY <1>0, <1>2, ZeroAge DEF AgeTypeOK, DropUser
<1>3. CASE \E t \in Tasks, f \in Form : Post(t, f)
  <2>1. PICK t \in Tasks, f \in Form : Post(t, f)
    BY <1>3
  <2>2. f.kind = "sign" => mfaAge[f.user] \in 0 .. MfaMaxAge + 1
    BY <1>0, FormKinds DEF NonceTypeOK
  <2>3. CASE f.kind = "sign"
    BY <1>0, <2>1, <2>2, <2>3 DEF Post, AgeTypeOK
  <2>4. CASE f.kind # "sign"
    BY <1>0, <2>1, <2>4 DEF Post, AgeTypeOK
  <2> QED
    BY <2>3, <2>4
<1>4. CASE Tick
  BY <1>0, <1>4, NonceAssumption, LaterBounded DEF Tick, AgeTypeOK
<1> QED
  BY <1>1, <1>2, <1>3, <1>4 DEF Next, TaskStep, Generate, Fetch, Page, WrongStage,
     SendUnchecked, Approve, SignStepUp, Sign, Refusal, ServiceTakes, Answered, Advance,
     Advanced, Reloaded, Fails, ServiceTakesLate, DoStepUp, SameUser, vars

\* So do the nonces.
LEMMA NonceStep == TypeOK /\ [Next]_vars => NonceTypeOK'
<1> SUFFICES ASSUME TypeOK, [Next]_vars PROVE NonceTypeOK'
  OBVIOUS
<1>0. NonceTypeOK /\ CallTypeOK(Form, Stage, Op)
  BY TypeParts
<1>1. CASE UNCHANGED mfaVars
  BY <1>0, <1>1 DEF NonceTypeOK, mfaVars, nonceVars
<1>2. ASSUME NEW t \in Tasks, Page(t) PROVE NonceTypeOK'
  <2>1. form[t] \in Form /\ form[t].kind = "page"
    BY <1>0, <1>2 DEF Page, CallTypeOK
  <2>2. form[t].user \in Users /\ form[t].report \in Actions /\ form[t].worker \in Workers
    BY <2>1, FormKinds DEF Reports
  <2>3. CASE CanSign(seen[t])
    <3>1. PICK n \in Nonces : Issue(form[t].worker, n, form[t].user, form[t].report)
      BY <1>2, <2>3 DEF Page
    <3>2. [sub |-> form[t].user, action |-> form[t].report,
           backend |-> BackendOf[form[t].worker]] \in Binding
      BY <2>2 DEF Binding
    <3> QED
      BY <1>0, <1>2, <3>1, <3>2, ZeroAge DEF Issue, NonceTypeOK, Page
  <2>4. CASE ~CanSign(seen[t])
    BY <1>0, <1>2, <2>4 DEF Page, NonceTypeOK, nonceVars
  <2> QED
    BY <2>3, <2>4
<1>3. ASSUME NEW t \in Tasks, Sign(t) PROVE NonceTypeOK'
  BY <1>0, <1>3 DEF Sign, Consume, NonceTypeOK
<1>4. ASSUME NEW u \in Users, DoStepUp(u) PROVE NonceTypeOK'
  BY <1>0, <1>4, ZeroAge DEF DoStepUp, StepUp, NonceTypeOK, nonceVars
<1>5. CASE Tick
  <2>1. nonceAge' \in [Nonces -> 0 .. NonceMaxAge + 1]
    BY <1>0, <1>5, NonceAssumption, LaterBounded DEF Tick, NonceTick, NonceTypeOK
  <2>2. mfaAge' \in [Users -> 0 .. MfaMaxAge + 1]
    BY <1>0, <1>5, NonceAssumption, LaterBounded DEF Tick, NonceTick, NonceTypeOK
  <2> QED
    BY <1>0, <1>5, <2>1, <2>2 DEF Tick, NonceTick, NonceTypeOK
<1> QED
  BY <1>1, <1>2, <1>3, <1>4, <1>5 DEF Next, TaskStep, Generate, Post, Fetch, WrongStage,
     SendUnchecked, Approve, SignStepUp, Refusal, ServiceTakes, Answered, Advance,
     Advanced, Reloaded, Fails, ServiceTakesLate, vars

\* And the tasks with their mutations.
LEMMA CallStep == IInv /\ [Next]_vars => CallTypeOK(Form, Stage, Op)'
<1> SUFFICES ASSUME IInv, [Next]_vars PROVE CallTypeOK(Form, Stage, Op)'
  OBVIOUS
<1>0. CallTypeOK(Form, Stage, Op) /\ ServiceTypeOK
  BY TypeParts DEF IInv
<1>1. CASE UNCHANGED callVars
  BY <1>0, <1>1 DEF CallTypeOK, callVars
<1>2. ASSUME NEW t \in Tasks, NEW f \in Form, Post(t, f)
      PROVE  CallTypeOK(Form, Stage, Op)'
  BY <1>0, <1>2, ArriveOrReadTyped DEF Post
<1>3. ASSUME NEW t \in Tasks, Fetch(t) PROVE CallTypeOK(Form, Stage, Op)'
  <2>1. form[t].report \in Reports
    BY <1>0, <1>3, FormKinds DEF Fetch, CallTypeOK
  <2>2. stage[form[t].report] \in Stage
    BY <1>0, <1>3, <2>1 DEF Fetch, ServiceTypeOK
  <2> QED
    BY <1>0, <1>3, <2>2, ArriveOrReadTyped DEF Fetch
<1>4. ASSUME NEW t \in Tasks, Finish(t) PROVE CallTypeOK(Form, Stage, Op)'
  BY <1>0, <1>4, FinishTyped
<1>5. ASSUME NEW t \in Tasks, pc[t] # "idle",
             Refuse(t) \/ \E l \in {"sending", "advancing"} : Send(t, l)
      PROVE  CallTypeOK(Form, Stage, Op)'
  BY <1>0, <1>5, MoveTyped
<1>6. ASSUME NEW t \in Tasks, Take(t) PROVE CallTypeOK(Form, Stage, Op)'
  BY <1>0, <1>6, TakeTyped
<1>7. ASSUME NEW m \in late, TakeLate(m) PROVE CallTypeOK(Form, Stage, Op)'
  BY <1>0, <1>7, TakeTyped
<1>8. \A t \in Tasks : Pending(t) => OpOf(t) \in Op
  BY DEF IInv, SendOK, MessageOK, Pending
<1>9. ASSUME NEW t \in Tasks, Advanced(t) PROVE CallTypeOK(Form, Stage, Op)'
  <2>1. late' \subseteq [op : Op, form : Form]
    BY <1>0, <1>8, <1>9, AbandonTyped DEF Advanced
  <2> QED
    BY <1>0, <1>9, <2>1 DEF Advanced, Goto, CallTypeOK, Label
<1>10. ASSUME NEW t \in Tasks, Fails(t) PROVE CallTypeOK(Form, Stage, Op)'
  BY <1>0, <1>8, <1>10, FailTyped DEF Fails
<1> QED
  BY <1>1, <1>2, <1>3, <1>4, <1>5, <1>6, <1>7, <1>9, <1>10 DEF Next, TaskStep, Generate,
     Page, WrongStage, SendUnchecked, Approve, SignStepUp, Sign, Refusal, Refused,
     ServiceTakes, Answered, Advance, Reloaded, ServiceTakesLate, DoStepUp, Tick, Allowed,
     vars

-----------------------------------------------------------------------------
(* What is known stays known. *)

Grew(r) ==
    /\ stage[r] # "absent" => stage'[r] # "absent" /\ creator'[r] = creator[r]
    /\ approver[r] # NoOne => approver'[r] # NoOne
    /\ signature[r] # NoForm => signature'[r] # NoForm

Spent(n) ==
    binding[n] # Unissued =>
        binding'[n] = binding[n] /\ (n \notin stored => n \notin stored')

\* The service takes mutations that are as they should be.
LEMMA TakenOK ==
    ASSUME IInv, [Next]_vars
    PROVE  \/ UNCHANGED serviceVars
           \/ \E u \in Users, r \in Reports : Generate(u, r)
           \/ \E op \in Op, f \in Form :
                MessageOK(op, f) /\ Apply(op, f) /\ UNCHANGED mfaVars
<1>1. ASSUME NEW t \in Tasks, ServiceTakes(t)
      PROVE  \E op \in Op, f \in Form :
                MessageOK(op, f) /\ Apply(op, f) /\ UNCHANGED mfaVars
  <2>1. MessageOK(OpOf(t), form[t])
    BY <1>1 DEF ServiceTakes, Take, Pending, IInv, SendOK
  <2> QED
    BY <1>1, <2>1 DEF ServiceTakes, MessageOK
<1>2. ASSUME NEW m \in late, ServiceTakesLate(m)
      PROVE  \E op \in Op, f \in Form :
                MessageOK(op, f) /\ Apply(op, f) /\ UNCHANGED mfaVars
  <2>1. MessageOK(m.op, m.form)
    BY <1>2 DEF IInv, LateOK
  <2> QED
    BY <1>2, <2>1 DEF ServiceTakesLate, MessageOK
<1> QED
  BY <1>1, <1>2 DEF Next, TaskStep, Post, Fetch, Page, WrongStage, SendUnchecked, Approve,
     SignStepUp, Sign, Refusal, Answered, Advance, Advanced, Reloaded, Fails, DoStepUp,
     Tick, vars, serviceVars

LEMMA ServiceStep == IInv /\ [Next]_vars => ServiceTypeOK' /\ \A r \in Reports : Grew(r)
<1> SUFFICES ASSUME IInv, [Next]_vars PROVE ServiceTypeOK' /\ \A r \in Reports : Grew(r)
  OBVIOUS
<1>0. ServiceTypeOK
  BY TypeParts DEF IInv
<1>1. CASE UNCHANGED serviceVars
  BY <1>0, <1>1 DEF ServiceTypeOK, serviceVars, Grew
<1>2. ASSUME NEW u \in Users, NEW r \in Reports, Generate(u, r)
      PROVE  ServiceTypeOK' /\ \A q \in Reports : Grew(q)
  BY <1>0, <1>2 DEF Generate, ServiceTypeOK, Stage, Grew
<1>3. ASSUME NEW op \in Op, NEW f \in Form, MessageOK(op, f), Apply(op, f)
      PROVE  ServiceTypeOK' /\ \A r \in Reports : Grew(r)
  <2>1. /\ f.report \in Reports
        /\ op = "approved" => f.user \in Users /\ f.user # NoOne
        /\ op = "signed" => f \in SignForm /\ f # NoForm
        /\ op # "record" => op \in Stage /\ op # "absent"
    BY <1>3, FormKinds, ReportAssumption, FormAssumption DEF MessageOK, Op, Stage
  <2>2. ServiceTypeOK'
    BY <1>0, <1>3, <2>1 DEF Apply, ServiceTypeOK
  <2>3. \A r \in Reports : Grew(r)
    BY <1>0, <1>3, <2>1 DEF Apply, ServiceTypeOK, Grew
  <2> QED
    BY <2>2, <2>3
<1> QED
  BY <1>1, <1>2, <1>3, TakenOK

LEMMA SpentStep == IInv /\ [Next]_vars => \A n \in Nonces : Spent(n)
<1> SUFFICES ASSUME IInv, [Next]_vars, NEW n \in Nonces PROVE Spent(n)
  OBVIOUS
<1>0. NonceTypeOK
  BY TypeParts DEF IInv
<1>1. CASE UNCHANGED <<binding, stored>>
  BY <1>1 DEF Spent
<1>2. ASSUME NEW t \in Tasks, Page(t) PROVE Spent(n)
  <2>1. CASE CanSign(seen[t])
    <3>1. PICK k \in Nonces : Issue(form[t].worker, k, form[t].user, form[t].report)
      BY <1>2, <2>1 DEF Page
    <3> QED
      BY <1>0, <3>1 DEF Issue, Spent, NonceTypeOK
  <2>2. CASE ~CanSign(seen[t])
    BY <1>1, <1>2, <2>2 DEF Page, nonceVars
  <2> QED
    BY <2>1, <2>2
<1>3. ASSUME NEW t \in Tasks, Sign(t) PROVE Spent(n)
  BY <1>3 DEF Sign, Consume, Spent
<1> QED
  BY <1>1, <1>2, <1>3 DEF Next, TaskStep, Generate, Post, Fetch, WrongStage,
     SendUnchecked, Approve, SignStepUp, Refusal, ServiceTakes, Answered, Advance,
     Advanced, Reloaded, Fails, ServiceTakesLate, DoStepUp, StepUp, Tick, NonceTick,
     mfaVars, nonceVars, vars

LEMMA BoundStays ==
    ASSUME IInv, [Next]_vars, NEW f \in SignForm, Bound(f)
    PROVE  Bound(f)'
<1>1. f.nonce \in Nonces
  BY DEF SignForm
<1>2. Spent(f.nonce)
  BY <1>1, SpentStep
<1> QED
  BY <1>1, <1>2 DEF Bound, Spent

LEMMA MessageStays ==
    ASSUME IInv, [Next]_vars, NEW op, NEW f, MessageOK(op, f)
    PROVE  MessageOK(op, f)'
<1>1. f.report \in Reports /\ (op = "signed" => f \in SignForm)
  BY FormKinds DEF MessageOK
<1>2. Grew(f.report)
  BY <1>1, ServiceStep
<1>3. op = "signed" => Bound(f)'
  BY <1>1, BoundStays DEF MessageOK
<1> QED
  BY <1>1, <1>2, <1>3 DEF MessageOK, Grew

-----------------------------------------------------------------------------
(* Each part of the invariant. *)

LEMMA NonceOKStep ==
    IInv /\ [Next]_vars => \A n \in Nonces : NonceOK(n)'
<1> SUFFICES ASSUME IInv, [Next]_vars, NEW n \in Nonces PROVE NonceOK(n)'
  OBVIOUS
<1>0. NonceTypeOK /\ CallTypeOK(Form, Stage, Op) /\ NonceOK(n)
  BY TypeParts DEF IInv
<1>1. \A r \in Reports : approver[r] # NoOne => approver'[r] # NoOne
  BY ServiceStep DEF Grew
<1>2. binding[n] # Unissued => binding[n].action \in Reports
  BY <1>0 DEF NonceTypeOK, Binding, Reports
<1>3. CASE binding' = binding /\ stored' \subseteq stored
  BY <1>0, <1>1, <1>2, <1>3 DEF NonceOK
<1>4. ASSUME NEW t \in Tasks, Page(t), CanSign(seen[t]) PROVE NonceOK(n)'
  <2>1. PICK k \in Nonces : Issue(form[t].worker, k, form[t].user, form[t].report)
    BY <1>4 DEF Page
  <2>2. form[t].report \in Reports
    BY <1>0, <1>4, FormKinds DEF Page, CallTypeOK
  <2>3. approver[form[t].report] # NoOne
    BY <1>4 DEF Page, CanSign, IInv, ViewOK
  <2>4. approver'[form[t].report] # NoOne
    BY <1>1, <2>2, <2>3
  <2>5. CASE n = k
    <3>1. binding'[n].action = form[t].report /\ binding'[n] # Unissued
      <4>1. [sub |-> form[t].user, action |-> form[t].report,
             backend |-> BackendOf[form[t].worker]] \in Binding
        BY <1>0, <1>4, FormKinds DEF Page, CallTypeOK, Binding, Reports
      <4> QED
        BY <1>0, <2>1, <2>5, <4>1, UnissuedAssumption DEF Issue, NonceTypeOK
    <3> QED
      BY <2>4, <3>1 DEF NonceOK
  <2>6. CASE n # k
    <3>1. binding'[n] = binding[n] /\ (n \in stored' => n \in stored)
      BY <1>0, <2>1, <2>6 DEF Issue, NonceTypeOK
    <3> QED
      BY <1>0, <1>1, <1>2, <3>1 DEF NonceOK
  <2> QED
    BY <2>5, <2>6
<1> QED
  BY <1>3, <1>4 DEF Next, TaskStep, Generate, Post, Fetch, Page, WrongStage, Sign, Consume,
     SendUnchecked, Approve, SignStepUp, Refusal, ServiceTakes, Answered, Advance,
     Advanced, Reloaded, Fails, ServiceTakesLate, DoStepUp, StepUp, Tick, NonceTick,
     mfaVars, nonceVars, vars

LEMMA ReportOKStep ==
    IInv /\ [Next]_vars => \A r \in Reports : ReportOK(r)'
<1> SUFFICES ASSUME IInv, [Next]_vars, NEW r \in Reports PROVE ReportOK(r)'
  OBVIOUS
<1>0. ServiceTypeOK /\ ReportOK(r)
  BY TypeParts DEF IInv
<1>1. \A f \in SignForm : Bound(f) => Bound(f)'
  BY BoundStays
<1>2. signature[r] # NoForm => signature[r] \in SignForm
  BY <1>0 DEF ServiceTypeOK
<1>3. CASE UNCHANGED serviceVars
  BY <1>0, <1>1, <1>2, <1>3 DEF serviceVars, ReportOK, Bound
<1>4. ASSUME NEW u \in Users, NEW q \in Reports, Generate(u, q) PROVE ReportOK(r)'
  <2>1. stage' = [stage EXCEPT ![q] = "draft"] /\ (r # q => creator'[r] = creator[r])
        /\ (r = q => stage[r] = "absent") /\ UNCHANGED <<approver, signature, recorded>>
    BY <1>0, <1>4 DEF Generate, ServiceTypeOK
  <2>2. CASE r = q
    BY <1>0, <2>1, <2>2 DEF ReportOK, ServiceTypeOK
  <2>3. CASE r # q
    BY <1>0, <1>1, <1>2, <2>1, <2>3 DEF ReportOK, ServiceTypeOK, Bound
  <2> QED
    BY <2>2, <2>3
<1>5. ASSUME NEW op \in Op, NEW f \in Form, MessageOK(op, f), Apply(op, f)
      PROVE  ReportOK(r)'
  <2>1. f.report \in Reports /\ MessageOK(op, f)'
        /\ (op = "approved" => f.user \in Admins /\ f.user # NoOne)
        /\ (op = "signed" => f \in SignForm /\ f # NoForm)
    BY <1>5, MessageStays, FormKinds, FormAssumption, ReportAssumption DEF MessageOK
  <2>2. CASE r # f.report
    <3>1. /\ stage'[r] = stage[r] /\ approver'[r] = approver[r]
          /\ signature'[r] = signature[r] /\ creator'[r] = creator[r]
          /\ r \in recorded' <=> r \in recorded
      BY <1>0, <1>5, <2>1, <2>2 DEF Apply, ServiceTypeOK
    <3> QED
      BY <1>0, <1>1, <1>2, <3>1 DEF ReportOK, Bound
  <2>3. CASE r = f.report
    <3>1. CASE op = "review"
      <4>1. /\ stage'[r] = "review" /\ approver'[r] = approver[r]
            /\ signature'[r] = signature[r] /\ creator'[r] = creator[r]
            /\ r \in recorded' <=> r \in recorded
        BY <1>0, <1>5, <2>3, <3>1 DEF Apply, ServiceTypeOK
      <4> QED
        BY <1>0, <1>1, <1>2, <4>1 DEF ReportOK, Bound
    <3>2. CASE op = "approved"
      <4>1. /\ stage'[r] = "approved" /\ approver'[r] = f.user
            /\ signature'[r] = signature[r] /\ creator'[r] = creator[r]
            /\ r \in recorded' <=> r \in recorded
        BY <1>0, <1>5, <2>1, <2>3, <3>2 DEF Apply, ServiceTypeOK
      <4>2. f.user # creator[r]
        BY <1>5, <2>3, <3>2 DEF MessageOK
      <4> QED
        BY <1>0, <1>1, <1>2, <2>1, <3>2, <4>1, <4>2 DEF ReportOK, Bound
    <3>3. CASE op = "signed"
      <4>1. /\ stage'[r] = "signed" /\ approver'[r] = approver[r]
            /\ signature'[r] = f /\ creator'[r] = creator[r]
        BY <1>0, <1>5, <2>1, <2>3, <3>3 DEF Apply, ServiceTypeOK
      <4>2. Bound(f)' /\ approver[r] # NoOne
        BY <1>1, <1>5, <2>1, <2>3, <3>3 DEF MessageOK
      <4> QED
        BY <1>0, <2>1, <2>3, <3>3, <4>1, <4>2 DEF ReportOK, Bound
    <3>4. CASE op \in {"record", "delivered"}
      <4>1. /\ stage'[r] \in {stage[r], "delivered"} /\ approver'[r] = approver[r]
            /\ signature'[r] = signature[r] /\ creator'[r] = creator[r]
            /\ signature[r] # NoForm
        BY <1>0, <1>5, <2>3, <3>4 DEF Apply, ServiceTypeOK, MessageOK
      <4> QED
        BY <1>0, <1>1, <1>2, <4>1 DEF ReportOK, Bound
    <3> QED
      BY <3>1, <3>2, <3>3, <3>4 DEF Op
  <2> QED
    BY <2>2, <2>3
<1> QED
  BY <1>3, <1>4, <1>5, TakenOK

\* What the tasks have read, sent and abandoned.
LEMMA ViewStep == IInv /\ [Next]_vars => \A t \in Tasks : ViewOK(t)'
<1> SUFFICES ASSUME IInv, [Next]_vars, NEW t \in Tasks PROVE ViewOK(t)'
  OBVIOUS
<1>0. CallTypeOK(Form, Stage, Op) /\ ServiceTypeOK /\ ViewOK(t)
  BY TypeParts DEF IInv
<1>1. \A r \in Reports : Grew(r)
  BY ServiceStep
<1>2. pc[t] # "idle" => form[t].report \in Reports
  BY <1>0, FormKinds DEF CallTypeOK
<1>3. CASE pc'[t] # "fetched"
  BY <1>3 DEF ViewOK
<1>4. CASE pc[t] = "fetched" /\ pc'[t] = pc[t] /\ form'[t] = form[t] /\ seen'[t] = seen[t]
  BY <1>0, <1>1, <1>2, <1>4 DEF ViewOK, Grew
<1>5. CASE Fetch(t)
  <2>1. /\ form'[t] = form[t] /\ seen'[t] = stage[form[t].report]
        /\ stage[form[t].report] # "absent" /\ UNCHANGED serviceVars
        /\ form[t].report \in Reports
    BY <1>0, <1>2, <1>5 DEF Fetch, Read, CallTypeOK
  <2>2. ReportOK(form[t].report)
    BY <2>1 DEF IInv
  <2> QED
    BY <2>1, <2>2 DEF ViewOK, ReportOK, serviceVars
<1>6. \A s \in Tasks : s # t /\ TaskStep(s) =>
          pc'[t] = pc[t] /\ form'[t] = form[t] /\ seen'[t] = seen[t]
  BY <1>0 DEF TaskStep, Fetch, Read, Page, WrongStage, SendUnchecked, Approve, SignStepUp,
     Sign, Refusal, Refused, ServiceTakes, Take, Answered, Advance, Advanced, Reloaded,
     Fails, CallFails, Finish, Answer, Refuse, Send, Goto, CallTypeOK
<1>7. TaskStep(t) => Fetch(t) \/ pc'[t] # "fetched" \/
          (pc[t] = "fetched" /\ pc'[t] = pc[t] /\ form'[t] = form[t] /\ seen'[t] = seen[t])
  BY <1>0 DEF TaskStep, Page, WrongStage, SendUnchecked, Approve, SignStepUp,
     Sign, Refusal, Refused, ServiceTakes, Take, Answered, Advance, Advanced, Reloaded,
     Fails, CallFails, Finish, Answer, Refuse, Send, Goto, CallTypeOK
<1>8. CASE \E s \in Tasks : TaskStep(s)
  BY <1>0, <1>3, <1>4, <1>5, <1>6, <1>7, <1>8 DEF CallTypeOK
<1>9. CASE \E s \in Tasks, f \in Form : Post(s, f)
  BY <1>0, <1>3, <1>4, <1>9 DEF Post, Arrive, Goto, CallTypeOK
<1>10. CASE UNCHANGED <<pc, form, seen>>
  BY <1>3, <1>4, <1>10
<1> QED
  BY <1>8, <1>9, <1>10 DEF Next, Generate, ServiceTakesLate, TakeLate, DoStepUp, Tick,
     callVars, vars

\* A mutation that is sent is as it should be.
LEMMA SentOK ==
    ASSUME IInv, [Next]_vars, NEW t \in Tasks,
           SendUnchecked(t) \/ Approve(t) \/ Sign(t) \/ Advance(t),
           pc'[t] \in {"sending", "advancing"}
    PROVE  form'[t].kind # "page" /\ MessageOK(OpOf(t), form[t])'
<1>0. CallTypeOK(Form, Stage, Op) /\ ServiceTypeOK /\ NonceTypeOK /\ ViewOK(t) /\ SendOK(t)
  BY TypeParts DEF IInv
<1>1. /\ form' = form /\ UNCHANGED serviceVars /\ form[t] \in Form
      /\ pc[t] # "idle" /\ form[t].report \in Reports
  BY <1>0, FormKinds DEF SendUnchecked, Approve, Sign, Advance, Refuse, Send, Allowed,
     CallTypeOK
<1>2. CASE SendUnchecked(t)
  <2>1. /\ pc'[t] = "sending" /\ pc[t] = "fetched" /\ form[t].kind \in {"review", "deliver"}
        /\ form[t].kind = "deliver" => seen[t] = "signed"
    BY <1>0, <1>2 DEF SendUnchecked, Allowed, Send, Goto, CallTypeOK, StageAllows,
       CanDeliver
  <2> QED
    BY <1>0, <1>1, <2>1 DEF MessageOK, OpOf, Target, Op, ViewOK, serviceVars
<1>3. CASE Approve(t)
  <2>1. pc[t] = "fetched" /\ form[t].kind = "approve" /\ pc'[t] = "sending" /\ ~IsAuthor(t)
    BY <1>0, <1>3 DEF Approve, Allowed, Send, Refuse, Goto, CallTypeOK
  <2> QED
    BY <1>0, <1>1, <2>1 DEF MessageOK, OpOf, Target, Op, ViewOK, IsAuthor, serviceVars
<1>4. CASE Sign(t)
  <2>1. /\ pc[t] = "fetched" /\ form[t].kind = "sign" /\ pc'[t] = "sending"
        /\ seen[t] = "approved"
        /\ Accepts(form[t].worker, form[t].nonce, form[t].user, form[t].report)
    BY <1>0, <1>4 DEF Sign, Allowed, StageAllows, CanSign, Send, Refuse, Goto, CallTypeOK
  <2>2. form[t].nonce \in Nonces
    BY <1>1, <2>1, FormKinds DEF SignForm
  <2>3. binding[form[t].nonce] # Unissued
    BY <2>1, <2>2 DEF Accepts, Found, IInv, NonceOK
  <2>4. /\ binding' = binding /\ form[t].nonce \notin stored'
        /\ binding[form[t].nonce].sub = form[t].user
        /\ binding[form[t].nonce].action = form[t].report
    BY <1>4, <2>1 DEF Sign, Consume, Accepts, Valid, Found
  <2>5. Bound(form[t])'
    BY <1>1, <2>3, <2>4 DEF Bound
  <2> QED
    BY <1>0, <1>1, <2>1, <2>5 DEF MessageOK, OpOf, Target, Op, ViewOK, serviceVars
<1>5. CASE Advance(t)
  <2>1. /\ pc[t] = "sending" /\ form[t].kind = "deliver" /\ pc'[t] = "advancing"
        /\ MessageOK("record", form[t])
    BY <1>0, <1>5 DEF Advance, Send, Goto, CallTypeOK, SendOK, OpOf, Target
  <2> QED
    BY <1>1, <2>1 DEF MessageOK, OpOf, Op, serviceVars
<1> QED
  BY <1>2, <1>3, <1>4, <1>5

LEMMA SendStep == IInv /\ [Next]_vars => \A t \in Tasks : SendOK(t)'
<1> SUFFICES ASSUME IInv, [Next]_vars, NEW t \in Tasks PROVE SendOK(t)'
  OBVIOUS
<1>0. CallTypeOK(Form, Stage, Op) /\ SendOK(t)
  BY TypeParts DEF IInv
<1>1. CASE pc'[t] \notin {"sending", "advancing"}
  BY <1>1 DEF SendOK
<1>2. CASE pc'[t] = pc[t] /\ form'[t] = form[t] /\ pc'[t] \in {"sending", "advancing"}
  <2>1. OpOf(t)' = OpOf(t)
    BY <1>2 DEF OpOf
  <2>2. MessageOK(OpOf(t), form[t])
    BY <1>0, <1>2 DEF SendOK
  <2>3. \A op, f : MessageOK(op, f) => MessageOK(op, f)'
    BY MessageStays
  <2>4. PICK op, f : op = OpOf(t) /\ f = form[t]
    OBVIOUS
  <2>5. MessageOK(op, f)'
    BY <2>2, <2>3, <2>4
  <2> QED
    BY <1>0, <1>2, <2>1, <2>4, <2>5 DEF SendOK, MessageOK, Bound
<1>3. CASE SendUnchecked(t) \/ Approve(t) \/ Sign(t) \/ Advance(t)
  BY <1>1, <1>3, SentOK DEF SendOK
<1>4. \A s \in Tasks : s # t /\ TaskStep(s) => pc'[t] = pc[t] /\ form'[t] = form[t]
  BY <1>0 DEF TaskStep, Fetch, Read, Page, WrongStage, SendUnchecked, Approve, SignStepUp,
     Sign, Refusal, Refused, ServiceTakes, Take, Answered, Advance, Advanced, Reloaded,
     Fails, CallFails, Finish, Answer, Refuse, Send, Goto, CallTypeOK
<1>5. TaskStep(t) =>
        \/ SendUnchecked(t) \/ Approve(t) \/ Sign(t) \/ Advance(t)
        \/ pc'[t] \notin {"sending", "advancing"}
        \/ pc'[t] = pc[t] /\ form'[t] = form[t]
  BY <1>0 DEF TaskStep, Fetch, Read, Page, WrongStage, SignStepUp, Refusal, Refused,
     ServiceTakes, Take, Answered, Advanced, Reloaded, Fails, CallFails, Finish, Answer,
     Goto, CallTypeOK
<1>6. CASE \E s \in Tasks : TaskStep(s)
  BY <1>1, <1>2, <1>3, <1>4, <1>5, <1>6
<1>7. CASE \E s \in Tasks, f \in Form : Post(s, f)
  BY <1>0, <1>1, <1>2, <1>7 DEF Post, Arrive, Goto, CallTypeOK
<1>8. CASE UNCHANGED <<pc, form>>
  BY <1>1, <1>2, <1>8
<1> QED
  BY <1>6, <1>7, <1>8 DEF Next, Generate, ServiceTakesLate, TakeLate, DoStepUp, Tick,
     callVars, vars

LEMMA LateStep == IInv /\ [Next]_vars => LateOK'
<1> SUFFICES ASSUME IInv, [Next]_vars, NEW m \in late' PROVE MessageOK(m.op, m.form)'
  BY DEF LateOK
<1>1. \A op, f : MessageOK(op, f) => MessageOK(op, f)'
  BY MessageStays
<1>2. CASE m \in late
  BY <1>1, <1>2 DEF IInv, LateOK
<1>3. ASSUME NEW t \in Tasks, Abandon(t, OpOf(t)), m \notin late
      PROVE  MessageOK(m.op, m.form)'
  <2>1. Pending(t) /\ m = [op |-> OpOf(t), form |-> form[t]]
    BY <1>3, LateComesFrom
  <2>2. MessageOK(m.op, m.form)
    BY <2>1 DEF IInv, SendOK, Pending
  <2> QED
    BY <1>1, <2>2
<1>4. late' \subseteq late \/ \E t \in Tasks : Abandon(t, OpOf(t))
  BY DEF Next, TaskStep, Generate, Post, Arrive, Fetch, Read, Page, WrongStage, Sign,
     SendUnchecked, Approve, SignStepUp, Refusal, Refused, ServiceTakes, Take, Answered,
     Advance, Advanced, Reloaded, Fails, CallFails, ServiceTakesLate, TakeLate, DoStepUp,
     Tick, Finish, Refuse, Send, callVars, vars
<1> QED
  BY <1>2, <1>3, <1>4

-----------------------------------------------------------------------------
(* The theorems. *)

LEMMA NextIInv == IInv /\ [Next]_vars => IInv'
<1> SUFFICES ASSUME IInv, [Next]_vars PROVE IInv'
  OBVIOUS
<1>1. TypeOK
  BY DEF IInv
<1>2. TypeOK'
  BY <1>1, AgeStep, NonceStep, CallStep, ServiceStep DEF TypeOK, AgeTypeOK, ServiceTypeOK
<1> QED
  BY <1>2, LateStep, SendStep, ViewStep, ReportOKStep, NonceOKStep DEF IInv

\* The invariant is inductive, whatever the handlers and the service do next.
THEOREM Invariance == Spec => []IInv
BY InitIInv, NextIInv, PTL DEF Spec

\* Every variable of ReportWorkflow keeps its type.
THEOREM TypeCorrect == Spec => []TypeOK
<1>1. IInv => TypeOK
  BY DEF IInv
<1> QED
  BY <1>1, Invariance, PTL

\* A signed report was approved by an admin other than its author
\* (reports.py:313-332, 357-361).
THEOREM SignedByFourEyes == Spec => []FourEyes
<1>1. IInv => FourEyes
  BY DEF IInv, ReportOK, FourEyes
<1> QED
  BY <1>1, Invariance, PTL

\* A signature is bound to its signer's nonce for that report, which is gone
\* (reports.py:369-388).
THEOREM SignaturesAreBound == Spec => []SignatureBound
<1>1. IInv => SignatureBound
  BY DEF IInv, ReportOK, SignatureBound, Bound
<1> QED
  BY <1>1, Invariance, PTL

\* Only what was signed is delivered, or has a delivery recorded
\* (reports.py:415-430).
THEOREM OnlySignedIsDelivered == Spec => []DeliveredWasSigned
<1>1. IInv => DeliveredWasSigned
  BY DEF IInv, ReportOK, DeliveredWasSigned
<1> QED
  BY <1>1, Invariance, PTL

\* No nonce is handed out for a report nobody approved (reports.py:249-251).
THEOREM NoncesFollowApproval == Spec => []NonceAfterApproval
<1>1. IInv => NonceAfterApproval
  BY DEF IInv, NonceOK, NonceAfterApproval
<1> QED
  BY <1>1, Invariance, PTL

-----------------------------------------------------------------------------
(* What a user is shown has been done: as long as the service took only what *)
(* the stages allow, no report goes back, so what one request has reached no *)
(* other one undoes before its answer.                                       *)

\* A request that the service has heard has moved its report; only a delivery
\* makes a second call.
DoneOK(t) ==
    pc[t] = "sending" /\ taken[t] =>
        /\ form[t].kind = "review" => Reached(t, "review")
        /\ form[t].kind = "approve" => Reached(t, "approved")
        /\ form[t].kind = "sign" => Reached(t, "signed")

DeliversOn(t) == pc[t] \in {"advancing", "reloading"} => form[t].kind = "deliver"

DoneInv ==
    /\ IInv
    /\ \A t \in Tasks : DeliversOn(t)
    /\ lawful => \A t \in Tasks : DoneOK(t)

LEMMA RankType ==
    ASSUME NEW s \in Stage \cup {"absent"}
    PROVE  Rank[s] \in 0 .. 5
BY DEF Rank, Stage

\* A mutation that its stage allows moves the report on, to the stage it names.
LEMMA LegalMovesOn ==
    ASSUME IInv, NEW op \in Op, NEW f \in Form, MessageOK(op, f), Apply(op, f),
           Legal(op, stage[f.report])
    PROVE  /\ \A r \in Reports : Rank[stage[r]] <= Rank[stage'[r]]
           /\ op # "record" => stage'[f.report] = op
<1>0. f.report \in Reports /\ stage[f.report] \in Stage /\ ServiceTypeOK
  BY FormKinds, TypeParts DEF MessageOK, IInv, ServiceTypeOK
<1>1. CASE op = "record"
  BY <1>0, <1>1, RankType DEF Apply, ServiceTypeOK
<1>2. CASE op # "record"
  <2>1. op \in ValidTransitions[stage[f.report]]
    BY <1>2 DEF Legal
  <2>2. Rank[stage[f.report]] <= Rank[op]
    BY <1>0, <1>2, <2>1 DEF ValidTransitions, Rank, Stage, Op
  <2>3. stage' = [stage EXCEPT ![f.report] = op]
    BY <1>2 DEF Apply
  <2> QED
    BY <1>0, <2>2, <2>3, RankType DEF ServiceTypeOK
<1> QED
  BY <1>1, <1>2

LEMMA LawfulMovesOn ==
    ASSUME IInv, Next, StepIsLawful
    PROVE  \A r \in Reports : Rank[stage[r]] <= Rank[stage'[r]]
<1>0. ServiceTypeOK /\ CallTypeOK(Form, Stage, Op)
  BY TypeParts DEF IInv
<1>1. CASE UNCHANGED stage
  BY <1>0, <1>1, RankType DEF ServiceTypeOK
<1>2. ASSUME NEW u \in Users, NEW r \in Reports, Generate(u, r)
      PROVE  \A q \in Reports : Rank[stage[q]] <= Rank[stage'[q]]
  BY <1>0, <1>2, RankType DEF Generate, ServiceTypeOK, Rank, Stage
<1>3. ASSUME NEW t \in Tasks, ServiceTakes(t)
      PROVE  \A r \in Reports : Rank[stage[r]] <= Rank[stage'[r]]
  <2>1. MessageOK(OpOf(t), form[t]) /\ Apply(OpOf(t), form[t])
    BY <1>3 DEF ServiceTakes, Take, Pending, IInv, SendOK
  <2>2. Legal(OpOf(t), stage[form[t].report])
    BY <1>0, <1>3 DEF ServiceTakes, Take, Pending, StepIsLawful, CallTypeOK
  <2> QED
    BY <2>1, <2>2, LegalMovesOn DEF MessageOK
<1>4. ASSUME NEW m \in late, ServiceTakesLate(m)
      PROVE  \A r \in Reports : Rank[stage[r]] <= Rank[stage'[r]]
  <2>1. MessageOK(m.op, m.form) /\ Apply(m.op, m.form)
    BY <1>4 DEF ServiceTakesLate, IInv, LateOK
  <2>2. Legal(m.op, stage[m.form.report])
    BY <1>4 DEF ServiceTakesLate, TakeLate, StepIsLawful
  <2> QED
    BY <2>1, <2>2, LegalMovesOn DEF MessageOK
<1> QED
  BY <1>1, <1>2, <1>3, <1>4 DEF Next, TaskStep, Post, Fetch, Page, WrongStage,
     SendUnchecked, Approve, SignStepUp, Sign, Refusal, Answered, Advance, Advanced,
     Reloaded, Fails, DoStepUp, Tick, serviceVars

\* Where a request is after a step: where it was, heard by the service, or elsewhere.
LEMMA SendingCases ==
    ASSUME IInv, Next, NEW t \in Tasks
    PROVE  \/ pc'[t] = pc[t] /\ form'[t] = form[t] /\ taken'[t] = taken[t]
           \/ ServiceTakes(t)
           \/ ~(pc'[t] = "sending" /\ taken'[t])
<1>0. CallTypeOK(Form, Stage, Op)
  BY TypeParts DEF IInv
<1>1. ASSUME NEW s \in Tasks, s # t, TaskStep(s)
      PROVE  pc'[t] = pc[t] /\ form'[t] = form[t] /\ taken'[t] = taken[t]
  BY <1>0, <1>1 DEF TaskStep, Fetch, Read, Page, WrongStage, SendUnchecked, Approve,
     SignStepUp, Sign, Refusal, Refused, ServiceTakes, Take, Answered, Advance, Advanced,
     Reloaded, Fails, CallFails, Finish, Answer, Refuse, Send, Goto, CallTypeOK
<1>2. ASSUME TaskStep(t), ~ServiceTakes(t)
      PROVE  ~(pc'[t] = "sending" /\ taken'[t])
  BY <1>0, <1>2 DEF TaskStep, Fetch, Read, Page, WrongStage, SendUnchecked, Approve,
     SignStepUp, Sign, Refusal, Refused, Answered, Advance, Advanced,
     Reloaded, Fails, CallFails, Finish, Answer, Refuse, Send, Goto, CallTypeOK
<1>3. CASE \E s \in Tasks, f \in Form : Post(s, f)
  BY <1>0, <1>3 DEF Post, Arrive, Goto, CallTypeOK
<1>4. CASE UNCHANGED <<pc, form, taken>>
  BY <1>4
<1> QED
  BY <1>1, <1>2, <1>3, <1>4 DEF Next, Generate, ServiceTakesLate, TakeLate, DoStepUp,
     Tick, callVars

LEMMA DoneStep ==
    ASSUME IInv, Next, StepIsLawful, NEW t \in Tasks, DoneOK(t)
    PROVE  DoneOK(t)'
<1>0. CallTypeOK(Form, Stage, Op) /\ ServiceTypeOK /\ ServiceTypeOK'
  BY TypeParts, ServiceStep DEF IInv
<1>1. pc[t] # "idle" => form[t] \in Form /\ form[t].report \in Reports
  BY <1>0, FormKinds DEF CallTypeOK
<1>2. \A r \in Reports : /\ Rank[stage[r]] <= Rank[stage'[r]]
                         /\ Rank[stage[r]] \in 0 .. 5 /\ Rank[stage'[r]] \in 0 .. 5
  BY <1>0, LawfulMovesOn, RankType DEF ServiceTypeOK
<1>3. \A s \in Stage : Rank[s] \in 0 .. 5
  BY RankType
<1>4. CASE pc'[t] = pc[t] /\ form'[t] = form[t] /\ taken'[t] = taken[t]
  BY <1>1, <1>2, <1>3, <1>4 DEF DoneOK, Reached, Stage
<1>5. CASE ServiceTakes(t)
  <2>1. /\ form'[t] = form[t] /\ pc'[t] = pc[t]
        /\ Apply(OpOf(t), form[t]) /\ MessageOK(OpOf(t), form[t])
        /\ Legal(OpOf(t), stage[form[t].report])
    BY <1>0, <1>5 DEF ServiceTakes, Take, Pending, IInv, SendOK, StepIsLawful, CallTypeOK
  <2>2. OpOf(t) # "record" => stage'[form[t].report] = OpOf(t)
    BY <2>1, LegalMovesOn DEF MessageOK
  <2> QED
    BY <1>3, <2>1, <2>2 DEF DoneOK, Reached, OpOf, Target, Stage
<1>6. CASE ~(pc'[t] = "sending" /\ taken'[t])
  BY <1>6 DEF DoneOK
<1> QED
  BY <1>4, <1>5, <1>6, SendingCases

LEMMA DeliversStep ==
    ASSUME IInv, Next, NEW t \in Tasks, DeliversOn(t)
    PROVE  DeliversOn(t)'
<1>0. CallTypeOK(Form, Stage, Op)
  BY TypeParts DEF IInv
<1>1. ASSUME NEW s \in Tasks, s # t, TaskStep(s)
      PROVE  pc'[t] = pc[t] /\ form'[t] = form[t]
  BY <1>0, <1>1 DEF TaskStep, Fetch, Read, Page, WrongStage, SendUnchecked, Approve,
     SignStepUp, Sign, Refusal, Refused, ServiceTakes, Take, Answered, Advance, Advanced,
     Reloaded, Fails, CallFails, Finish, Answer, Refuse, Send, Goto, CallTypeOK
<1>2. ASSUME TaskStep(t)
      PROVE  \/ pc'[t] \notin {"advancing", "reloading"}
             \/ pc'[t] = pc[t] /\ form'[t] = form[t]
             \/ form'[t] = form[t] /\ form[t].kind = "deliver"
  BY <1>0, <1>2 DEF TaskStep, Fetch, Read, Page, WrongStage, SendUnchecked, Approve,
     SignStepUp, Sign, Refusal, Refused, ServiceTakes, Take, Answered, Advance, Advanced,
     Reloaded, Fails, CallFails, Finish, Answer, Refuse, Send, Goto, CallTypeOK,
     DeliversOn
<1>3. CASE \E s \in Tasks, f \in Form : Post(s, f)
  BY <1>0, <1>3 DEF Post, Arrive, Goto, CallTypeOK, DeliversOn
<1>4. CASE UNCHANGED <<pc, form>>
  BY <1>4 DEF DeliversOn
<1> QED
  BY <1>1, <1>2, <1>3, <1>4 DEF Next, Generate, ServiceTakesLate, TakeLate, DoStepUp,
     Tick, callVars, DeliversOn

LEMMA NextDoneInv == DoneInv /\ [MCNext]_mcVars => DoneInv'
<1> SUFFICES ASSUME DoneInv, [MCNext]_mcVars PROVE DoneInv'
  OBVIOUS
<1>1. CASE UNCHANGED mcVars
  <2>1. UNCHANGED vars /\ lawful' = lawful
    BY <1>1 DEF mcVars
  <2>2. IInv'
    BY <2>1, NextIInv DEF DoneInv
  <2>3. \A t \in Tasks : (DeliversOn(t)' <=> DeliversOn(t)) /\ (DoneOK(t)' <=> DoneOK(t))
    BY <2>1 DEF DeliversOn, DoneOK, Reached, vars, callVars, serviceVars
  <2> QED
    BY <2>1, <2>2, <2>3, Zenon DEF DoneInv
<1>2. CASE MCNext
  <2>1. Next /\ lawful' = (lawful /\ StepIsLawful)
    BY <1>2 DEF MCNext
  <2>2. IInv' /\ \A t \in Tasks : DeliversOn(t)'
    BY <2>1, NextIInv, DeliversStep DEF DoneInv
  <2>3. lawful' => lawful /\ StepIsLawful
    BY <2>1, Zenon
  <2>4. lawful' => \A t \in Tasks : DoneOK(t)'
    BY <2>1, <2>3, DoneStep DEF DoneInv
  <2> QED
    BY <2>2, <2>4 DEF DoneInv
<1> QED
  BY <1>1, <1>2

\* Whatever others do to the report meanwhile and whatever calls are lost or late, who
\* is shown the result of a review, an approval or a signature has moved the report
\* there, unless the service took what the stage forbids (reports.py:293-298, 332-337,
\* 386-393).
THEOREM ShownIsAlwaysDone == MCSpec => OkMeansDone
<1>1. MCInit => DoneInv
  BY InitIInv DEF MCInit, DoneInv, DoneOK, DeliversOn, Init, CallInit
<1>2. DoneInv /\ [MCNext]_mcVars => [lawful' => ShownIsDone]_mcVars
  <2> SUFFICES ASSUME DoneInv, MCNext, lawful' PROVE ShownIsDone
    BY Zenon
  <2>1. lawful
    BY Zenon DEF MCNext
  <2>2. \A t \in Tasks : DoneOK(t) /\ DeliversOn(t)
    BY <2>1 DEF DoneInv
  <2> QED
    BY <2>2 DEF ShownIsDone, Shown, Answered, Reloaded, DoneOK, DeliversOn
<1> QED
  BY <1>1, <1>2, NextDoneInv, PTL DEF MCSpec, OkMeansDone
=============================================================================
