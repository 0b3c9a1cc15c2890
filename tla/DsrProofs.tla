------------------------------ MODULE DsrProofs ------------------------------
(***************************************************************************)
(* Both sides of the requests of data subjects, for any number of          *)
(* requests, officers, addresses, tasks and late mutations, through a      *)
(* service that takes whatever it is sent.                                 *)
(*                                                                         *)
(* The officers (DsrLifecycle).  A handler judges a status it read some    *)
(* steps before, so the invariant says of what is read, sent or still on   *)
(* its way what had been reached when it was judged.  Nothing reached is   *)
(* ever taken back (Grew), so it is still true when the service takes the  *)
(* mutation.                                                               *)
(*                                                                         *)
(* The public portal (PublicDsr, as P).  What is on its way passed the     *)
(* cross-check of its form with the address of a request, and that address *)
(* is never another (AddressesStay).                                       *)
(***************************************************************************)
EXTENDS MCDsr, ServiceCallProofs

-----------------------------------------------------------------------------
(* The officers: the inductive invariant. *)

Grew ==
    /\ \A r \in Requests : reached[r] \subseteq reached'[r]
    /\ vetted \subseteq vetted' /\ generated \subseteq generated'
    /\ issued \subseteq issued'
    /\ submittedBy' = submittedBy

\* What had been reached before mutation op of f could be sent.
Earned(op, f) ==
    /\ op \in DOMAIN StepBefore => StepBefore[op] \in reached[f.request]
    /\ op = "evidence" => "verified" \in reached[f.request]
    /\ op = "deliver" => "evidence_generated" \in reached[f.request]
    /\ op = "verified" => f.documented /\ submittedBy[f.request] # f.user

\* What the service has done once it took the mutation of f.
Done(f) ==
    /\ f.kind = "evidence" => f.request \in generated
    /\ f.kind = "deliver" => f.request \in issued
    /\ f.kind = "close" => "closed" \in reached[f.request]

\* A request has reached the status it has, and if it was verified, by another.
RequestOK(r) ==
    /\ status[r] = "absent" => reached[r] = {}
    /\ status[r] # "absent" => status[r] \in reached[r]
    /\ "verified" \in reached[r] => r \in vetted

ViewOK(t) == pc[t] = "fetched" => seen[t] \in reached[form[t].request]

SendOK(t) == pc[t] = "sending" => Earned(OpOf(form[t]), form[t])

DoneOK(t) ==
    /\ pc[t] = "sending" /\ taken[t] => Done(form[t])
    /\ pc[t] = "advancing" => form[t].kind # "transition" /\ Done(form[t])

LateOK == \A m \in late : Earned(m.op, m.form)

OfficerInv ==
    /\ TypeOK
    /\ \A r \in Requests : RequestOK(r)
    /\ \A t \in Tasks : ViewOK(t) /\ SendOK(t) /\ DoneOK(t)
    /\ LateOK
    /\ StepsInOrder /\ NothingLeavesUnverified /\ AuditedIsDone

-----------------------------------------------------------------------------
(* The vocabulary. *)

\* What a form asks of the service is an operation, and says which form it is.
LEMMA OpOfForm ==
    ASSUME NEW f \in Form
    PROVE  /\ OpOf(f) \in Op
           /\ OpOf(f) = "evidence" <=> f.kind = "evidence"
           /\ OpOf(f) = "deliver" <=> f.kind = "deliver"
           /\ f.kind = "close" => OpOf(f) = "closed"
           /\ f.kind = "transition" => OpOf(f) = f.to
           /\ f.request \in Requests
           /\ f.kind \in {"transition", "evidence", "deliver", "close"}
           /\ OpOf(f) = "verified" => f.kind = "transition" /\ f.to = "verified"
<1>1. CASE f.kind = "transition"
  BY <1>1 DEF Form, OpOf, Op, Status
<1>2. CASE f.kind # "transition"
  BY <1>2 DEF Form, OpOf, Op, Status
<1> QED
  BY <1>1, <1>2

LEMMA StepBeforeDomain ==
    DOMAIN StepBefore = {"verified", "identity_insufficient", "processing",
                         "evidence_generated", "delivered", "closed"}
BY DEF StepBefore

\* Whoever read a status that permits a transition read the status before, or
\* one that is come to by way of it.
LEMMA PermittedIsEarned ==
    ASSUME NEW R, \A s \in DOMAIN StepBefore : s \in R => StepBefore[s] \in R,
           NEW s \in R, NEW to \in ValidTransitions(s), to \in DOMAIN StepBefore
    PROVE  StepBefore[to] \in R
BY StepBeforeDomain DEF StepBefore, ValidTransitions

\* What had been earned or done stays so.
LEMMA EarnedStays ==
    ASSUME Grew, NEW op, NEW f \in Form, Earned(op, f)
    PROVE  Earned(op, f)'
BY OpOfForm DEF Grew, Earned, StepBefore

LEMMA DoneStays ==
    ASSUME Grew, NEW f \in Form, Done(f)
    PROVE  Done(f)'
BY OpOfForm DEF Grew, Done

-----------------------------------------------------------------------------
(* The service. *)

\* A mutation the service takes takes nothing back.
LEMMA ApplyGrows ==
    ASSUME TypeOK, NEW op, NEW f \in Form, Apply(op, f)
    PROVE  Grew
BY OpOfForm DEF TypeOK, Apply, Grew

LEMMA ApplyTyped ==
    ASSUME TypeOK, NEW op \in Op, NEW f \in Form, Apply(op, f)
    PROVE  /\ status' \in [Requests -> Status \cup {"absent"}]
           /\ submittedBy' \in [Requests -> Users \cup {Public}]
           /\ reached' \in [Requests -> SUBSET Status]
           /\ vetted' \subseteq Requests
           /\ generated' \subseteq Requests
           /\ issued' \subseteq Requests
<1>1. f.request \in Requests
  BY OpOfForm
<1>2. \A s \in StatusAfter(op, f.request) : status[f.request] # "absent" => s \in Status
  BY <1>1 DEF TypeOK, StatusAfter, Op, Status
<1> QED
  BY <1>1, <1>2 DEF TypeOK, Apply

\* The invariants of the service's state when it takes what was earned.
LEMMA ApplyKeeps ==
    ASSUME OfficerInv, NEW op \in Op, NEW f \in Form, Earned(op, f), Apply(op, f)
    PROVE  /\ \A r \in Requests : RequestOK(r)'
           /\ StepsInOrder'
           /\ NothingLeavesUnverified'
           /\ op = "evidence" => f.request \in generated'
           /\ op = "deliver" => f.request \in issued'
           /\ op = "closed" => "closed" \in reached'[f.request]
<1> DEFINE r == f.request
<1>1. r \in Requests /\ status[r] # "absent"
  BY OpOfForm DEF Apply
<1>2. PICK s \in StatusAfter(op, r) :
        /\ status' = [status EXCEPT ![r] = s]
        /\ reached' = [reached EXCEPT ![r] = @ \cup {s}]
  BY DEF Apply
<1>3. s \in Status
  BY <1>1 DEF OfficerInv, TypeOK, StatusAfter, Op, Status
<1>4. s \in DOMAIN StepBefore => StepBefore[s] \in reached[r]
  BY <1>1, StepBeforeDomain
  DEF OfficerInv, RequestOK, StepsInOrder, StatusAfter, Earned, StepBefore
<1>5. /\ status'[r] = s /\ reached'[r] = reached[r] \cup {s}
      /\ \A q \in Requests \ {r} : status'[q] = status[q] /\ reached'[q] = reached[q]
  BY <1>1, <1>2 DEF OfficerInv, TypeOK
<1>6. StepsInOrder'
  BY <1>1, <1>4, <1>5 DEF OfficerInv, StepsInOrder, StepBefore
<1>7. vetted \subseteq vetted' /\ (op = "verified" => r \in vetted')
  BY DEF Apply, Earned
<1>8. s = "verified" => op = "verified" \/ "verified" \in reached[r]
  BY <1>1 DEF StatusAfter, OfficerInv, RequestOK
<1>9. \A q \in Requests : RequestOK(q)'
  BY <1>1, <1>3, <1>5, <1>7, <1>8 DEF OfficerInv, RequestOK, Status
<1>10. op \in {"evidence", "deliver"} => r \in vetted
  BY <1>1, StepBeforeDomain DEF Earned, OfficerInv, RequestOK, StepsInOrder, StepBefore
<1>11. NothingLeavesUnverified'
  BY <1>7, <1>10 DEF Apply, OfficerInv, NothingLeavesUnverified
<1>12. op = "closed" => s = "closed"
  BY <1>2 DEF StatusAfter
<1> QED
  BY <1>5, <1>6, <1>9, <1>11, <1>12 DEF Apply

-----------------------------------------------------------------------------
(* The steps of the service. *)

\* What a step of a handler is, as far as the service can tell.
Quiet(t) ==
    \/ Fetch(t) \/ Transition(t) \/ Blocked(t) \/ Refusal(t) \/ TransitionRefused(t)
    \/ GenerateEvidence(t) \/ Deliver(t) \/ Close(t) \/ WrongState(t)
    \/ Answered(t) \/ Reloaded(t) \/ Fails(t)

LEMMA QuietStep ==
    ASSUME NEW t \in Tasks, Quiet(t) \/ \E f \in Form : Post(t, f)
    PROVE  UNCHANGED <<serviceVars, audited>>
BY DEF Quiet, Post, Fetch, Transition, Blocked, Refusal, TransitionRefused,
   GenerateEvidence, Deliver, Close, WrongState, Answered, Reloaded, Fails

ServiceOK ==
    /\ status \in [Requests -> Status \cup {"absent"}]
    /\ submittedBy \in [Requests -> Users \cup {Public}]
    /\ reached \in [Requests -> SUBSET Status]
    /\ vetted \subseteq Requests
    /\ generated \subseteq Requests
    /\ issued \subseteq Requests
    /\ \A r \in Requests : RequestOK(r)
    /\ StepsInOrder /\ NothingLeavesUnverified

LEMMA ServiceUntouched ==
    ASSUME OfficerInv, UNCHANGED serviceVars
    PROVE  Grew /\ ServiceOK'
<1>1. Grew
  BY DEF Grew, serviceVars
<1>2. StepsInOrder' /\ NothingLeavesUnverified'
  BY DEF OfficerInv, StepsInOrder, NothingLeavesUnverified, StepBefore, serviceVars
<1>3. \A r \in Requests : RequestOK(r)'
  BY DEF OfficerInv, RequestOK, serviceVars
<1> QED
  BY <1>1, <1>2, <1>3 DEF OfficerInv, TypeOK, ServiceOK, serviceVars

LEMMA LodgeStep ==
    ASSUME OfficerInv, NEW r \in Requests, Lodge(r)
    PROVE  Grew /\ ServiceOK'
<1>1. reached[r] = {} /\ reached' = [reached EXCEPT ![r] = {"received"}]
  BY DEF Lodge, OfficerInv, RequestOK
<1>2. Grew
  BY <1>1 DEF Grew, Lodge, OfficerInv, TypeOK
<1>3. StepsInOrder'
  BY <1>1, StepBeforeDomain DEF StepsInOrder, OfficerInv, TypeOK
<1>4. \A q \in Requests : RequestOK(q)'
  BY <1>1 DEF RequestOK, OfficerInv, TypeOK, Lodge
<1>5. NothingLeavesUnverified'
  BY DEF NothingLeavesUnverified, OfficerInv, Lodge
<1> QED
  BY <1>1, <1>2, <1>3, <1>4, <1>5 DEF ServiceOK, OfficerInv, TypeOK, Lodge, Status

LEMMA TakenStep ==
    ASSUME OfficerInv,
           \/ \E t \in Tasks : ServiceTakes(t)
           \/ \E m \in late : ServiceTakesLate(m)
    PROVE  Grew /\ ServiceOK'
<1>1. PICK op \in Op, f \in Form : Earned(op, f) /\ Apply(op, f)
  <2>1. ASSUME NEW t \in Tasks, ServiceTakes(t)
        PROVE  \E op \in Op, f \in Form : Earned(op, f) /\ Apply(op, f)
    <3>1. form[t] \in Form
      BY <2>1 DEF ServiceTakes, OfficerInv, TypeOK, CallTypeOK
    <3>2. OpOf(form[t]) \in Op
      BY <3>1, OpOfForm
    <3> QED
      BY <2>1, <3>1, <3>2 DEF ServiceTakes, OfficerInv, SendOK
  <2>2. ASSUME NEW m \in late, ServiceTakesLate(m)
        PROVE  \E op \in Op, f \in Form : Earned(op, f) /\ Apply(op, f)
    <3>1. m.op \in Op /\ m.form \in Form
      BY DEF OfficerInv, TypeOK, CallTypeOK
    <3> QED
      BY <2>2, <3>1 DEF ServiceTakesLate, OfficerInv, LateOK
  <2> QED
    BY <2>1, <2>2
<1>2. Grew
  BY <1>1, ApplyGrows DEF OfficerInv
<1> QED
  BY <1>1, <1>2, ApplyTyped, ApplyKeeps DEF OfficerInv, ServiceOK

LEMMA ServiceStep ==
    ASSUME OfficerInv, [Next]_vars
    PROVE  Grew /\ ServiceOK'
<1>1. ASSUME NEW t \in Tasks, TaskStep(t)
      PROVE  Grew /\ ServiceOK'
  <2>1. CASE Quiet(t)
    BY <2>1, QuietStep, ServiceUntouched
  <2>2. CASE Audit(t)
    BY <2>2, ServiceUntouched DEF Audit
  <2>3. CASE ServiceTakes(t)
    BY <2>3, TakenStep
  <2> QED
    BY <1>1, <2>1, <2>2, <2>3 DEF TaskStep, Quiet
<1>2. CASE \E t \in Tasks, f \in Form : Post(t, f)
  BY <1>2, QuietStep, ServiceUntouched
<1>3. CASE \E r \in Requests : Lodge(r)
  BY <1>3, LodgeStep
<1>4. CASE \E m \in late : ServiceTakesLate(m)
  BY <1>4, TakenStep
<1>5. CASE UNCHANGED vars
  BY <1>5, ServiceUntouched DEF vars
<1> QED
  BY <1>1, <1>2, <1>3, <1>4, <1>5 DEF Next

-----------------------------------------------------------------------------
(* The steps of the tasks. *)

\* The handlers that send a mutation send one that is earned.
LEMMA SendsEarned ==
    ASSUME OfficerInv, NEW t \in Tasks,
           Transition(t) \/ GenerateEvidence(t) \/ Deliver(t) \/ Close(t)
    PROVE  /\ Earned(OpOf(form[t]), form[t])
           /\ Send(t, "sending")
<1> DEFINE f == form[t]
<1>1. f \in Form /\ seen[t] \in reached[f.request]
  BY DEF Transition, GenerateEvidence, Deliver, Close, OfficerInv, ViewOK, TypeOK,
     CallTypeOK
<1>2. f.request \in Requests
  BY <1>1, OpOfForm
<1>3. CASE Transition(t)
  <2>1. f.kind = "transition" /\ f.to \in ValidTransitions(seen[t])
    BY <1>3 DEF Transition, MayMove
  <2>2. OpOf(f) = f.to /\ f.to \notin {"evidence", "deliver"}
    BY <1>1, <2>1, OpOfForm
  <2>3. f.to = "verified" => f.documented /\ submittedBy[f.request] # f.user
    BY <1>3, <2>1 DEF Transition, SodViolation, Documented
  <2>4. f.to \in DOMAIN StepBefore => StepBefore[f.to] \in reached[f.request]
    BY <1>1, <1>2, <2>1, PermittedIsEarned DEF OfficerInv, StepsInOrder
  <2> QED
    BY <1>3, <2>2, <2>3, <2>4 DEF Earned, Transition
<1>4. CASE GenerateEvidence(t)
  <2>1. OpOf(f) = "evidence"
    BY <1>1, <1>4, OpOfForm DEF GenerateEvidence
  <2>2. "verified" \in reached[f.request]
    BY <1>1, <1>2, <1>4, StepBeforeDomain
    DEF GenerateEvidence, EvidenceStates, OfficerInv, StepsInOrder, StepBefore
  <2> QED
    BY <1>4, <2>1, <2>2, StepBeforeDomain DEF Earned, GenerateEvidence
<1>5. CASE Deliver(t)
  <2>1. OpOf(f) = "deliver"
    BY <1>1, <1>5, OpOfForm DEF Deliver
  <2> QED
    BY <1>1, <1>5, <2>1, StepBeforeDomain DEF Earned, Deliver
<1>6. CASE Close(t)
  <2>1. OpOf(f) = "closed"
    BY <1>1, <1>6, OpOfForm DEF Close
  <2>2. "delivered" \in reached[f.request]
    BY <1>1, <1>6 DEF Close
  <2> QED
    BY <1>6, <2>1, <2>2 DEF Earned, Close, StepBefore
<1> QED
  BY <1>3, <1>4, <1>5, <1>6

TaskOK(t) == ViewOK(t) /\ SendOK(t) /\ DoneOK(t)

\* What a task has in hand stays good while others work.
LEMMA WaitingStaysGood ==
    ASSUME OfficerInv, Grew, NEW t \in Tasks,
           pc'[t] = pc[t] /\ form'[t] = form[t] /\ seen'[t] = seen[t],
           taken'[t] = taken[t]
    PROVE  TaskOK(t)'
<1>1. pc[t] # "idle" => form[t] \in Form
  BY DEF OfficerInv, TypeOK, CallTypeOK
<1>2. ViewOK(t)'
  BY <1>1, OpOfForm DEF OfficerInv, ViewOK, Grew
<1>3. SendOK(t)'
  BY <1>1, EarnedStays DEF OfficerInv, SendOK, Earned
<1>4. DoneOK(t)'
  BY <1>1, DoneStays DEF OfficerInv, DoneOK, Done
<1> QED
  BY <1>2, <1>3, <1>4 DEF TaskOK

\* A handler that is not fetched, sending or advancing holds nothing to be judged.
LEMMA NothingInHand ==
    ASSUME NEW t \in Tasks, pc'[t] \notin {"fetched", "sending", "advancing"}
    PROVE  TaskOK(t)'
BY DEF TaskOK, ViewOK, SendOK, DoneOK

LEMMA OwnStep ==
    ASSUME OfficerInv, Grew, NEW t \in Tasks, TaskStep(t)
    PROVE  TaskOK(t)'
<1>0. /\ pc \in [Tasks -> Label]
      /\ pc[t] # "idle" => form[t] \in Form
      /\ form \in [Tasks -> Form \cup {NoForm}] /\ DOMAIN seen = Tasks
      /\ DOMAIN taken = Tasks
  BY DEF OfficerInv, TypeOK, CallTypeOK
<1>1. CASE Fetch(t)
  <2>1. pc'[t] = "fetched" /\ form' = form /\ seen'[t] = status[form[t].request]
    BY <1>0, <1>1 DEF Fetch, Read, Goto
  <2>2. status[form[t].request] \in reached'[form[t].request]
    BY <1>0, <1>1, OpOfForm DEF Fetch, OfficerInv, RequestOK, Grew
  <2> QED
    BY <2>1, <2>2 DEF TaskOK, ViewOK, SendOK, DoneOK
<1>2. CASE Transition(t) \/ GenerateEvidence(t) \/ Deliver(t) \/ Close(t)
  <2>1. Earned(OpOf(form[t]), form[t]) /\ Send(t, "sending")
    BY <1>2, SendsEarned
  <2>2. form[t] \in Form
    BY <1>0, <1>2 DEF Transition, GenerateEvidence, Deliver, Close
  <2>3. pc'[t] = "sending" /\ form' = form /\ ~taken'[t]
    BY <1>0, <2>1 DEF Send, Goto
  <2>4. Earned(OpOf(form[t]), form[t])'
    BY <2>1, <2>2, <2>3, EarnedStays DEF Earned
  <2> QED
    BY <2>3, <2>4 DEF TaskOK, ViewOK, SendOK, DoneOK
<1>3. CASE \/ Blocked(t) \/ Refusal(t) \/ TransitionRefused(t) \/ WrongState(t)
           \/ Audit(t) \/ Reloaded(t) \/ Fails(t)
  <2>1. pc'[t] \in {"idle", "refusing", "reloading"}
    BY <1>0, <1>3 DEF Blocked, Refuse, Refusal, Refused, TransitionRefused, WrongState,
       Audit, Reloaded, Fails, CallFails, Finish, Answer, Goto
  <2> QED
    BY <2>1, NothingInHand
<1>4. CASE ServiceTakes(t)
  <2>1. /\ pc'[t] = "sending" /\ pc[t] = "sending"
        /\ form'[t] = form[t] /\ form[t] \in Form
    BY <1>0, <1>4 DEF ServiceTakes, Take
  <2>2. Earned(OpOf(form[t]), form[t]) /\ Earned(OpOf(form[t]), form[t])'
    BY <2>1, EarnedStays DEF OfficerInv, SendOK, Earned
  <2>3. OpOf(form[t]) \in Op /\ Apply(OpOf(form[t]), form[t])
    BY <1>4, <2>1, OpOfForm DEF ServiceTakes
  <2>4. Done(form[t])'
    BY <2>1, <2>2, <2>3, ApplyKeeps, OpOfForm DEF Done
  <2> QED
    BY <2>1, <2>2, <2>4 DEF TaskOK, ViewOK, SendOK, DoneOK
<1>5. CASE Answered(t)
  <2>1. /\ pc'[t] = IF form[t].kind = "transition" THEN "reloading" ELSE "advancing"
        /\ form'[t] = form[t] /\ form[t] \in Form /\ Done(form[t])
    BY <1>0, <1>5 DEF Answered, Goto, OfficerInv, DoneOK
  <2>2. Done(form[t])'
    BY <2>1, DoneStays DEF Done
  <2> QED
    BY <2>1, <2>2 DEF TaskOK, ViewOK, SendOK, DoneOK
<1> QED
  BY <1>1, <1>2, <1>3, <1>4, <1>5 DEF TaskStep

\* A step of one task is none of another.
LEMMA OthersWait ==
    ASSUME OfficerInv, NEW s \in Tasks, NEW t \in Tasks, s # t,
           TaskStep(s) \/ \E f \in Form : Post(s, f)
    PROVE  /\ pc'[t] = pc[t] /\ form'[t] = form[t] /\ seen'[t] = seen[t]
           /\ taken'[t] = taken[t]
<1>1. /\ DOMAIN pc = Tasks /\ DOMAIN form = Tasks
      /\ DOMAIN seen = Tasks /\ DOMAIN taken = Tasks
  BY DEF OfficerInv, TypeOK, CallTypeOK
<1> QED
  BY <1>1 DEF Post, Arrive, TaskStep, Fetch, Read, Transition, GenerateEvidence, Deliver,
     Close, Send, Blocked, Refuse, Refusal, Refused, TransitionRefused, WrongState, Audit,
     Reloaded, Fails, CallFails, Finish, Answer, Answered, ServiceTakes, Take, Goto

LEMMA TasksStep ==
    ASSUME OfficerInv, Grew, [Next]_vars, NEW t \in Tasks
    PROVE  TaskOK(t)'
<1>1. ASSUME NEW s \in Tasks, TaskStep(s) \/ \E f \in Form : Post(s, f), s # t
      PROVE  TaskOK(t)'
  BY <1>1, OthersWait, WaitingStaysGood
<1>2. CASE TaskStep(t)
  BY <1>2, OwnStep
<1>3. CASE \E f \in Form : Post(t, f)
  <2>1. pc'[t] = "fetching"
    BY <1>3 DEF Post, Arrive, Goto, OfficerInv, TypeOK, CallTypeOK
  <2> QED
    BY <2>1, NothingInHand
<1>4. CASE UNCHANGED <<pc, form, seen, taken>>
  BY <1>4, WaitingStaysGood
<1> QED
  BY <1>1, <1>2, <1>3, <1>4
  DEF Next, Lodge, ServiceTakesLate, TakeLate, callVars, vars

-----------------------------------------------------------------------------
(* Types, late mutations and the audit trail. *)

CallsTyped == CallTypeOK(Form, Status \cup {"absent"}, Op)

LEMMA CallStep ==
    ASSUME OfficerInv, [Next]_vars
    PROVE  CallsTyped'
<1>0. CallTypeOK(Form, Status \cup {"absent"}, Op)
  BY DEF OfficerInv, TypeOK
<1>1. ASSUME NEW t \in Tasks, TaskStep(t)
      PROVE  CallsTyped'
  <2>0. form[t] \in Form => OpOf(form[t]) \in Op
    BY OpOfForm
  <2>1. CASE Fetch(t)
    <3>1. form[t] \in Form
      BY <1>0, <2>1 DEF Fetch, CallTypeOK
    <3>2. status[form[t].request] \in Status \cup {"absent"}
      BY <3>1, OpOfForm DEF OfficerInv, TypeOK
    <3> QED
      BY <1>0, <2>1, <3>2, ArriveOrReadTyped DEF Fetch, CallsTyped
  <2>2. CASE Transition(t) \/ GenerateEvidence(t) \/ Deliver(t) \/ Close(t)
    BY <1>0, <2>2, MoveTyped DEF Transition, GenerateEvidence, Deliver, Close, CallsTyped
  <2>3. CASE Blocked(t)
    BY <1>0, <2>3, MoveTyped DEF Blocked, CallsTyped
  <2>4. CASE Refusal(t) \/ TransitionRefused(t) \/ WrongState(t) \/ Reloaded(t)
    BY <1>0, <2>4, FinishTyped
    DEF Refusal, Refused, TransitionRefused, WrongState, Reloaded, CallsTyped
  <2>5. CASE ServiceTakes(t)
    BY <1>0, <2>5, TakeTyped DEF ServiceTakes, CallsTyped
  <2>6. CASE Answered(t)
    BY <1>0, <2>6 DEF Answered, Goto, CallTypeOK, CallsTyped, Label
  <2>7. CASE Audit(t)
    <3>1. CASE form[t].kind = "close"
      BY <1>0, <2>7, <3>1, MoveTyped DEF Audit, CallsTyped
    <3>2. CASE form[t].kind # "close"
      BY <1>0, <2>7, <3>2, FinishTyped DEF Audit, CallsTyped
    <3> QED
      BY <3>1, <3>2
  <2>8. CASE Fails(t)
    <3>1. Pending(t) => OpOf(form[t]) \in Op
      BY <1>0, <2>0 DEF Pending, CallTypeOK
    <3> QED
      BY <1>0, <2>8, <3>1, FailTyped DEF Fails, CallsTyped
  <2> QED
    BY <1>1, <2>1, <2>2, <2>3, <2>4, <2>5, <2>6, <2>7, <2>8 DEF TaskStep
<1>2. CASE \E t \in Tasks, f \in Form : Post(t, f)
  BY <1>0, <1>2, ArriveOrReadTyped DEF Post, CallsTyped
<1>3. CASE \E m \in late : ServiceTakesLate(m)
  BY <1>0, <1>3, TakeTyped DEF ServiceTakesLate, CallsTyped
<1>4. CASE UNCHANGED callVars
  BY <1>0, <1>4 DEF callVars, CallTypeOK, CallsTyped
<1> QED
  BY <1>1, <1>2, <1>3, <1>4 DEF Next, Lodge, vars

LEMMA LateStep ==
    ASSUME OfficerInv, Grew, [Next]_vars
    PROVE  LateOK'
<1> SUFFICES ASSUME NEW m \in late' PROVE Earned(m.op, m.form)'
  BY DEF LateOK
<1>1. CASE m \in late
  <2>1. m.form \in Form /\ Earned(m.op, m.form)
    BY <1>1 DEF OfficerInv, TypeOK, CallTypeOK, LateOK
  <2> QED
    BY <2>1, EarnedStays
<1>2. ASSUME NEW t \in Tasks, Fails(t), m \notin late
      PROVE  Earned(m.op, m.form)'
  <2>1. Pending(t) /\ m = [op |-> OpOf(form[t]), form |-> form[t]]
    BY <1>2, LateComesFrom DEF Fails, CallFails
  <2>2. pc[t] = "sending"
    BY <1>2, <2>1 DEF Fails, Pending
  <2>3. form[t] \in Form /\ Earned(OpOf(form[t]), form[t])
    BY <2>2 DEF OfficerInv, TypeOK, CallTypeOK, SendOK
  <2> QED
    BY <2>1, <2>3, EarnedStays
<1>3. late' \subseteq late \/ \E t \in Tasks : Fails(t)
  BY DEF Next, TaskStep, Lodge, Post, Arrive, Fetch, Read, Transition, GenerateEvidence,
     Deliver, Close, Send, Blocked, Refuse, Refusal, Refused, TransitionRefused,
     WrongState, Audit, Reloaded, Finish, Answered, ServiceTakes, Take, ServiceTakesLate,
     TakeLate, callVars, vars
<1> QED
  BY <1>1, <1>2, <1>3

\* An event is recorded by a handler whose mutation was taken.
LEMMA AuditStep ==
    ASSUME OfficerInv, Grew, [Next]_vars
    PROVE  audited' \subseteq Event /\ AuditedIsDone'
<1>1. \A e \in audited : e \in Event /\ Done(e)'
  BY DEF OfficerInv, TypeOK, AuditedIsDone, Grew, Event, Done
<1>2. ASSUME NEW t \in Tasks, Audit(t)
      PROVE  audited' \subseteq Event /\ \A e \in audited' : Done(e)'
  <2>1. form[t] \in Form /\ form[t].kind # "transition" /\ Done(form[t])
    BY <1>2 DEF Audit, OfficerInv, DoneOK, TypeOK, CallTypeOK
  <2> DEFINE event == [request |-> form[t].request, kind |-> form[t].kind]
  <2>2. event \in Event
    BY <2>1, OpOfForm DEF Event
  <2>3. \A e : e = event => Done(e)'
    BY <1>2, <2>1 DEF Done, Audit, serviceVars
  <2>4. audited' \subseteq audited \cup {event}
    BY <1>2 DEF Audit
  <2> HIDE DEF event
  <2> QED
    BY <1>1, <2>2, <2>3, <2>4
<1>3. CASE audited' = audited
  BY <1>1, <1>3 DEF AuditedIsDone, Event, Done
<1>4. audited' = audited \/ \E t \in Tasks : Audit(t)
  BY QuietStep DEF Next, TaskStep, Quiet, Lodge, ServiceTakes, ServiceTakesLate, vars
<1> QED
  BY <1>2, <1>3, <1>4 DEF AuditedIsDone, Event, Done

-----------------------------------------------------------------------------
(* The theorems. *)

LEMMA OfficerInit == Init => OfficerInv
<1> SUFFICES ASSUME Init PROVE OfficerInv
  OBVIOUS
<1>1. TypeOK
  BY DEF Init, CallInit, TypeOK, CallTypeOK, Label
<1>2. \A t \in Tasks : ViewOK(t) /\ SendOK(t) /\ DoneOK(t)
  BY DEF Init, CallInit, ViewOK, SendOK, DoneOK
<1>3. LateOK /\ StepsInOrder /\ NothingLeavesUnverified /\ AuditedIsDone
  BY DEF Init, CallInit, LateOK, StepsInOrder, NothingLeavesUnverified, AuditedIsDone
<1>4. \A r \in Requests : RequestOK(r)
  BY DEF Init, RequestOK
<1> QED
  BY <1>1, <1>2, <1>3, <1>4 DEF OfficerInv

LEMMA OfficerStep == OfficerInv /\ [Next]_vars => OfficerInv'
<1> SUFFICES ASSUME OfficerInv, [Next]_vars PROVE OfficerInv'
  OBVIOUS
<1>1. Grew /\ ServiceOK'
  BY ServiceStep
<1>2. CallsTyped' /\ LateOK' /\ audited' \subseteq Event /\ AuditedIsDone'
  BY <1>1, CallStep, LateStep, AuditStep
<1>3. \A t \in Tasks : TaskOK(t)'
  BY <1>1, TasksStep
<1>4. TypeOK'
  BY <1>1, <1>2 DEF TypeOK, ServiceOK, CallsTyped
<1> QED
  BY <1>1, <1>2, <1>3, <1>4 DEF OfficerInv, ServiceOK, TaskOK

\* The invariant is inductive, whatever the officers and the service do next.
THEOREM OfficerInvariance == Spec => []OfficerInv
BY OfficerInit, OfficerStep, PTL DEF Spec

\* Every variable of DsrLifecycle keeps its type.
THEOREM OfficerTypeCorrect == Spec => []TypeOK
<1>1. OfficerInv => TypeOK
  BY DEF OfficerInv
<1> QED
  BY <1>1, OfficerInvariance, PTL

\* AMD-01: no evidence and no delivery token for a request that nobody but its
\* submitter vouched for (dsr.py:258-297, 342-346, 387-391).
THEOREM NothingLeavesUnverifiedEver == Spec => []NothingLeavesUnverified
<1>1. OfficerInv => NothingLeavesUnverified
  BY DEF OfficerInv
<1> QED
  BY <1>1, OfficerInvariance, PTL

\* Each status a request has had was come to by way of those before it
\* (dsr.py:56-77).
THEOREM StepsStayInOrder == Spec => []StepsInOrder
<1>1. OfficerInv => StepsInOrder
  BY DEF OfficerInv
<1> QED
  BY <1>1, OfficerInvariance, PTL

\* The audit trail never runs ahead of the facts (dsr.py:350-361, 457-470).
THEOREM TrailFollowsFacts == Spec => []AuditedIsDone
<1>1. OfficerInv => AuditedIsDone
  BY DEF OfficerInv
<1> QED
  BY <1>1, OfficerInvariance, PTL

-----------------------------------------------------------------------------
(* The public portal: types and the inductive invariant. *)

PublicCalls == P!CallTypeOK(P!Form, P!View, P!Op)

PublicServiceTypeOK ==
    /\ email \in [References -> Emails \cup {Nobody}]
    /\ cited \in [References -> P!Verdict \cup {"none"}]
    /\ proofs \subseteq [reference : References \cup {NoReference}, email : Emails]
    /\ bundle \in [References -> {"none", "good", "expired"}]

LEMMA PublicTypeParts == P!TypeOK <=> PublicCalls /\ PublicServiceTypeOK
BY PublicAssumption DEF P!TypeOK, PublicCalls, PublicServiceTypeOK

LEMMA PublicForms ==
    ASSUME NEW f \in P!Form
    PROVE  /\ f.kind \in {"submit", "identity_upload", "status_check",
                          "receipt_download"}
           /\ f.kind \in {"submit", "identity_upload"} => f.email \in Emails
           /\ f.kind # "submit" => f.token.reference \in References
           /\ f.kind = "identity_upload" => f.reference \in References
BY DEF P!Form, P!Submission, P!Upload, P!Token

\* Whoever was given tokens, or an upload that passed the cross-check, has a request
\* with an address; the address of an upload is that one.
Vouched(f) == email[f.reference] = f.email /\ email[f.reference] # Nobody

\* A proof or a submission that is under way, whatever happens meanwhile.
PublicMessageOK(op, f) ==
    /\ f \in P!Form /\ op \in P!Op
    /\ f.kind \in {"submit", "identity_upload"}
    /\ op = "submit" => f.kind = "submit"
    /\ f.kind = "identity_upload" => Vouched(f)

PublicTaskOK(t) ==
    /\ pc[t] = "fetching" /\ form[t].kind = "identity_upload" =>
           email[form[t].token.reference] # Nobody
    /\ pc[t] = "fetched" /\ form[t].kind = "identity_upload" => Vouched(form[t])
    /\ pc[t] = "sending" =>
           /\ PublicMessageOK("identity_upload", form[t])
           /\ (taken[t] => seen[t] \in P!Verdict)
    /\ pc[t] = "advancing" =>
           /\ PublicMessageOK("submit", form[t])
           /\ IF taken[t] THEN seen[t] \in References /\ email[seen[t]] # Nobody
              ELSE form[t].file # NoFile => P!Passed(seen[t])

PublicInv ==
    /\ P!TypeOK
    /\ \A m \in late : PublicMessageOK(m.op, m.form)
    /\ \A t \in Tasks : PublicTaskOK(t)
    /\ \A r \in References : bundle[r] # "none" => email[r] # Nobody
    /\ ProofsBelong
    /\ CitedProofsPassed

LEMMA PublicInit == P!Init => PublicInv
<1> SUFFICES ASSUME P!Init PROVE PublicInv
  OBVIOUS
<1> USE DEF P!Init, P!CallInit
<1>1. PublicServiceTypeOK
  BY DEF PublicServiceTypeOK
<1>2. PublicCalls
  BY DEF PublicCalls, P!CallTypeOK, P!Label
<1>3. \A t \in Tasks : PublicTaskOK(t)
  BY DEF PublicTaskOK
<1>4. ProofsBelong /\ CitedProofsPassed
  BY DEF ProofsBelong, P!ProofsBelong, CitedProofsPassed, P!CitedProofsPassed
<1> QED
  BY <1>1, <1>2, <1>3, <1>4, PublicTypeParts DEF PublicInv

-----------------------------------------------------------------------------
(* The public portal: what a step does. *)

LEMMA PublicCallStep == PublicInv /\ [P!Next]_(P!vars) => PublicCalls'
<1> SUFFICES ASSUME PublicInv, [P!Next]_(P!vars) PROVE PublicCalls'
  OBVIOUS
<1>0. PublicCalls /\ PublicServiceTypeOK
  BY PublicTypeParts DEF PublicInv
<1>1. ASSUME NEW t \in Tasks, P!Finish(t) PROVE PublicCalls'
  BY <1>0, <1>1 DEF PublicCalls, P!CallTypeOK, P!Finish, P!Answer, P!Goto, P!Label
<1>2. ASSUME NEW t \in Tasks, NEW l \in {"sending", "advancing"}, pc[t] # "idle",
             P!Send(t, l)
      PROVE  PublicCalls'
  BY <1>0, <1>2 DEF PublicCalls, P!CallTypeOK, P!Send, P!Goto, P!Label
<1>3. ASSUME NEW t \in Tasks, P!Honeypot(t) \/ P!Mismatch(t) \/ P!CaptchaFailed(t)
                              \/ P!ProofRefused(t) \/ P!LookUp(t) \/ P!IssueBundle(t)
      PROVE  PublicCalls'
  BY <1>1, <1>3 DEF P!Honeypot, P!Mismatch, P!CaptchaFailed, P!ProofRefused, P!LookUp,
     P!IssueBundle
<1>4. ASSUME NEW t \in Tasks, P!UploadProof(t) \/ P!Scanned(t) \/ P!SubmitBare(t)
      PROVE  PublicCalls'
  BY <1>1, <1>2, <1>4 DEF P!UploadProof, P!Scanned, P!SubmitBare
<1>5. ASSUME NEW t \in Tasks, P!VerifyCaptcha(t) PROVE PublicCalls'
  BY <1>0, <1>5 DEF P!VerifyCaptcha, P!Read, P!Goto, P!View, PublicCalls, P!CallTypeOK,
     P!Label
<1>6. ASSUME NEW t \in Tasks, P!ServiceScans(t) \/ P!ServiceSubmits(t) PROVE PublicCalls'
  BY <1>0, <1>6 DEF P!ServiceScans, P!ServiceSubmits, P!View, PublicCalls, P!CallTypeOK
<1>7. ASSUME NEW t \in Tasks, P!Fails(t) PROVE PublicCalls'
  <2>1. late' \subseteq [op : P!Op, form : P!Form]
    BY <1>0, <1>7 DEF P!Fails, P!CallFails, P!Abandon, P!Pending, P!OpOf, P!Op,
       PublicCalls, P!CallTypeOK
  <2> QED
    BY <1>0, <1>7, <2>1 DEF P!Fails, P!CallFails, P!Answer, P!Goto, PublicCalls,
       P!CallTypeOK, P!Label
<1>8. ASSUME NEW m \in late, P!ServiceTakesLate(m) PROVE PublicCalls'
  BY <1>0, <1>8 DEF P!ServiceTakesLate, P!TakeLate, PublicCalls, P!CallTypeOK
<1>9. ASSUME NEW t \in Tasks, NEW f \in P!Form, P!Post(t, f) PROVE PublicCalls'
  BY <1>0, <1>9 DEF P!Post, P!Arrive, P!Goto, PublicCalls, P!CallTypeOK, P!Label
<1>10. CASE UNCHANGED P!callVars
  BY <1>0, <1>10 DEF P!callVars, PublicCalls, P!CallTypeOK
<1> QED
  BY <1>3, <1>4, <1>5, <1>6, <1>7, <1>8, <1>9, <1>10 DEF P!Next, P!TaskStep, P!Expire,
     P!vars

\* What the service does: nothing; it keeps a proof; or it makes a request, citing no
\* proof that it found infected.
Keeps(f) == P!TakeProof(f) /\ UNCHANGED <<email, cited>>

Makes(f, r) == \E v \in {"none", "clean", "pending"} : P!TakeSubmission(f, r, v)

LEMMA PublicTaken ==
    ASSUME PublicInv, [P!Next]_(P!vars)
    PROVE  \/ UNCHANGED P!serviceVars
           \/ \E op, f : PublicMessageOK(op, f) /\ Keeps(f)
           \/ \E op, f : /\ PublicMessageOK(op, f) /\ op = "submit"
                         /\ \E r \in References : Makes(f, r)
<1>1. ASSUME NEW t \in Tasks, P!ServiceScans(t)
      PROVE  \E op, f : PublicMessageOK(op, f) /\ Keeps(f)
  <2>1. PublicMessageOK("identity_upload", form[t])
    BY <1>1 DEF P!ServiceScans, PublicInv, PublicTaskOK
  <2> QED
    BY <1>1, <2>1 DEF P!ServiceScans, Keeps
<1>2. ASSUME NEW t \in Tasks, P!ServiceSubmits(t)
      PROVE  \E op, f : /\ PublicMessageOK(op, f) /\ op = "submit"
                        /\ \E r \in References : Makes(f, r)
  <2>1. PublicMessageOK("submit", form[t]) /\ (form[t].file # NoFile => P!Passed(seen[t]))
    BY <1>2 DEF P!ServiceSubmits, P!Pending, PublicInv, PublicTaskOK
  <2>2. \E r \in References : Makes(form[t], r)
    BY <1>2, <2>1 DEF P!ServiceSubmits, Makes, P!Passed
  <2> QED
    BY <2>1, <2>2
<1>3. ASSUME NEW m \in late, P!ServiceTakesLate(m)
      PROVE  \/ \E op, f : PublicMessageOK(op, f) /\ Keeps(f)
             \/ \E op, f : /\ PublicMessageOK(op, f) /\ op = "submit"
                           /\ \E r \in References : Makes(f, r)
  <2>1. PublicMessageOK(m.op, m.form)
    BY <1>3 DEF PublicInv
  <2>2. \/ m.op = "submit" /\ \E r \in References : Makes(m.form, r)
        \/ Keeps(m.form)
    BY <1>3 DEF P!ServiceTakesLate, P!Citable, P!Passed, Makes, Keeps
  <2> QED
    BY <2>1, <2>2
<1> QED
  BY <1>1, <1>2, <1>3 DEF P!Next, P!TaskStep, P!Post, P!Honeypot, P!Mismatch,
     P!VerifyCaptcha, P!CaptchaFailed, P!ProofRefused, P!UploadProof, P!LookUp, P!Scanned,
     P!SubmitBare, P!IssueBundle, P!Fails, P!Expire, P!serviceVars, P!vars

\* The address of a request never changes.
AddressesStay == \A r \in References : email[r] # Nobody => email'[r] = email[r]

LEMMA PublicServiceStep ==
    PublicInv /\ [P!Next]_(P!vars) =>
        /\ email' \in [References -> Emails \cup {Nobody}]
        /\ cited' \in [References -> P!Verdict \cup {"none"}]
        /\ proofs' \subseteq [reference : References \cup {NoReference}, email : Emails]
        /\ AddressesStay /\ ProofsBelong' /\ CitedProofsPassed'
<1> DEFINE Goal ==
        /\ email' \in [References -> Emails \cup {Nobody}]
        /\ cited' \in [References -> P!Verdict \cup {"none"}]
        /\ proofs' \subseteq [reference : References \cup {NoReference}, email : Emails]
        /\ AddressesStay /\ ProofsBelong' /\ CitedProofsPassed'
<1> SUFFICES ASSUME PublicInv, [P!Next]_(P!vars) PROVE Goal
  OBVIOUS
<1> USE DEF ProofsBelong, P!ProofsBelong, CitedProofsPassed, P!CitedProofsPassed,
            AddressesStay
<1>0. PublicServiceTypeOK /\ ProofsBelong /\ CitedProofsPassed
  BY PublicTypeParts DEF PublicInv
<1>1. CASE UNCHANGED P!serviceVars
  BY <1>0, <1>1 DEF PublicServiceTypeOK, P!serviceVars
<1>2. ASSUME NEW op, NEW f, PublicMessageOK(op, f), Keeps(f) PROVE Goal
  <2> DEFINE p == [reference |-> P!ReferenceOf(f), email |-> f.email]
  <2>1. /\ p.reference \in References \cup {NoReference} /\ p.email \in Emails
        /\ p.reference # NoReference => email[p.reference] = p.email
    BY <1>2, PublicForms DEF PublicMessageOK, Vouched, P!ReferenceOf
  <2>2. proofs' = proofs \cup {p} /\ email' = email /\ cited' = cited
    BY <1>2 DEF Keeps, P!TakeProof
  <2> QED
    BY <1>0, <2>1, <2>2 DEF PublicServiceTypeOK
<1>3. ASSUME NEW op, NEW f, NEW r \in References, PublicMessageOK(op, f), op = "submit",
             Makes(f, r)
      PROVE  Goal
  <2>1. PICK v \in {"none", "clean", "pending"} : P!TakeSubmission(f, r, v)
    BY <1>3 DEF Makes
  <2>2. f.email \in Emails
    BY <1>3, PublicForms DEF PublicMessageOK
  <2>3. /\ email[r] = Nobody /\ email' = [email EXCEPT ![r] = f.email]
        /\ cited' = [cited EXCEPT ![r] = v] /\ proofs' = proofs
    BY <2>1 DEF P!TakeSubmission
  <2>4. \A p \in proofs : p.reference # NoReference =>
            p.reference \in References /\ email[p.reference] # Nobody
    BY <1>0, PublicAssumption DEF PublicServiceTypeOK
  <2>5. ProofsBelong'
    BY <1>0, <2>3, <2>4 DEF PublicServiceTypeOK
  <2>6. cited' \in [References -> P!Verdict \cup {"none"}] /\ CitedProofsPassed'
    BY <1>0, <2>3 DEF PublicServiceTypeOK, P!Verdict
  <2> QED
    BY <1>0, <2>2, <2>3, <2>5, <2>6 DEF PublicServiceTypeOK
<1> QED
  BY <1>1, <1>2, <1>3, PublicTaken

LEMMA PublicMessageStays ==
    ASSUME PublicInv, [P!Next]_(P!vars), NEW op, NEW f, PublicMessageOK(op, f)
    PROVE  PublicMessageOK(op, f)'
BY PublicServiceStep, PublicForms DEF AddressesStay, PublicMessageOK, Vouched

LEMMA PublicBundleStep ==
    PublicInv /\ [P!Next]_(P!vars) =>
        /\ bundle' \in [References -> {"none", "good", "expired"}]
        /\ \A r \in References : bundle'[r] # "none" => email'[r] # Nobody
<1> SUFFICES ASSUME PublicInv, [P!Next]_(P!vars)
             PROVE  /\ bundle' \in [References -> {"none", "good", "expired"}]
                    /\ \A r \in References : bundle'[r] # "none" => email'[r] # Nobody
  OBVIOUS
<1>0. /\ PublicServiceTypeOK /\ AddressesStay
      /\ \A r \in References : bundle[r] # "none" => email[r] # Nobody
  BY PublicTypeParts, PublicServiceStep DEF PublicInv
<1>1. CASE UNCHANGED bundle
  BY <1>0, <1>1 DEF PublicServiceTypeOK, AddressesStay
<1>2. ASSUME NEW t \in Tasks, P!IssueBundle(t)
      PROVE  /\ bundle' \in [References -> {"none", "good", "expired"}]
             /\ \A r \in References : bundle'[r] # "none" => email'[r] # Nobody
  <2>1. seen[t] \in References /\ email[seen[t]] # Nobody
    BY <1>2 DEF P!IssueBundle, PublicInv, PublicTaskOK
  <2> QED
    BY <1>0, <1>2, <2>1 DEF P!IssueBundle, PublicServiceTypeOK, AddressesStay
<1>3. ASSUME NEW r \in References, P!Expire(r)
      PROVE  /\ bundle' \in [References -> {"none", "good", "expired"}]
             /\ \A q \in References : bundle'[q] # "none" => email'[q] # Nobody
  BY <1>0, <1>3 DEF P!Expire, PublicServiceTypeOK, AddressesStay
<1> QED
  BY <1>1, <1>2, <1>3 DEF P!Next, P!TaskStep, P!Post, P!Honeypot, P!Mismatch,
     P!VerifyCaptcha, P!CaptchaFailed, P!ProofRefused, P!UploadProof, P!LookUp,
     P!ServiceScans, P!Scanned, P!SubmitBare, P!ServiceSubmits, P!ServiceTakesLate,
     P!Fails, P!vars

-----------------------------------------------------------------------------
(* The public portal: what the tasks hold. *)

LEMMA PublicTaskStep ==
    PublicInv /\ [P!Next]_(P!vars) => \A t \in Tasks : PublicTaskOK(t)'
<1> SUFFICES ASSUME PublicInv, [P!Next]_(P!vars), NEW t \in Tasks
             PROVE  PublicTaskOK(t)'
  OBVIOUS
<1>0. PublicCalls /\ PublicServiceTypeOK /\ PublicTaskOK(t) /\ AddressesStay
  BY PublicTypeParts, PublicServiceStep DEF PublicInv
<1>1. \A op, f : PublicMessageOK(op, f) => PublicMessageOK(op, f)'
  BY PublicMessageStays
<1>2. CASE pc'[t] \notin {"fetching", "fetched", "sending", "advancing"}
  BY <1>2 DEF PublicTaskOK
<1>3. CASE /\ pc'[t] = pc[t] /\ form'[t] = form[t] /\ seen'[t] = seen[t]
           /\ taken'[t] = taken[t]
  <2>1. CASE pc[t] \in {"fetching", "fetched"}
    <3>1. form[t] \in P!Form
      BY <1>0, <2>1 DEF PublicCalls, P!CallTypeOK
    <3> QED
      BY <1>0, <1>3, <2>1, <3>1, PublicForms DEF PublicTaskOK, AddressesStay, Vouched
  <2>2. CASE pc[t] \in {"sending", "advancing"}
    <3>1. PICK f : f = form[t]
      OBVIOUS
    <3>2. /\ pc[t] = "sending" => PublicMessageOK("identity_upload", f)'
          /\ pc[t] = "advancing" => PublicMessageOK("submit", f)'
      BY <1>0, <1>1, <3>1 DEF PublicTaskOK
    <3> QED
      BY <1>0, <1>3, <2>2, <3>1, <3>2 DEF PublicTaskOK, PublicMessageOK, Vouched,
         AddressesStay, P!Passed
  <2> QED
    BY <1>2, <1>3, <2>1, <2>2
<1>4. CASE P!VerifyCaptcha(t)
  <2>1. /\ pc'[t] = "fetched" /\ form' = form /\ email' = email
        /\ form[t] \in P!Form /\ pc[t] = "fetching"
        /\ form[t].kind = "identity_upload" => P!Matches(form[t])
    BY <1>0, <1>4 DEF P!VerifyCaptcha, P!Read, P!Goto, P!serviceVars, PublicCalls,
       P!CallTypeOK
  <2> QED
    BY <1>0, <2>1 DEF PublicTaskOK, P!Matches, Vouched
<1>5. CASE P!UploadProof(t)
  <2>1. /\ pc'[t] = "sending" /\ form' = form /\ email' = email /\ ~taken'[t]
        /\ form[t] \in P!Form /\ pc[t] = "fetched"
        /\ form[t].kind \in {"submit", "identity_upload"}
    BY <1>0, <1>5 DEF P!UploadProof, P!HasFile, P!Send, P!Goto, P!serviceVars,
       PublicCalls, P!CallTypeOK
  <2> QED
    BY <1>0, <2>1 DEF PublicTaskOK, PublicMessageOK, Vouched, P!Op
<1>6. CASE P!Scanned(t)
  <2>1. CASE form[t].kind = "submit" /\ P!Passed(seen[t])
    <3>1. /\ pc'[t] = "advancing" /\ form' = form /\ seen' = seen /\ ~taken'[t]
          /\ form[t] \in P!Form
      BY <1>0, <1>6, <2>1 DEF P!Scanned, P!Send, P!Goto, PublicCalls, P!CallTypeOK
    <3> QED
      BY <2>1, <3>1 DEF PublicTaskOK, PublicMessageOK, P!Op, P!Passed
  <2>2. CASE ~(form[t].kind = "submit" /\ P!Passed(seen[t]))
    BY <1>0, <1>2, <1>6, <2>2 DEF P!Scanned, P!Finish, P!Answer, P!Goto, PublicCalls,
       P!CallTypeOK
  <2> QED
    BY <2>1, <2>2
<1>7. CASE P!SubmitBare(t)
  <2>1. /\ pc'[t] = "advancing" /\ form' = form /\ ~taken'[t]
        /\ form[t] \in P!Form /\ form[t].kind = "submit" /\ form[t].file = NoFile
    BY <1>0, <1>7 DEF P!SubmitBare, P!Send, P!Goto, PublicCalls, P!CallTypeOK
  <2> QED
    BY <2>1 DEF PublicTaskOK, PublicMessageOK, P!Op
<1>8. CASE P!ServiceScans(t)
  <2>1. /\ pc'[t] = "sending" /\ form' = form /\ email' = email
        /\ seen'[t] \in P!Verdict /\ PublicMessageOK("identity_upload", form[t])
    BY <1>0, <1>8 DEF P!ServiceScans, PublicTaskOK, PublicCalls, P!CallTypeOK
  <2> QED
    BY <2>1 DEF PublicTaskOK, PublicMessageOK, Vouched, P!Verdict
<1>9. CASE P!ServiceSubmits(t)
  <2>1. PICK r \in References :
          /\ P!TakeSubmission(form[t], r, IF form[t].file = NoFile THEN "none" ELSE seen[t])
          /\ seen' = [seen EXCEPT ![t] = r]
    BY <1>9 DEF P!ServiceSubmits
  <2>2. PublicMessageOK("submit", form[t])
    BY <1>0, <1>9 DEF P!ServiceSubmits, PublicTaskOK
  <2>3. email'[r] = form[t].email /\ form[t].email \in Emails
    BY <1>0, <2>1, <2>2, PublicForms DEF P!TakeSubmission, PublicMessageOK,
       PublicServiceTypeOK
  <2>4. pc'[t] = "advancing" /\ form' = form /\ taken'[t] /\ seen'[t] = r
    BY <1>0, <1>9, <2>1 DEF P!ServiceSubmits, PublicCalls, P!CallTypeOK
  <2> QED
    BY <2>2, <2>3, <2>4, PublicAssumption DEF PublicTaskOK, PublicMessageOK
<1>10. ASSUME NEW f \in P!Form, P!Post(t, f) PROVE PublicTaskOK(t)'
  <2>1. /\ pc'[t] = "fetching" /\ form'[t] = f /\ email' = email
        /\ f.kind = "identity_upload" => bundle[f.token.reference] = "good"
    BY <1>0, <1>10 DEF P!Post, P!MayUse, P!Arrive, P!Goto, P!serviceVars, PublicCalls,
       P!CallTypeOK
  <2>2. f.kind = "identity_upload" => email[f.token.reference] # Nobody
    BY <2>1, PublicForms DEF PublicInv
  <2> QED
    BY <2>1, <2>2 DEF PublicTaskOK
<1>11. \A s \in Tasks : s # t /\ P!TaskStep(s) =>
          /\ pc'[t] = pc[t] /\ form'[t] = form[t] /\ seen'[t] = seen[t]
          /\ taken'[t] = taken[t]
  BY <1>0 DEF P!TaskStep, P!Honeypot, P!Mismatch, P!VerifyCaptcha, P!Read,
     P!CaptchaFailed, P!ProofRefused, P!UploadProof, P!LookUp, P!ServiceScans, P!Scanned,
     P!SubmitBare, P!ServiceSubmits, P!IssueBundle, P!Fails, P!CallFails, P!Finish,
     P!Answer, P!Send, P!Goto, PublicCalls, P!CallTypeOK
<1>12. P!TaskStep(t) =>
        \/ P!VerifyCaptcha(t) \/ P!UploadProof(t) \/ P!Scanned(t) \/ P!SubmitBare(t)
        \/ P!ServiceScans(t) \/ P!ServiceSubmits(t)
        \/ pc'[t] \notin {"fetching", "fetched", "sending", "advancing"}
  BY <1>0 DEF P!TaskStep, P!Honeypot, P!Mismatch, P!CaptchaFailed, P!ProofRefused,
     P!LookUp, P!IssueBundle, P!Fails, P!CallFails, P!Finish, P!Answer, P!Goto,
     PublicCalls, P!CallTypeOK
<1>13. CASE \E s \in Tasks : P!TaskStep(s)
  BY <1>2, <1>3, <1>4, <1>5, <1>6, <1>7, <1>8, <1>9, <1>11, <1>12, <1>13
<1>14. CASE \E s \in Tasks, f \in P!Form : P!Post(s, f)
  <2>1. \A s \in Tasks, f \in P!Form : s # t /\ P!Post(s, f) =>
          /\ pc'[t] = pc[t] /\ form'[t] = form[t] /\ seen'[t] = seen[t]
          /\ taken'[t] = taken[t]
    BY <1>0 DEF P!Post, P!Arrive, P!Goto, PublicCalls, P!CallTypeOK
  <2> QED
    BY <1>3, <1>10, <1>14, <2>1
<1>15. CASE UNCHANGED <<pc, form, seen, taken>>
  BY <1>3, <1>15
<1> QED
  BY <1>13, <1>14, <1>15 DEF P!Next, P!ServiceTakesLate, P!TakeLate, P!Expire,
     P!callVars, P!vars

\* What is given up on its way was sent as it should be.
LEMMA PublicLateStep ==
    PublicInv /\ [P!Next]_(P!vars) => \A m \in late' : PublicMessageOK(m.op, m.form)'
<1> SUFFICES ASSUME PublicInv, [P!Next]_(P!vars), NEW m \in late'
             PROVE  PublicMessageOK(m.op, m.form)'
  OBVIOUS
<1>1. \A op, f : PublicMessageOK(op, f) => PublicMessageOK(op, f)'
  BY PublicMessageStays
<1>2. CASE m \in late
  BY <1>1, <1>2 DEF PublicInv
<1>3. ASSUME NEW t \in Tasks, P!Fails(t), m \notin late
      PROVE  PublicMessageOK(m.op, m.form)'
  <2>1. /\ pc[t] \in {"sending", "advancing"}
        /\ m = [op |-> P!OpOf(t), form |-> form[t]]
    BY <1>3 DEF P!Fails, P!CallFails, P!Abandon, P!Pending
  <2>2. PublicMessageOK(m.op, m.form)
    BY <2>1 DEF PublicInv, PublicTaskOK, P!OpOf
  <2> QED
    BY <1>1, <2>2
<1>4. late' \subseteq late \/ \E t \in Tasks : P!Fails(t)
  BY DEF P!Next, P!TaskStep, P!Post, P!Arrive, P!Honeypot, P!Mismatch, P!VerifyCaptcha,
     P!Read, P!CaptchaFailed, P!ProofRefused, P!UploadProof, P!LookUp, P!ServiceScans,
     P!Scanned, P!SubmitBare, P!ServiceSubmits, P!IssueBundle, P!Finish, P!Send,
     P!ServiceTakesLate, P!TakeLate, P!Expire, P!callVars, P!vars
<1> QED
  BY <1>2, <1>3, <1>4

-----------------------------------------------------------------------------
(* The public portal: the theorems. *)

LEMMA PublicStep == PublicInv /\ [P!Next]_(P!vars) => PublicInv'
<1> SUFFICES ASSUME PublicInv, [P!Next]_(P!vars) PROVE PublicInv'
  OBVIOUS
<1>1. P!TypeOK'
  BY PublicCallStep, PublicServiceStep, PublicBundleStep, PublicAssumption
  DEF P!TypeOK, PublicCalls
<1> QED
  BY <1>1, PublicTaskStep, PublicLateStep, PublicServiceStep, PublicBundleStep
  DEF PublicInv

\* The invariant of the public portal is inductive, whatever subjects and service do.
THEOREM PublicInvariance == P!Spec => []PublicInv
BY PublicInit, PublicStep, PTL DEF P!Spec

\* AMD-05: a proof of identity with the reference of a request was sent by someone
\* with the address of the request, and that never changes (submit.py:359-371).
THEOREM ProofsAreTheirs == P!Spec => []ProofsBelong
<1>1. PublicInv => ProofsBelong
  BY DEF PublicInv
<1> QED
  BY <1>1, PublicInvariance, PTL

\* AMD-26: what is submitted cites no proof the service found infected
\* (submit.py:186-200).
THEOREM NoInfectedProof == P!Spec => []CitedProofsPassed
<1>1. PublicInv => CitedProofsPassed
  BY DEF PublicInv
<1> QED
  BY <1>1, PublicInvariance, PTL

-----------------------------------------------------------------------------
(* Both sides. *)

DsrInv ==
    /\ part \in {"officers", "public"}
    /\ part = "officers" => OfficerInv
    /\ part = "public" => PublicInv

\* Whichever side a behaviour is of, every variable of its module keeps its type.
THEOREM BothTypesCorrect == MCSpec => []BothTypesOK
<1>1. MCInit => DsrInv
  BY OfficerInit, PublicInit DEF MCInit, DsrInv
<1>2. DsrInv /\ [MCNext]_mcVars => DsrInv'
  <2> SUFFICES ASSUME DsrInv, [MCNext]_mcVars PROVE DsrInv'
    OBVIOUS
  <2>1. part' = part
    BY DEF MCNext, mcVars
  <2>2. CASE part = "officers"
    <3>1. [Next]_vars
      BY <2>2 DEF MCNext, mcVars
    <3> QED
      BY <2>1, <2>2, <3>1, OfficerStep DEF DsrInv
  <2>3. CASE part = "public"
    <3>1. [P!Next]_(P!vars)
      BY <2>3 DEF MCNext, mcVars, vars, callVars, publicVars, P!vars, P!callVars
    <3> QED
      BY <2>1, <2>3, <3>1, PublicStep DEF DsrInv
  <2> QED
    BY <2>2, <2>3 DEF DsrInv
<1>3. DsrInv => BothTypesOK
  BY DEF DsrInv, BothTypesOK, OfficerInv, PublicInv
<1> QED
  BY <1>1, <1>2, <1>3, PTL DEF MCSpec
=============================================================================
