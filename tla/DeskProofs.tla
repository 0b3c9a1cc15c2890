------------------------------ MODULE DeskProofs ------------------------------
(***************************************************************************)
(* The desks of MCDesk for any number of requests, users, nonces, workers, *)
(* reviews, incidents, events and candidates, and for services that take   *)
(* whatever they are sent.  Reviews: what bears a signature bore a         *)
(* reasoned decision before, and the signature is bound to its nonce.      *)
(* Incidents (I): what is contained was investigated, and an event that an *)
(* incident bears was signed.  Process knowledge (K): a decision has its   *)
(* rationale, and a text the keys of its candidate's type.                 *)
(***************************************************************************)
EXTENDS MCDesk, ServiceCallProofs

-----------------------------------------------------------------------------
(* Reviews: types. *)

ReviewServiceTypeOK ==
    /\ state \in Card
    /\ decided \subseteq Reviews
    /\ signature \in [Reviews -> SignForm \cup {NoForm}]

AgeTypeOK == seenAge \in [Tasks -> 0 .. MfaMaxAge + 1]

LEMMA ReviewTypeParts ==
    TypeOK <=> NonceTypeOK /\ CallTypeOK(Form, Card, Op) /\ AgeTypeOK /\ ReviewServiceTypeOK
BY DEF TypeOK, AgeTypeOK, ReviewServiceTypeOK

-----------------------------------------------------------------------------
(* The inductive invariant. *)

\* The nonce of f was drawn for its user and review, and is gone.
Bound(f) ==
    /\ binding[f.nonce] # Unissued
    /\ binding[f.nonce].sub = f.user /\ binding[f.nonce].action = f.review
    /\ f.nonce \notin stored

\* What is known of a mutation that is under way, whatever happens meanwhile.
MessageOK(op, f) ==
    /\ op \in Op /\ f \in Form /\ f.kind # "page"
    /\ op = "decision" => f.reasoned
    /\ op = "sign" => f.kind = "sign_off" /\ f.review \in decided /\ Bound(f)

ReviewLateOK == \A m \in late : MessageOK(m.op, m.form)

SendOK(t) == pc[t] \in {"sending", "advancing"} => MessageOK(OpOf(t), form[t])

\* A review that was seen with a decision has one, whatever its state is now.
ViewOK(t) ==
    pc[t] = "fetched" => \A v \in Reviews : seen[t][v] = "decision" => v \in decided

ReviewOK(v) ==
    /\ state[v] = "decision" => v \in decided
    /\ signature[v] # NoForm =>
           v \in decided /\ signature[v].review = v /\ Bound(signature[v])

\* A nonce is drawn only for a review that was decided.
NonceOK(n) ==
    /\ n \in stored => binding[n] # Unissued
    /\ binding[n] # Unissued => binding[n].action \in decided

ReviewInv ==
    /\ TypeOK
    /\ ReviewLateOK
    /\ \A t \in Tasks : SendOK(t) /\ ViewOK(t)
    /\ \A v \in Reviews : ReviewOK(v)
    /\ \A n \in Nonces : NonceOK(n)

LEMMA ReviewInit == Init => ReviewInv
<1> SUFFICES ASSUME Init PROVE ReviewInv
  OBVIOUS
<1> USE DEF Init, NonceInit, CallInit
<1>1. NonceTypeOK /\ AgeTypeOK
  BY NonceAssumption DEF NonceTypeOK, AgeTypeOK
<1>2. CallTypeOK(Form, Card, Op) /\ ReviewServiceTypeOK
  BY DEF CallTypeOK, Label, ReviewServiceTypeOK, Card
<1>3. ReviewLateOK /\ \A t \in Tasks : SendOK(t) /\ ViewOK(t)
  BY DEF ReviewLateOK, SendOK, ViewOK
<1>4. \A v \in Reviews : ReviewOK(v)
  BY DEF ReviewOK
<1>5. \A n \in Nonces : NonceOK(n)
  BY DEF NonceOK
<1> QED
  BY <1>1, <1>2, <1>3, <1>4, <1>5, ReviewTypeParts DEF ReviewInv

-----------------------------------------------------------------------------
(* Types, one group of variables at a time. *)

LEMMA FormKinds ==
    ASSUME NEW f \in Form
    PROVE  /\ f.kind \in {"page", "transition", "sign_off"}
           /\ f.kind = "transition" => f.to \in State
           /\ f.kind # "page" => f.review \in Reviews
           /\ f.kind = "sign_off" => f \in SignForm
           /\ f.kind \in {"page", "sign_off"} => f.user \in Users /\ f.worker \in Workers
BY DEF Form, SignForm

LEMMA ZeroAge == 0 \in 0 .. MfaMaxAge + 1 /\ 0 \in 0 .. NonceMaxAge + 1
                 /\ MfaMaxAge + 1 \in 0 .. MfaMaxAge + 1
BY NonceAssumption

LEMMA LaterBounded ==
    ASSUME NEW b \in Nat, NEW a \in 0 .. b + 1
    PROVE  Later(a, b + 1) \in 0 .. b + 1
BY DEF Later

\* The age of the User of a task stays in range.
LEMMA AgeStep == TypeOK /\ [Next]_vars => AgeTypeOK'
<1> SUFFICES ASSUME TypeOK, [Next]_vars PROVE AgeTypeOK'
  OBVIOUS
<1>0. AgeTypeOK /\ NonceTypeOK
  BY ReviewTypeParts
<1>1. CASE UNCHANGED seenAge
  BY <1>0, <1>1 DEF AgeTypeOK
<1>2. CASE \E t \in Tasks : DropUser(t)
  BY <1>0, <1>2, ZeroAge DEF AgeTypeOK, DropUser
<1>3. CASE \E t \in Tasks, f \in Form : Post(t, f)
  <2>1. PICK t \in Tasks, f \in Form : Post(t, f)
    BY <1>3
  <2>2. f.kind = "sign_off" => mfaAge[f.user] \in 0 .. MfaMaxAge + 1
    BY <1>0, FormKinds DEF NonceTypeOK
  <2>3. CASE f.kind = "sign_off"
    BY <1>0, <2>1, <2>2, <2>3 DEF Post, AgeTypeOK
  <2>4. CASE f.kind # "sign_off"
    BY <1>0, <2>1, <2>4 DEF Post, AgeTypeOK
  <2> QED
    BY <2>3, <2>4
<1>4. CASE Tick
  BY <1>0, <1>4, NonceAssumption, LaterBounded DEF Tick, AgeTypeOK
<1> QED
  BY <1>1, <1>2, <1>3, <1>4 DEF Next, TaskStep, Start, Fetch, Page, Transition,
     TransitionRefused, SignOffStepUp, SignOff, Refusal, ServiceTakes, Answered,
     Reloaded, Fails, ServiceTakesLate, DoStepUp, SameUser, vars

\* What a page does to a nonce: it leaves it, or draws it for a review that was
\* read in the state in which it can be signed off.
LEMMA PageDraws ==
    ASSUME TypeOK, NEW t \in Tasks, Page(t), NEW n \in Nonces
    PROVE  \/ /\ binding'[n] = binding[n] /\ nonceAge'[n] = nonceAge[n]
              /\ n \in stored' <=> n \in stored
           \/ /\ binding[n] = Unissued /\ binding'[n] \in Binding
              /\ NeedsSignOff(seen[t][binding'[n].action])
              /\ n \in stored' /\ nonceAge'[n] = 0
<1> DEFINE f == form[t]
           open == {v \in Reviews : NeedsSignOff(seen[t][v])}
<1>0. CallTypeOK(Form, Card, Op)
  BY ReviewTypeParts
<1>1. f.user \in Users /\ f.worker \in Workers
  BY <1>0, FormKinds DEF Page, CallTypeOK
<1>2. PICK drawn \in [open -> Nonces] :
        /\ \A v \in open : binding[drawn[v]] = Unissued
        /\ binding' = [k \in Nonces |->
               IF \E v \in open : drawn[v] = k
               THEN [sub |-> f.user, backend |-> BackendOf[f.worker],
                     action |-> CHOOSE v \in open : drawn[v] = k]
               ELSE binding[k]]
        /\ stored' = stored \cup {drawn[v] : v \in open}
        /\ nonceAge' = [k \in Nonces |->
               IF \E v \in open : drawn[v] = k THEN 0 ELSE nonceAge[k]]
  BY DEF Page
<1>3. CASE \E v \in open : drawn[v] = n
  <2>1. PICK v \in open : v = CHOOSE w \in open : drawn[w] = n
    BY <1>3
  <2>2. binding'[n] = [sub |-> f.user, backend |-> BackendOf[f.worker], action |-> v]
    BY <1>2, <1>3, <2>1
  <2>3. binding'[n] \in Binding /\ binding'[n].action = v
    BY <1>1, <2>2 DEF Binding, Reviews
  <2>4. binding[n] = Unissued /\ n \in stored' /\ nonceAge'[n] = 0
    BY <1>2, <1>3
  <2> QED
    BY <2>1, <2>3, <2>4
<1>4. CASE ~\E v \in open : drawn[v] = n
  BY <1>2, <1>4
<1> QED
  BY <1>3, <1>4

\* The nonces keep their types.
LEMMA NonceStep == TypeOK /\ [Next]_vars => NonceTypeOK'
<1> SUFFICES ASSUME TypeOK, [Next]_vars PROVE NonceTypeOK'
  OBVIOUS
<1>0. NonceTypeOK
  BY ReviewTypeParts
<1>1. CASE UNCHANGED mfaVars
  BY <1>0, <1>1 DEF NonceTypeOK, mfaVars, nonceVars
<1>2. ASSUME NEW t \in Tasks, Page(t) PROVE NonceTypeOK'
  <2>1. /\ DOMAIN binding' = Nonces /\ binding' = [n \in Nonces |-> binding'[n]]
        /\ DOMAIN nonceAge' = Nonces /\ nonceAge' = [n \in Nonces |-> nonceAge'[n]]
        /\ stored' \subseteq Nonces /\ mfaAge' = mfaAge
    BY <1>0, <1>2 DEF Page, NonceTypeOK
  <2>2. \A n \in Nonces : binding'[n] \in Binding \cup {Unissued}
    BY <1>0, <1>2, PageDraws DEF NonceTypeOK
  <2>3. \A n \in Nonces : nonceAge'[n] \in 0 .. NonceMaxAge + 1
    BY <1>0, <1>2, PageDraws, ZeroAge DEF NonceTypeOK
  <2> QED
    BY <1>0, <2>1, <2>2, <2>3 DEF NonceTypeOK
<1>3. ASSUME NEW t \in Tasks, SignOff(t) PROVE NonceTypeOK'
  BY <1>0, <1>3 DEF SignOff, Consume, NonceTypeOK
<1>4. ASSUME NEW u \in Users, DoStepUp(u) PROVE NonceTypeOK'
  BY <1>0, <1>4, ZeroAge DEF DoStepUp, StepUp, NonceTypeOK, nonceVars
<1>5. CASE Tick
  <2>1. nonceAge' \in [Nonces -> 0 .. NonceMaxAge + 1]
    BY <1>0, <1>5, NonceAssumption, LaterBounded DEF Tick, NonceTick, NonceTypeOK
  <2>2. mfaAge' \in [Users -> 0 .. MfaMaxAge + 1]
    BY <1>0, <1>5, NonceAssumption, LaterBounded DEF Tick, NonceTick, NonceTypeOK
  <2> QED
    BY <1>0, <1>5, <2>1, <2>2 DEF Tick, NonceTick, NonceTypeOK
<1> QED
  BY <1>1, <1>2, <1>3, <1>4, <1>5 DEF Next, TaskStep, Start, Post, Fetch, Transition,
     TransitionRefused, SignOffStepUp, Refusal, ServiceTakes, Answered, Reloaded, Fails,
     ServiceTakesLate, vars

\* And the tasks with their mutations.
LEMMA CallStep == ReviewInv /\ [Next]_vars => CallTypeOK(Form, Card, Op)'
<1> SUFFICES ASSUME ReviewInv, [Next]_vars PROVE CallTypeOK(Form, Card, Op)'
  OBVIOUS
<1>0. CallTypeOK(Form, Card, Op) /\ ReviewServiceTypeOK
  BY ReviewTypeParts DEF ReviewInv
<1>1. CASE UNCHANGED callVars
  BY <1>0, <1>1 DEF CallTypeOK, callVars
<1>2. ASSUME NEW t \in Tasks, NEW f \in Form, Post(t, f)
      PROVE  CallTypeOK(Form, Card, Op)'
  BY <1>0, <1>2, ArriveOrReadTyped DEF Post
<1>3. ASSUME NEW t \in Tasks, Fetch(t) PROVE CallTypeOK(Form, Card, Op)'
  BY <1>0, <1>3, ArriveOrReadTyped DEF Fetch, ReviewServiceTypeOK
<1>4. ASSUME NEW t \in Tasks, Finish(t) PROVE CallTypeOK(Form, Card, Op)'
  BY <1>0, <1>4, FinishTyped
<1>5. ASSUME NEW t \in Tasks, pc[t] # "idle", Refuse(t) \/ Send(t, "sending")
      PROVE  CallTypeOK(Form, Card, Op)'
  BY <1>0, <1>5, MoveTyped
<1>6. ASSUME NEW t \in Tasks, Take(t) PROVE CallTypeOK(Form, Card, Op)'
  BY <1>0, <1>6, TakeTyped
<1>7. ASSUME NEW m \in late, TakeLate(m) PROVE CallTypeOK(Form, Card, Op)'
  BY <1>0, <1>7, TakeTyped
<1>8. ASSUME NEW t \in Tasks, Answered(t) PROVE CallTypeOK(Form, Card, Op)'
  BY <1>0, <1>8, MoveTyped DEF Answered
<1>9. ASSUME NEW t \in Tasks, Fails(t) PROVE CallTypeOK(Form, Card, Op)'
  <2>1. Pending(t) => OpOf(t) \in Op
    BY DEF ReviewInv, SendOK, MessageOK, Pending
  <2> QED
    BY <1>0, <1>9, <2>1, FailTyped DEF Fails
<1> QED
  BY <1>1, <1>2, <1>3, <1>4, <1>5, <1>6, <1>7, <1>8, <1>9 DEF Next, TaskStep, Start, Page,
     Transition, TransitionRefused, SignOffStepUp, SignOff, Refusal, Refused,
     ServiceTakes, Reloaded, ServiceTakesLate, DoStepUp, Tick, vars

-----------------------------------------------------------------------------
(* What is known stays known. *)

Grew ==
    /\ decided \subseteq decided'
    /\ \A v \in Reviews : signature[v] # NoForm => signature'[v] # NoForm

Spent(n) ==
    binding[n] # Unissued =>
        binding'[n] = binding[n] /\ (n \notin stored => n \notin stored')

\* The service takes mutations that are as they should be.
LEMMA TakenOK ==
    ASSUME ReviewInv, [Next]_vars
    PROVE  \/ UNCHANGED serviceVars
           \/ \E v \in Reviews : Start(v)
           \/ \E op \in Op, f \in Form :
                MessageOK(op, f) /\ Apply(op, f) /\ UNCHANGED mfaVars
<1>1. ASSUME NEW t \in Tasks, ServiceTakes(t)
      PROVE  \E op \in Op, f \in Form :
                MessageOK(op, f) /\ Apply(op, f) /\ UNCHANGED mfaVars
  <2>1. MessageOK(OpOf(t), form[t])
    BY <1>1 DEF ServiceTakes, Take, Pending, ReviewInv, SendOK
  <2> QED
    BY <1>1, <2>1 DEF ServiceTakes, MessageOK
<1>2. ASSUME NEW m \in late, ServiceTakesLate(m)
      PROVE  \E op \in Op, f \in Form :
                MessageOK(op, f) /\ Apply(op, f) /\ UNCHANGED mfaVars
  <2>1. MessageOK(m.op, m.form)
    BY <1>2 DEF ReviewInv, ReviewLateOK
  <2> QED
    BY <1>2, <2>1 DEF ServiceTakesLate, MessageOK
<1> QED
  BY <1>1, <1>2 DEF Next, TaskStep, Post, Fetch, Page, Transition, TransitionRefused,
     SignOffStepUp, SignOff, Refusal, Answered, Reloaded, Fails, DoStepUp, Tick, vars,
     serviceVars

LEMMA ServiceStep == ReviewInv /\ [Next]_vars => ReviewServiceTypeOK' /\ Grew
<1> SUFFICES ASSUME ReviewInv, [Next]_vars PROVE ReviewServiceTypeOK' /\ Grew
  OBVIOUS
<1>0. ReviewServiceTypeOK
  BY ReviewTypeParts DEF ReviewInv
<1>1. CASE UNCHANGED serviceVars
  BY <1>0, <1>1 DEF ReviewServiceTypeOK, serviceVars, Grew
<1>2. ASSUME NEW v \in Reviews, Start(v) PROVE ReviewServiceTypeOK' /\ Grew
  BY <1>0, <1>2 DEF Start, ReviewServiceTypeOK, State, Card, Grew
<1>3. ASSUME NEW op \in Op, NEW f \in Form, MessageOK(op, f), Apply(op, f)
      PROVE  ReviewServiceTypeOK' /\ Grew
  <2>1. /\ f.review \in Reviews
        /\ op = "sign" => f \in SignForm /\ f # NoForm
        /\ op # "sign" => op \in State
    BY <1>3, FormKinds, FormAssumption DEF MessageOK, Op
  <2>2. state' \in Card
    BY <1>0, <1>3, <2>1 DEF Apply, ReviewServiceTypeOK, Card, State
  <2>3. decided' \subseteq Reviews /\ signature' \in [Reviews -> SignForm \cup {NoForm}]
    BY <1>0, <1>3, <2>1 DEF Apply, ReviewServiceTypeOK
  <2>4. Grew
    BY <1>0, <1>3, <2>1 DEF Apply, ReviewServiceTypeOK, Grew
  <2> QED
    BY <2>2, <2>3, <2>4 DEF ReviewServiceTypeOK
<1> QED
  BY <1>1, <1>2, <1>3, TakenOK

LEMMA SpentStep == ReviewInv /\ [Next]_vars => \A n \in Nonces : Spent(n)
<1> SUFFICES ASSUME ReviewInv, [Next]_vars, NEW n \in Nonces PROVE Spent(n)
  OBVIOUS
<1>1. CASE UNCHANGED <<binding, stored>>
  BY <1>1 DEF Spent
<1>2. ASSUME NEW t \in Tasks, Page(t) PROVE Spent(n)
  BY <1>2, PageDraws DEF ReviewInv, Spent
<1>3. ASSUME NEW t \in Tasks, SignOff(t) PROVE Spent(n)
  BY <1>3 DEF SignOff, Consume, Spent
<1> QED
  BY <1>1, <1>2, <1>3 DEF Next, TaskStep, Start, Post, Fetch, Transition,
     TransitionRefused, SignOffStepUp, Refusal, ServiceTakes, Answered, Reloaded, Fails,
     ServiceTakesLate, DoStepUp, StepUp, Tick, NonceTick, mfaVars, nonceVars, vars

LEMMA BoundStays ==
    ASSUME ReviewInv, [Next]_vars, NEW f \in SignForm, Bound(f)
    PROVE  Bound(f)'
<1>1. f.nonce \in Nonces
  BY DEF SignForm
<1>2. Spent(f.nonce)
  BY <1>1, SpentStep
<1> QED
  BY <1>1, <1>2 DEF Bound, Spent

LEMMA MessageStays ==
    ASSUME ReviewInv, [Next]_vars, NEW op, NEW f, MessageOK(op, f)
    PROVE  MessageOK(op, f)'
<1>1. op = "sign" => f \in SignForm
  BY FormKinds DEF MessageOK
<1>2. op = "sign" => Bound(f)'
  BY <1>1, BoundStays DEF MessageOK
<1>3. decided \subseteq decided'
  BY ServiceStep DEF Grew
<1> QED
  BY <1>2, <1>3 DEF MessageOK

-----------------------------------------------------------------------------
(* Each part of the invariant. *)

LEMMA NonceOKStep == ReviewInv /\ [Next]_vars => \A n \in Nonces : NonceOK(n)'
<1> SUFFICES ASSUME ReviewInv, [Next]_vars, NEW n \in Nonces PROVE NonceOK(n)'
  OBVIOUS
<1>0. CallTypeOK(Form, Card, Op) /\ NonceOK(n)
  BY ReviewTypeParts DEF ReviewInv
<1>1. decided \subseteq decided'
  BY ServiceStep DEF Grew
<1>2. CASE binding' = binding /\ stored' \subseteq stored
  BY <1>0, <1>1, <1>2 DEF NonceOK
<1>3. ASSUME NEW t \in Tasks, Page(t) PROVE NonceOK(n)'
  <2>1. CASE binding'[n] = binding[n] /\ (n \in stored' <=> n \in stored)
    BY <1>0, <1>1, <2>1 DEF NonceOK
  <2>2. CASE binding'[n] \in Binding /\ NeedsSignOff(seen[t][binding'[n].action])
    <3>1. binding'[n] # Unissued /\ binding'[n].action \in Reviews
      BY <2>2, UnissuedAssumption DEF Binding, Reviews
    <3>2. binding'[n].action \in decided
      BY <1>3, <2>2, <3>1 DEF Page, ReviewInv, ViewOK, NeedsSignOff
    <3> QED
      BY <1>1, <3>1, <3>2 DEF NonceOK
  <2> QED
    BY <1>3, <2>1, <2>2, PageDraws DEF ReviewInv
<1> QED
  BY <1>2, <1>3 DEF Next, TaskStep, Start, Post, Fetch, Transition, SignOff, Consume,
     TransitionRefused, SignOffStepUp, Refusal, ServiceTakes, Answered, Reloaded, Fails,
     ServiceTakesLate, DoStepUp, StepUp, Tick, NonceTick, mfaVars, nonceVars, vars

LEMMA ReviewOKStep == ReviewInv /\ [Next]_vars => \A v \in Reviews : ReviewOK(v)'
<1> SUFFICES ASSUME ReviewInv, [Next]_vars, NEW v \in Reviews PROVE ReviewOK(v)'
  OBVIOUS
<1>0. ReviewServiceTypeOK /\ ReviewOK(v)
  BY ReviewTypeParts DEF ReviewInv
<1>1. decided \subseteq decided'
  BY ServiceStep DEF Grew
<1>2. ASSUME NEW f \in SignForm, signature[v] = f
      PROVE  v \in decided' /\ f.review = v /\ Bound(f)'
  <2>1. f # NoForm
    BY FormAssumption DEF Form
  <2>2. v \in decided /\ f.review = v /\ Bound(f)
    BY <1>0, <1>2, <2>1 DEF ReviewOK, Bound
  <2> QED
    BY <1>1, <2>2, BoundStays
<1>3. ASSUME signature'[v] = signature[v], state'[v] = "decision" => v \in decided'
      PROVE  ReviewOK(v)'
  <2>1. signature[v] # NoForm => signature[v] \in SignForm
    BY <1>0 DEF ReviewServiceTypeOK
  <2> QED
    BY <1>2, <1>3, <2>1 DEF ReviewOK, Bound
<1>4. CASE UNCHANGED serviceVars
  BY <1>0, <1>4, <1>3 DEF serviceVars, ReviewOK
<1>5. ASSUME NEW w \in Reviews, Start(w) PROVE ReviewOK(v)'
  BY <1>0, <1>5, <1>3 DEF Start, ReviewServiceTypeOK, Card, ReviewOK
<1>6. ASSUME NEW op \in Op, NEW f \in Form, MessageOK(op, f), Apply(op, f)
      PROVE  ReviewOK(v)'
  <2>1. f.review \in Reviews /\ MessageOK(op, f)'
    BY <1>6, MessageStays, FormKinds DEF MessageOK
  <2>2. CASE v # f.review
    <3>1. state'[v] = state[v] /\ signature'[v] = signature[v]
      BY <1>0, <1>6, <2>1, <2>2 DEF Apply, ReviewServiceTypeOK, Card
    <3> QED
      BY <1>0, <1>1, <1>3, <3>1 DEF ReviewOK
  <2>3. CASE v = f.review /\ op = "sign"
    <3>1. state'[v] = "signed_off" /\ signature'[v] = f
      BY <1>0, <1>6, <2>1, <2>3 DEF Apply, ReviewServiceTypeOK, Card
    <3>2. v \in decided' /\ Bound(f)'
      BY <2>1, <2>3 DEF MessageOK
    <3> QED
      BY <2>3, <3>1, <3>2 DEF ReviewOK, Bound
  <2>4. CASE v = f.review /\ op # "sign"
    <3>1. state'[v] = op /\ signature'[v] = signature[v]
      BY <1>0, <1>6, <2>1, <2>4 DEF Apply, ReviewServiceTypeOK, Card
    <3>2. op = "decision" => v \in decided'
      BY <1>6, <2>4 DEF Apply, MessageOK
    <3> QED
      BY <1>3, <3>1, <3>2
  <2> QED
    BY <2>2, <2>3, <2>4
<1> QED
  BY <1>4, <1>5, <1>6, TakenOK

\* What the tasks have read, sent and abandoned.
LEMMA ViewStep == ReviewInv /\ [Next]_vars => \A t \in Tasks : ViewOK(t)'
<1> SUFFICES ASSUME ReviewInv, [Next]_vars, NEW t \in Tasks PROVE ViewOK(t)'
  OBVIOUS
<1>0. CallTypeOK(Form, Card, Op) /\ ViewOK(t)
  BY ReviewTypeParts DEF ReviewInv
<1>1. decided \subseteq decided'
  BY ServiceStep DEF Grew
<1>2. CASE pc'[t] # "fetched"
  BY <1>2 DEF ViewOK
<1>3. CASE pc[t] = "fetched" /\ seen'[t] = seen[t]
  BY <1>0, <1>1, <1>3 DEF ViewOK
<1>4. CASE Fetch(t)
  <2>1. seen'[t] = state
    BY <1>0, <1>4 DEF Fetch, Read, CallTypeOK
  <2>2. \A v \in Reviews : state[v] = "decision" => v \in decided
    BY DEF ReviewInv, ReviewOK
  <2> QED
    BY <1>1, <2>1, <2>2 DEF ViewOK
<1>5. \A s \in Tasks : s # t /\ TaskStep(s) => pc'[t] = pc[t] /\ seen'[t] = seen[t]
  BY <1>0 DEF TaskStep, Fetch, Read, Page, Transition, TransitionRefused, SignOffStepUp,
     SignOff, Refusal, Refused, ServiceTakes, Take, Answered, Reloaded, Fails, CallFails,
     Finish, Answer, Refuse, Send, Goto, CallTypeOK
<1>6. TaskStep(t) =>
          Fetch(t) \/ pc'[t] # "fetched" \/ (pc[t] = "fetched" /\ seen'[t] = seen[t])
  BY <1>0 DEF TaskStep, Page, Transition, TransitionRefused, SignOffStepUp, SignOff,
     Refusal, Refused, ServiceTakes, Take, Answered, Reloaded, Fails, CallFails, Finish,
     Answer, Refuse, Send, Goto, CallTypeOK
<1>7. CASE \E s \in Tasks : TaskStep(s)
  BY <1>2, <1>3, <1>4, <1>5, <1>6, <1>7
<1>8. CASE \E s \in Tasks, f \in Form : Post(s, f)
  BY <1>0, <1>2, <1>3, <1>8 DEF Post, Arrive, Goto, CallTypeOK
<1>9. CASE UNCHANGED <<pc, seen>>
  BY <1>2, <1>3, <1>9
<1> QED
  BY <1>7, <1>8, <1>9 DEF Next, Start, ServiceTakesLate, TakeLate, DoStepUp, Tick,
     callVars, vars

\* A mutation that is sent is as it should be.
LEMMA SentOK ==
    ASSUME ReviewInv, [Next]_vars, NEW t \in Tasks, Transition(t) \/ SignOff(t),
           pc'[t] \in {"sending", "advancing"}
    PROVE  MessageOK(OpOf(t), form[t])'
<1>0. CallTypeOK(Form, Card, Op)
  BY ReviewTypeParts DEF ReviewInv
<1>1. form' = form /\ decided' = decided /\ form[t] \in Form
  BY <1>0 DEF Transition, SignOff, Refuse, Send, CallTypeOK, serviceVars
<1>2. CASE Transition(t)
  <2>1. form[t].kind = "transition" /\ form[t].to \in State
    BY <1>1, <1>2, FormKinds DEF Transition
  <2>2. form[t].to = "decision" => form[t].reasoned
    BY <1>2 DEF Transition, MayMove, Reasoned
  <2>3. form[t].to # "sign"
    BY <2>1 DEF State
  <2> QED
    BY <1>1, <2>1, <2>2, <2>3 DEF MessageOK, OpOf, Op
<1>3. CASE SignOff(t)
  <2>1. /\ form[t].kind = "sign_off"
        /\ Accepts(form[t].worker, form[t].nonce, form[t].user, form[t].review)
    BY <1>0, <1>3 DEF SignOff, Refuse, Goto, CallTypeOK
  <2>2. form[t].nonce \in Nonces
    BY <1>1, <2>1, FormKinds DEF SignForm
  <2>3. binding[form[t].nonce] # Unissued /\ binding[form[t].nonce].action \in decided
    BY <2>1, <2>2 DEF Accepts, Found, ReviewInv, NonceOK
  <2>4. /\ binding' = binding /\ form[t].nonce \notin stored'
        /\ binding[form[t].nonce].sub = form[t].user
        /\ binding[form[t].nonce].action = form[t].review
    BY <1>3, <2>1 DEF SignOff, Consume, Accepts, Valid, Found
  <2>5. Bound(form[t])' /\ form[t].review \in decided'
    BY <1>1, <2>3, <2>4 DEF Bound
  <2> QED
    BY <1>1, <2>1, <2>5 DEF MessageOK, OpOf, Op
<1> QED
  BY <1>2, <1>3

LEMMA SendStep == ReviewInv /\ [Next]_vars => \A t \in Tasks : SendOK(t)'
<1> SUFFICES ASSUME ReviewInv, [Next]_vars, NEW t \in Tasks PROVE SendOK(t)'
  OBVIOUS
<1>0. CallTypeOK(Form, Card, Op) /\ SendOK(t)
  BY ReviewTypeParts DEF ReviewInv
<1>1. CASE pc'[t] \notin {"sending", "advancing"}
  BY <1>1 DEF SendOK
<1>2. CASE pc'[t] = pc[t] /\ form'[t] = form[t] /\ pc'[t] \in {"sending", "advancing"}
  <2>1. OpOf(t)' = OpOf(t)
    BY <1>2 DEF OpOf
  <2>2. MessageOK(OpOf(t), form[t])
    BY <1>0, <1>2 DEF SendOK
  <2>3. \A op, f : MessageOK(op, f) => MessageOK(op, f)'
    BY MessageStays
  <2>4. PICK op, f : op = OpOf(t) /\ f = form[t]
    OBVIOUS
  <2>5. MessageOK(op, f)'
    BY <2>2, <2>3, <2>4
  <2> QED
    BY <1>2, <2>1, <2>4, <2>5 DEF SendOK, MessageOK, Bound
<1>3. CASE Transition(t) \/ SignOff(t)
  BY <1>1, <1>3, SentOK DEF SendOK
<1>4. \A s \in Tasks : s # t /\ TaskStep(s) => pc'[t] = pc[t] /\ form'[t] = form[t]
  BY <1>0 DEF TaskStep, Fetch, Read, Page, Transition, TransitionRefused, SignOffStepUp,
     SignOff, Refusal, Refused, ServiceTakes, Take, Answered, Reloaded, Fails, CallFails,
     Finish, Answer, Refuse, Send, Goto, CallTypeOK
<1>5. TaskStep(t) =>
        \/ Transition(t) \/ SignOff(t)
        \/ pc'[t] \notin {"sending", "advancing"}
        \/ pc'[t] = pc[t] /\ form'[t] = form[t]
  BY <1>0 DEF TaskStep, Fetch, Read, Page, TransitionRefused, SignOffStepUp, Refusal,
     Refused, ServiceTakes, Take, Answered, Reloaded, Fails, CallFails, Finish, Answer,
     Goto, CallTypeOK
<1>6. CASE \E s \in Tasks : TaskStep(s)
  BY <1>1, <1>2, <1>3, <1>4, <1>5, <1>6
<1>7. CASE \E s \in Tasks, f \in Form : Post(s, f)
  BY <1>0, <1>1, <1>2, <1>7 DEF Post, Arrive, Goto, CallTypeOK
<1>8. CASE UNCHANGED <<pc, form>>
  BY <1>1, <1>2, <1>8
<1> QED
  BY <1>6, <1>7, <1>8 DEF Next, Start, ServiceTakesLate, TakeLate, DoStepUp, Tick,
     callVars, vars

LEMMA LateStep == ReviewInv /\ [Next]_vars => ReviewLateOK'
<1> SUFFICES ASSUME ReviewInv, [Next]_vars, NEW m \in late' PROVE MessageOK(m.op, m.form)'
  BY DEF ReviewLateOK
<1>1. \A op, f : MessageOK(op, f) => MessageOK(op, f)'
  BY MessageStays
<1>2. CASE m \in late
  BY <1>1, <1>2 DEF ReviewInv, ReviewLateOK
<1>3. ASSUME NEW t \in Tasks, Abandon(t, OpOf(t)), m \notin late
      PROVE  MessageOK(m.op, m.form)'
  <2>1. Pending(t) /\ m = [op |-> OpOf(t), form |-> form[t]]
    BY <1>3, LateComesFrom
  <2>2. MessageOK(m.op, m.form)
    BY <2>1 DEF ReviewInv, SendOK, Pending
  <2> QED
    BY <1>1, <2>2
<1>4. late' \subseteq late \/ \E t \in Tasks : Abandon(t, OpOf(t))
  BY DEF Next, TaskStep, Start, Post, Arrive, Fetch, Read, Page, Transition,
     TransitionRefused, SignOffStepUp, SignOff, Refusal, Refused, ServiceTakes, Take,
     Answered, Reloaded, Fails, CallFails, ServiceTakesLate, TakeLate, DoStepUp, Tick,
     Finish, Refuse, Send, callVars, vars
<1> QED
  BY <1>2, <1>3, <1>4

-----------------------------------------------------------------------------
(* The theorems. *)

LEMMA ReviewStep == ReviewInv /\ [Next]_vars => ReviewInv'
<1> SUFFICES ASSUME ReviewInv, [Next]_vars PROVE ReviewInv'
  OBVIOUS
<1>1. TypeOK
  BY DEF ReviewInv
<1>2. TypeOK'
  BY <1>1, AgeStep, NonceStep, CallStep, ServiceStep
  DEF TypeOK, AgeTypeOK, ReviewServiceTypeOK
<1> QED
  BY <1>2, LateStep, SendStep, ViewStep, ReviewOKStep, NonceOKStep DEF ReviewInv

\* The invariant of the reviews is inductive, whatever the handlers and the service
\* do next.
THEOREM ReviewInvariance == Spec => []ReviewInv
BY ReviewInit, ReviewStep, PTL DEF Spec

\* Every variable of ModelReview keeps its type.
THEOREM ReviewTypeCorrect == Spec => []TypeOK
<1>1. ReviewInv => TypeOK
  BY DEF ReviewInv
<1> QED
  BY <1>1, ReviewInvariance, PTL

\* What bears a signature bore a reasoned decision before, though the sign-off
\* handler reads nothing (model_cards.py:126-135, 281).
THEOREM SignedWasDecided == Spec => []SignedAfterDecision
<1>1. ReviewInv => SignedAfterDecision
  BY DEF ReviewInv, ReviewOK, SignedAfterDecision
<1> QED
  BY <1>1, ReviewInvariance, PTL

\* A signature is bound to its signer's nonce for that review, which is gone
\* (model_cards.py:280-303).
THEOREM SignaturesAreBound == Spec => []SignatureBound
<1>1. ReviewInv => SignatureBound
  BY DEF ReviewInv, ReviewOK, SignatureBound, Bound
<1> QED
  BY <1>1, ReviewInvariance, PTL

-----------------------------------------------------------------------------
(* Incidents: types and the inductive invariant. *)

\* What the service and the clock hold.
IncidentTypeOK ==
    /\ now \in 0 .. MaxTime
    /\ stamp \in [Events -> 0 .. MaxTime \cup {NoEvent}]
    /\ incidentStatus \in [Incidents -> I!Status \cup {"absent"}]
    /\ reached \in [Incidents -> SUBSET I!Status]
    /\ origin \in [Incidents -> I!Webhook \cup {NoEvent}]
    /\ record \subseteq Incidents \X I!Entry

IncidentCalls == I!CallTypeOK(I!Form, I!Status \cup {"absent"}, I!Op)

LEMMA IncidentTypeParts == I!TypeOK <=> IncidentCalls /\ IncidentTypeOK
BY DEF I!TypeOK, IncidentCalls, IncidentTypeOK

LEMMA IncidentForms ==
    ASSUME NEW f \in I!Form
    PROVE  /\ f.kind \in {"webhook", "transition", "close", "note", "report",
                          "notification"}
           /\ f.kind # "webhook" => f.incident \in Incidents
           /\ f.kind = "transition" => f.to \in I!Status
           /\ f.kind = "webhook" =>
                  f \in I!Webhook /\ f.event \in Events /\ f.time \in 0 .. MaxTime
BY DEF I!Form, I!Webhook

LEMMA IncidentOps == \A f \in I!Form : I!OpOf(f) \in I!Op
BY IncidentForms DEF I!OpOf, I!Op, I!Status, I!Entry

\* What is known of a mutation that is under way, whatever happens meanwhile: one
\* that contains an incident was sent for an incident seen investigated, and one
\* that creates an incident bears an event that the guardian signed.
IncidentMessageOK(op, f) ==
    /\ f \in I!Form /\ op = I!OpOf(f)
    /\ f.kind = "transition" /\ f.to = "contained" =>
           "investigating" \in reached[f.incident]
    /\ f.kind = "webhook" => stamp[f.event] = f.time

IncidentTaskOK(t) ==
    /\ dpc[t] \in {"fetching", "sending", "advancing"} =>
           /\ dform[t].kind = "webhook" /\ dform[t].signed =>
                  stamp[dform[t].event] = dform[t].time
    /\ dpc[t] = "fetched" =>
           /\ dform[t].kind = "transition"
           /\ dseen[t] # "absent" => dseen[t] \in reached[dform[t].incident]
    /\ dpc[t] \in {"sending", "advancing"} =>
           IncidentMessageOK(I!OpOf(dform[t]), dform[t])

IncidentOK(i) ==
    /\ incidentStatus[i] = "absent" => reached[i] = {}
    /\ incidentStatus[i] # "absent" => incidentStatus[i] \in reached[i]
    /\ "contained" \in reached[i] => "investigating" \in reached[i]
    /\ origin[i] # NoEvent => stamp[origin[i].event] = origin[i].time

IncidentInv ==
    /\ I!TypeOK
    /\ \A m \in dlate : IncidentMessageOK(m.op, m.form)
    /\ \A t \in Clerks : IncidentTaskOK(t)
    /\ \A i \in Incidents : IncidentOK(i)

LEMMA IncidentInit == I!Init => IncidentInv
<1> SUFFICES ASSUME I!Init PROVE IncidentInv
  OBVIOUS
<1> USE DEF I!Init, I!CallInit
<1>1. IncidentTypeOK
  BY DeskAssumption DEF IncidentTypeOK
<1>2. IncidentCalls
  BY DEF IncidentCalls, I!CallTypeOK, I!Label
<1>3. \A t \in Clerks : IncidentTaskOK(t)
  BY DEF IncidentTaskOK
<1>4. \A i \in Incidents : IncidentOK(i)
  BY DEF IncidentOK
<1> QED
  BY <1>1, <1>2, <1>3, <1>4, IncidentTypeParts DEF IncidentInv

-----------------------------------------------------------------------------
(* Incidents: steps of the calls. *)

\* A task moves from one point of its handler to another, or is answered.
LEMMA IncidentCallStep == IncidentInv /\ [I!Next]_(I!vars) => IncidentCalls'
<1> SUFFICES ASSUME IncidentInv, [I!Next]_(I!vars) PROVE IncidentCalls'
  OBVIOUS
<1>0. IncidentCalls /\ IncidentTypeOK
  BY IncidentTypeParts DEF IncidentInv
<1>1. ASSUME NEW t \in Clerks, I!Finish(t) PROVE IncidentCalls'
  BY <1>0, <1>1 DEF IncidentCalls, I!CallTypeOK, I!Finish, I!Answer, I!Goto, I!Label
<1>2. ASSUME NEW t \in Clerks, dpc[t] # "idle", I!Send(t, "sending") PROVE IncidentCalls'
  BY <1>0, <1>2 DEF IncidentCalls, I!CallTypeOK, I!Send, I!Goto, I!Label
<1>3. ASSUME NEW t \in Clerks, I!AddNote(t) \/ I!AddNotification(t) \/ I!Close(t)
                               \/ I!GenerateReport(t) \/ I!AcceptWebhook(t)
                               \/ I!Transition(t)
      PROVE  IncidentCalls'
  BY <1>2, <1>3 DEF I!AddNote, I!AddNotification, I!Close, I!GenerateReport,
     I!AcceptWebhook, I!Transition, I!SendAtOnce
<1>4. ASSUME NEW t \in Clerks, I!Refusal(t) \/ I!BadRequest(t) \/ I!InvalidTransition(t)
                               \/ I!Reloaded(t)
      PROVE  IncidentCalls'
  BY <1>1, <1>4 DEF I!Refusal, I!Refused, I!BadRequest, I!InvalidTransition, I!Reloaded
<1>5. ASSUME NEW t \in Clerks, I!WebhookRefused(t) PROVE IncidentCalls'
  BY <1>0, <1>5 DEF I!WebhookRefused, I!Refuse, I!Goto, IncidentCalls, I!CallTypeOK, I!Label
<1>6. ASSUME NEW t \in Clerks, I!Fetch(t) PROVE IncidentCalls'
  <2>1. incidentStatus[dform[t].incident] \in I!Status \cup {"absent"}
    BY <1>0, <1>6, IncidentForms DEF I!Fetch, IncidentCalls, I!CallTypeOK, IncidentTypeOK
  <2> QED
    BY <1>0, <1>6, <2>1 DEF I!Fetch, I!Read, I!Goto, IncidentCalls, I!CallTypeOK, I!Label
<1>7. ASSUME NEW t \in Clerks, I!Answered(t) PROVE IncidentCalls'
  BY <1>0, <1>1, <1>7 DEF I!Answered, I!Goto, IncidentCalls, I!CallTypeOK, I!Label
<1>8. ASSUME NEW t \in Clerks, I!ServiceTakes(t) PROVE IncidentCalls'
  BY <1>0, <1>8 DEF I!ServiceTakes, I!Take, IncidentCalls, I!CallTypeOK
<1>9. ASSUME NEW t \in Clerks, I!Fails(t) PROVE IncidentCalls'
  <2>1. dlate' \subseteq [op : I!Op, form : I!Form]
    BY <1>0, <1>9, IncidentOps DEF I!Fails, I!CallFails, I!Abandon, I!Pending,
       IncidentCalls,
       I!CallTypeOK
  <2> QED
    BY <1>0, <1>9, <2>1 DEF I!Fails, I!CallFails, I!Answer, I!Goto, IncidentCalls,
       I!CallTypeOK, I!Label
<1>10. ASSUME NEW m \in dlate, I!ServiceTakesLate(m) PROVE IncidentCalls'
  BY <1>0, <1>10 DEF I!ServiceTakesLate, I!TakeLate, IncidentCalls, I!CallTypeOK
<1>11. ASSUME NEW t \in Clerks, NEW f \in I!Form, I!Post(t, f) PROVE IncidentCalls'
  BY <1>0, <1>11 DEF I!Post, I!Arrive, I!Goto, IncidentCalls, I!CallTypeOK, I!Label
<1>12. CASE UNCHANGED I!callVars
  BY <1>0, <1>12 DEF I!callVars, IncidentCalls, I!CallTypeOK
<1> QED
  BY <1>3, <1>4, <1>5, <1>6, <1>7, <1>8, <1>9, <1>10, <1>11, <1>12 DEF I!Next, I!TaskStep,
     I!Terminate, I!Detect, I!Tick, I!vars

-----------------------------------------------------------------------------
(* Incidents: steps of the service and of the guardian. *)

\* The service takes mutations that are as they should be.
LEMMA IncidentTaken ==
    ASSUME IncidentInv, [I!Next]_(I!vars)
    PROVE  \/ UNCHANGED <<I!serviceVars, stamp>>
           \/ \E e \in Events : I!Terminate(e)
           \/ \E i \in Incidents : I!Detect(i)
           \/ \E op, f : /\ IncidentMessageOK(op, f) /\ I!Apply(op, f)
                         /\ UNCHANGED <<now, stamp>>
<1>1. ASSUME NEW t \in Clerks, I!ServiceTakes(t)
      PROVE  \E op, f : /\ IncidentMessageOK(op, f) /\ I!Apply(op, f)
                        /\ UNCHANGED <<now, stamp>>
  <2>1. IncidentMessageOK(I!OpOf(dform[t]), dform[t])
    BY <1>1 DEF I!ServiceTakes, I!Take, I!Pending, IncidentInv, IncidentTaskOK
  <2> QED
    BY <1>1, <2>1 DEF I!ServiceTakes
<1>2. ASSUME NEW m \in dlate, I!ServiceTakesLate(m)
      PROVE  \E op, f : /\ IncidentMessageOK(op, f) /\ I!Apply(op, f)
                        /\ UNCHANGED <<now, stamp>>
  <2>1. IncidentMessageOK(m.op, m.form)
    BY <1>2 DEF IncidentInv
  <2> QED
    BY <1>2, <2>1 DEF I!ServiceTakesLate
<1> QED
  BY <1>1, <1>2 DEF I!Next, I!TaskStep, I!Post, I!AddNote, I!AddNotification, I!Close,
     I!GenerateReport, I!AcceptWebhook, I!SendAtOnce, I!WebhookRefused, I!Refusal,
     I!BadRequest, I!Fetch, I!Transition, I!InvalidTransition, I!Answered, I!Reloaded,
     I!Fails, I!Tick, I!vars, I!serviceVars

LEMMA IncidentMessage ==
    ASSUME NEW op, NEW f, IncidentMessageOK(op, f)
    PROVE  /\ op = "create" => f \in I!Webhook
           /\ op # "create" => f.incident \in Incidents /\ op \in I!Status \cup I!Entry
           /\ op = "contained" => "investigating" \in reached[f.incident]
<1>1. CASE f.kind = "webhook"
  BY <1>1, IncidentForms DEF IncidentMessageOK, I!OpOf
<1>2. CASE f.kind = "transition"
  BY <1>2, IncidentForms DEF IncidentMessageOK, I!OpOf, I!Status
<1>3. CASE f.kind = "close"
  BY <1>3, IncidentForms DEF IncidentMessageOK, I!OpOf, I!Status
<1>4. CASE f.kind \in {"note", "report", "notification"}
  BY <1>4, IncidentForms DEF IncidentMessageOK, I!OpOf, I!Entry
<1> QED
  BY <1>1, <1>2, <1>3, <1>4, IncidentForms DEF IncidentMessageOK

\* What happened to an incident and what was signed stays so.
IncidentGrew ==
    /\ \A i \in Incidents : reached[i] \subseteq reached'[i]
    /\ \A e \in Events : stamp[e] # NoEvent => stamp'[e] = stamp[e]

LEMMA IncidentServiceStep ==
    IncidentInv /\ [I!Next]_(I!vars) =>
        /\ IncidentTypeOK' /\ IncidentGrew
        /\ \A i \in Incidents : IncidentOK(i)'
<1> SUFFICES ASSUME IncidentInv, [I!Next]_(I!vars)
             PROVE  /\ IncidentTypeOK' /\ IncidentGrew
                    /\ \A i \in Incidents : IncidentOK(i)'
  OBVIOUS
<1> USE DEF IncidentTypeOK, IncidentGrew, IncidentOK
<1>0. IncidentTypeOK /\ \A i \in Incidents : IncidentOK(i)
  BY IncidentTypeParts DEF IncidentInv
<1>1. now' \in 0 .. MaxTime
  BY <1>0, DeskAssumption DEF I!Next, I!TaskStep, I!Post, I!AddNote, I!AddNotification,
     I!Close,
     I!GenerateReport, I!AcceptWebhook, I!SendAtOnce, I!WebhookRefused, I!Refusal,
     I!BadRequest, I!Fetch, I!Transition, I!InvalidTransition, I!Answered, I!Reloaded,
     I!Fails, I!Tick, I!vars, I!Terminate, I!Detect, I!ServiceTakes, I!ServiceTakesLate
<1>2. CASE UNCHANGED <<I!serviceVars, stamp>>
  BY <1>0, <1>1, <1>2 DEF I!serviceVars
<1>3. ASSUME NEW e \in Events, I!Terminate(e)
      PROVE  /\ IncidentTypeOK' /\ IncidentGrew
             /\ \A i \in Incidents : IncidentOK(i)'
  <2>1. stamp' \in [Events -> 0 .. MaxTime \cup {NoEvent}] /\ UNCHANGED I!serviceVars
    BY <1>0, <1>3 DEF I!Terminate
  <2>2. \A d \in Events : stamp[d] # NoEvent => stamp'[d] = stamp[d]
    BY <1>0, <1>3 DEF I!Terminate
  <2>3. ASSUME NEW i \in Incidents, origin[i] # NoEvent
        PROVE  stamp'[origin[i].event] = origin[i].time
    <3>1. /\ origin[i].event \in Events /\ origin[i].time \in 0 .. MaxTime
          /\ stamp[origin[i].event] = origin[i].time
      BY <1>0, <2>3 DEF I!Webhook
    <3>2. origin[i].time # NoEvent
      BY <3>1, DeskAssumption
    <3> QED
      BY <2>2, <3>1, <3>2
  <2> QED
    BY <1>0, <1>1, <2>1, <2>2, <2>3 DEF I!serviceVars
<1>4. ASSUME NEW i \in Incidents, I!Detect(i)
      PROVE  /\ IncidentTypeOK' /\ IncidentGrew
             /\ \A j \in Incidents : IncidentOK(j)'
  <2>1. /\ incidentStatus' \in [Incidents -> I!Status \cup {"absent"}]
        /\ reached' \in [Incidents -> SUBSET I!Status]
    BY <1>0, <1>4 DEF I!Detect, I!Status
  <2> QED
    BY <1>0, <1>1, <1>4, <2>1 DEF I!Detect
<1>5. ASSUME NEW op, NEW f, IncidentMessageOK(op, f), I!Apply(op, f),
             UNCHANGED <<now, stamp>>
      PROVE  /\ IncidentTypeOK' /\ IncidentGrew
             /\ \A j \in Incidents : IncidentOK(j)'
  <2>1. CASE op = "create"
    <3>1. f \in I!Webhook /\ I!Create(f)
      BY <1>5, <2>1, IncidentMessage DEF I!Apply
    <3>2. f.kind = "webhook" /\ f # NoEvent /\ stamp[f.event] = f.time
      BY <1>5, <3>1, DeskAssumption DEF IncidentMessageOK, I!Webhook
    <3>3. PICK i \in Incidents :
            /\ incidentStatus[i] = "absent"
            /\ incidentStatus' = [incidentStatus EXCEPT ![i] = "open"]
            /\ reached' = [reached EXCEPT ![i] = {"open"}]
            /\ origin' = [origin EXCEPT ![i] = f]
            /\ UNCHANGED record
      BY <3>1 DEF I!Create
    <3>4. /\ incidentStatus' \in [Incidents -> I!Status \cup {"absent"}]
          /\ reached' \in [Incidents -> SUBSET I!Status]
          /\ origin' \in [Incidents -> I!Webhook \cup {NoEvent}]
      BY <1>0, <3>1, <3>3 DEF I!Status
    <3> QED
      BY <1>0, <1>1, <1>5, <3>2, <3>3, <3>4
  <2>2. CASE op \in I!Entry
    <3>1. f.incident \in Incidents /\ record' = record \cup {<<f.incident, op>>}
          /\ UNCHANGED <<incidentStatus, reached, origin>>
      BY <1>5, <2>2, IncidentMessage DEF I!Apply, I!Amend, I!Entry
    <3> QED
      BY <1>0, <1>1, <1>5, <2>2, <3>1
  <2>3. CASE op # "create" /\ op \notin I!Entry
    <3>1. /\ f.incident \in Incidents /\ op \in I!Status
          /\ incidentStatus[f.incident] # "absent"
          /\ op = "contained" => "investigating" \in reached[f.incident]
      BY <1>5, <2>3, IncidentMessage DEF I!Apply, I!Amend
    <3>2. /\ incidentStatus' = [incidentStatus EXCEPT ![f.incident] = op]
          /\ reached' = [reached EXCEPT ![f.incident] = @ \cup {op}]
          /\ UNCHANGED <<record, origin>>
      BY <1>5, <2>3 DEF I!Apply, I!Amend
    <3>3. /\ incidentStatus' \in [Incidents -> I!Status \cup {"absent"}]
          /\ reached' \in [Incidents -> SUBSET I!Status]
      BY <1>0, <3>1, <3>2
    <3>4. op # "absent"
      BY <3>1 DEF I!Status
    <3>5. \A i \in Incidents : IncidentOK(i)'
      BY <1>0, <1>5, <3>1, <3>2, <3>3, <3>4
    <3>6. IncidentTypeOK' /\ IncidentGrew
      BY <1>0, <1>1, <1>5, <3>1, <3>2, <3>3
    <3> QED
      BY <3>5, <3>6
  <2> QED
    BY <2>1, <2>2, <2>3
<1> QED
  BY <1>2, <1>3, <1>4, <1>5, IncidentTaken

-----------------------------------------------------------------------------
(* Incidents: what the officers hold. *)

LEMMA IncidentMessageStays ==
    ASSUME IncidentInv, [I!Next]_(I!vars), NEW op, NEW f, IncidentMessageOK(op, f)
    PROVE  IncidentMessageOK(op, f)'
<1>1. IncidentGrew
  BY IncidentServiceStep
<1>2. ASSUME f.kind = "transition", f.to = "contained"
      PROVE  "investigating" \in reached'[f.incident]
  BY <1>1, <1>2, IncidentForms DEF IncidentMessageOK, IncidentGrew
<1>3. ASSUME f.kind = "webhook"
      PROVE  stamp'[f.event] = f.time
  <2>1. f.event \in Events /\ f.time \in 0 .. MaxTime /\ stamp[f.event] = f.time
    BY <1>3, IncidentForms DEF IncidentMessageOK
  <2>2. f.time # NoEvent
    BY <2>1, DeskAssumption
  <2> QED
    BY <1>1, <2>1, <2>2 DEF IncidentGrew
<1> QED
  BY <1>2, <1>3 DEF IncidentMessageOK

\* A signature that was good stays good.
LEMMA SignatureStays ==
    ASSUME IncidentInv, [I!Next]_(I!vars), NEW f \in I!Form, f.kind = "webhook",
           stamp[f.event] = f.time
    PROVE  stamp'[f.event] = f.time
<1>1. f.event \in Events /\ f.time # NoEvent
  BY IncidentForms, DeskAssumption
<1> QED
  BY <1>1, IncidentServiceStep DEF IncidentGrew

LEMMA IncidentTaskStep ==
    IncidentInv /\ [I!Next]_(I!vars) => \A t \in Clerks : IncidentTaskOK(t)'
<1> SUFFICES ASSUME IncidentInv, [I!Next]_(I!vars), NEW t \in Clerks
             PROVE  IncidentTaskOK(t)'
  OBVIOUS
<1>0. IncidentCalls /\ IncidentTypeOK /\ IncidentTaskOK(t) /\ IncidentGrew
  BY IncidentTypeParts, IncidentServiceStep DEF IncidentInv
<1>1. CASE dpc'[t] \notin {"fetching", "fetched", "sending", "advancing"}
  BY <1>1 DEF IncidentTaskOK
<1>2. CASE dpc'[t] = dpc[t] /\ dform'[t] = dform[t] /\ dseen'[t] = dseen[t]
  <2>1. CASE dpc[t] = "fetching"
    BY <1>0, <1>2, <2>1, SignatureStays DEF IncidentTaskOK, IncidentCalls, I!CallTypeOK
  <2>2. CASE dpc[t] = "fetched"
    <3>1. dform[t] \in I!Form /\ dform[t].kind = "transition"
      BY <1>0, <2>2 DEF IncidentTaskOK, IncidentCalls, I!CallTypeOK
    <3> QED
      BY <1>0, <1>2, <2>2, <3>1, IncidentForms DEF IncidentTaskOK, IncidentGrew
  <2>3. CASE dpc[t] \in {"sending", "advancing"}
    <3>1. \A op, f : IncidentMessageOK(op, f) => IncidentMessageOK(op, f)'
      BY IncidentMessageStays
    <3>2. PICK op, f : op = I!OpOf(dform[t]) /\ f = dform[t]
      OBVIOUS
    <3>3. IncidentMessageOK(op, f)'
      BY <1>0, <2>3, <3>1, <3>2 DEF IncidentTaskOK
    <3>4. I!OpOf(dform[t])' = op
      BY <1>2, <3>2 DEF I!OpOf
    <3> QED
      BY <1>2, <2>3, <3>2, <3>3, <3>4 DEF IncidentTaskOK, IncidentMessageOK
  <2> QED
    BY <1>1, <1>2, <2>1, <2>2, <2>3
<1>3. ASSUME I!SendAtOnce(t), dpc[t] = "fetching", dform[t].kind # "transition",
             dform[t].kind = "webhook" => dform[t].signed
      PROVE  IncidentTaskOK(t)'
  <2>1. /\ dpc'[t] = "sending" /\ dform' = dform /\ stamp' = stamp
        /\ dform[t] \in I!Form
    BY <1>0, <1>3 DEF I!SendAtOnce, I!Send, I!Goto, IncidentCalls, I!CallTypeOK
  <2> QED
    BY <1>0, <1>3, <2>1 DEF IncidentTaskOK, IncidentMessageOK, I!OpOf
<1>4. CASE I!Transition(t)
  <2>1. /\ dpc'[t] = "sending" /\ dform' = dform /\ stamp' = stamp /\ reached' = reached
        /\ dform[t] \in I!Form /\ dpc[t] = "fetched"
    BY <1>0, <1>4 DEF I!Transition, I!Send, I!Goto, IncidentCalls, I!CallTypeOK,
       I!serviceVars
  <2>2. dform[t].kind = "transition" /\ dform[t].to \in I!ValidTransitions[dseen[t]]
    BY <1>0, <1>4, <2>1 DEF IncidentTaskOK, I!Transition
  <2>3. dform[t].to = "contained" => dseen[t] = "investigating"
    BY <1>0, <2>1, <2>2 DEF I!ValidTransitions, IncidentCalls, I!CallTypeOK, I!Status
  <2> QED
    BY <1>0, <2>1, <2>2, <2>3 DEF IncidentTaskOK, IncidentMessageOK, I!OpOf
<1>5. CASE I!Fetch(t)
  <2>1. /\ dpc'[t] = "fetched" /\ dform' = dform /\ dform[t].kind = "transition"
        /\ dform[t].incident \in Incidents
        /\ dseen'[t] = incidentStatus[dform[t].incident] /\ reached' = reached
    BY <1>0, <1>5, IncidentForms DEF I!Fetch, I!Read, I!Goto, IncidentCalls,
       I!CallTypeOK, I!serviceVars
  <2>2. IncidentOK(dform[t].incident)
    BY <2>1 DEF IncidentInv
  <2> QED
    BY <2>1, <2>2 DEF IncidentTaskOK, IncidentOK
<1>6. ASSUME NEW f \in I!Form, I!Post(t, f) PROVE IncidentTaskOK(t)'
  <2>1. dpc'[t] = "fetching" /\ dform'[t] = f /\ stamp' = stamp
    BY <1>0, <1>6 DEF I!Post, I!Arrive, I!Goto, IncidentCalls, I!CallTypeOK
  <2> QED
    BY <1>6, <2>1 DEF I!Post, IncidentTaskOK
<1>7. \A s \in Clerks : s # t /\ I!TaskStep(s) =>
          dpc'[t] = dpc[t] /\ dform'[t] = dform[t] /\ dseen'[t] = dseen[t]
  BY <1>0 DEF I!TaskStep, I!AddNote, I!AddNotification, I!Close, I!GenerateReport,
     I!AcceptWebhook, I!SendAtOnce, I!Send, I!WebhookRefused, I!Refuse, I!Refusal,
     I!Refused, I!BadRequest, I!Fetch, I!Read, I!Transition, I!InvalidTransition,
     I!ServiceTakes, I!Take, I!Answered, I!Reloaded, I!Fails, I!CallFails, I!Finish,
     I!Answer, I!Goto, IncidentCalls, I!CallTypeOK
<1>8. I!TaskStep(t) =>
        \/ /\ I!SendAtOnce(t) /\ dpc[t] = "fetching" /\ dform[t].kind # "transition"
           /\ dform[t].kind = "webhook" => dform[t].signed
        \/ I!Transition(t) \/ I!Fetch(t)
        \/ dpc'[t] \notin {"fetching", "fetched", "sending", "advancing"}
        \/ dpc'[t] = dpc[t] /\ dform'[t] = dform[t] /\ dseen'[t] = dseen[t]
  BY <1>0 DEF I!TaskStep, I!AddNote, I!AddNotification, I!Close, I!GenerateReport,
     I!AcceptWebhook, I!Verified, I!WebhookRefused, I!Refuse, I!Refusal, I!Refused,
     I!BadRequest, I!InvalidTransition, I!ServiceTakes, I!Take, I!Answered, I!Reloaded,
     I!Fails,
     I!CallFails, I!Finish, I!Answer, I!Goto, IncidentCalls, I!CallTypeOK
<1>9. CASE \E s \in Clerks : I!TaskStep(s)
  BY <1>1, <1>2, <1>3, <1>4, <1>5, <1>7, <1>8, <1>9
<1>10. CASE \E s \in Clerks, f \in I!Form : I!Post(s, f)
  <2>1. \A s \in Clerks, f \in I!Form : s # t /\ I!Post(s, f) =>
            dpc'[t] = dpc[t] /\ dform'[t] = dform[t] /\ dseen'[t] = dseen[t]
    BY <1>0 DEF I!Post, I!Arrive, I!Goto, IncidentCalls, I!CallTypeOK
  <2> QED
    BY <1>2, <1>6, <1>10, <2>1
<1>11. CASE UNCHANGED <<dpc, dform, dseen>>
  BY <1>2, <1>11
<1> QED
  BY <1>9, <1>10, <1>11 DEF I!Next, I!Terminate, I!Detect, I!ServiceTakesLate,
     I!TakeLate, I!Tick, I!callVars, I!vars

\* What is given up on its way was sent as it should be.
LEMMA IncidentLateStep ==
    IncidentInv /\ [I!Next]_(I!vars) => \A m \in dlate' : IncidentMessageOK(m.op, m.form)'
<1> SUFFICES ASSUME IncidentInv, [I!Next]_(I!vars), NEW m \in dlate'
             PROVE  IncidentMessageOK(m.op, m.form)'
  OBVIOUS
<1>1. \A op, f : IncidentMessageOK(op, f) => IncidentMessageOK(op, f)'
  BY IncidentMessageStays
<1>2. CASE m \in dlate
  BY <1>1, <1>2 DEF IncidentInv
<1>3. ASSUME NEW t \in Clerks, I!Fails(t), m \notin dlate
      PROVE  IncidentMessageOK(m.op, m.form)'
  <2>1. /\ dpc[t] \in {"sending", "advancing"}
        /\ m = [op |-> I!OpOf(dform[t]), form |-> dform[t]]
    BY <1>3 DEF I!Fails, I!CallFails, I!Abandon, I!Pending
  <2>2. IncidentMessageOK(m.op, m.form)
    BY <2>1 DEF IncidentInv, IncidentTaskOK
  <2> QED
    BY <1>1, <2>2
<1>4. dlate' \subseteq dlate \/ \E t \in Clerks : I!Fails(t)
  BY DEF I!Next, I!TaskStep, I!Post, I!Arrive, I!AddNote, I!AddNotification, I!Close,
     I!GenerateReport, I!AcceptWebhook, I!SendAtOnce, I!Send, I!WebhookRefused, I!Refuse,
     I!Refusal, I!Refused, I!BadRequest, I!Fetch, I!Read, I!Transition,
     I!InvalidTransition, I!ServiceTakes, I!Take, I!Answered, I!Reloaded, I!Finish,
     I!ServiceTakesLate, I!TakeLate, I!Terminate, I!Detect, I!Tick, I!callVars, I!vars
<1> QED
  BY <1>2, <1>3, <1>4

-----------------------------------------------------------------------------
(* The theorems about incidents. *)

LEMMA IncidentStep == IncidentInv /\ [I!Next]_(I!vars) => IncidentInv'
<1> SUFFICES ASSUME IncidentInv, [I!Next]_(I!vars) PROVE IncidentInv'
  OBVIOUS
<1>1. I!TypeOK'
  BY IncidentCallStep, IncidentServiceStep
  DEF I!TypeOK, IncidentCalls, IncidentTypeOK
<1> QED
  BY <1>1, IncidentTaskStep, IncidentLateStep, IncidentServiceStep DEF IncidentInv

\* That of the incidents is, whatever officers, guardian and service do next.
THEOREM IncidentInvariance == I!Spec => []IncidentInv
BY IncidentInit, IncidentStep, PTL DEF I!Spec

\* Containment follows an investigation, whatever two officers do at once and whatever
\* arrives late (incidents.py:61-66, 359-364, 396).
THEOREM ContainmentFollows == I!Spec => []ContainedWasInvestigated
<1>1. IncidentInv => ContainedWasInvestigated
  BY DEF IncidentInv, IncidentOK, ContainedWasInvestigated, I!ContainedWasInvestigated
<1> QED
  BY <1>1, IncidentInvariance, PTL

\* AMD-18: an incident that bears an event bears one that the guardian signed, at
\* the time it bears (incidents.py:118-181, 484-497).
THEOREM EventsWereSigned == I!Spec => []GuardianSigned
<1>1. IncidentInv => GuardianSigned
  BY DEF IncidentInv, IncidentOK, GuardianSigned, I!GuardianSigned
<1> QED
  BY <1>1, IncidentInvariance, PTL

-----------------------------------------------------------------------------
(* The process knowledge: types and the inductive invariant. *)

KnowledgeTypeOK ==
    /\ type \in [Candidates -> Types]
    /\ status \in [Candidates -> K!Decision \cup {"pending"}]
    /\ reasons \subseteq Candidates
    /\ text \in [Candidates -> K!Text \cup {K!NoText}]

KnowledgeCalls == K!CallTypeOK(K!Form, Types, K!Op)

LEMMA KnowledgeTypeParts == K!TypeOK <=> KnowledgeCalls /\ KnowledgeTypeOK
BY DEF K!TypeOK, KnowledgeCalls, KnowledgeTypeOK

LEMMA KnowledgeForms ==
    ASSUME NEW f \in K!Form
    PROVE  /\ f.kind \in {"batch", "one", "modify"}
           /\ f.kind = "batch" => f.candidates \subseteq Candidates
           /\ f.kind # "batch" => f.candidate \in Candidates
           /\ f.kind # "modify" => f.to \in {"approved", "rejected"}
           /\ f.kind = "modify" => f.text \in K!Text \cup {K!NoText}
BY DEF K!Form

LEMMA KnowledgeOps == \A f \in K!Form : K!OpOf(f) \in K!Op
BY KnowledgeForms DEF K!OpOf, K!Op, K!Decision

\* A decision under way bears its rationale, and a text the keys of the type of its
\* candidate, which never changes.
KnowledgeMessageOK(op, f) ==
    /\ f \in K!Form /\ op = K!OpOf(f)
    /\ f.kind # "modify" => f.rationale = "long"
    /\ f.kind = "modify" => f.text.keys = type[f.candidate]

KnowledgeTaskOK(t) ==
    /\ dpc[t] = "fetched" =>
           dform[t].kind = "modify" /\ dseen[t] = type[dform[t].candidate]
    /\ dpc[t] \in {"sending", "advancing"} =>
           KnowledgeMessageOK(K!OpOf(dform[t]), dform[t])

KnowledgeInv ==
    /\ K!TypeOK
    /\ \A m \in dlate : KnowledgeMessageOK(m.op, m.form)
    /\ \A t \in Clerks : KnowledgeTaskOK(t)
    /\ DecisionsStand

LEMMA KnowledgeInit == K!Init => KnowledgeInv
<1> SUFFICES ASSUME K!Init PROVE KnowledgeInv
  OBVIOUS
<1> USE DEF K!Init, K!CallInit
<1>1. KnowledgeTypeOK
  BY DEF KnowledgeTypeOK
<1>2. KnowledgeCalls
  BY DEF KnowledgeCalls, K!CallTypeOK, K!Label
<1>3. \A t \in Clerks : KnowledgeTaskOK(t)
  BY DEF KnowledgeTaskOK
<1>4. DecisionsStand
  BY DEF DecisionsStand, K!DecisionsStand
<1> QED
  BY <1>1, <1>2, <1>3, <1>4, KnowledgeTypeParts DEF KnowledgeInv

-----------------------------------------------------------------------------
(* The process knowledge: what a step does. *)

LEMMA KnowledgeCallStep == KnowledgeInv /\ [K!Next]_(K!vars) => KnowledgeCalls'
<1> SUFFICES ASSUME KnowledgeInv, [K!Next]_(K!vars) PROVE KnowledgeCalls'
  OBVIOUS
<1>0. KnowledgeCalls /\ KnowledgeTypeOK
  BY KnowledgeTypeParts DEF KnowledgeInv
<1>1. ASSUME NEW t \in Clerks, K!Finish(t) PROVE KnowledgeCalls'
  BY <1>0, <1>1 DEF KnowledgeCalls, K!CallTypeOK, K!Finish, K!Answer, K!Goto, K!Label
<1>2. ASSUME NEW t \in Clerks, K!BadRequest(t) \/ K!NotModified(t) \/ K!Answered(t)
      PROVE  KnowledgeCalls'
  BY <1>1, <1>2 DEF K!BadRequest, K!NotModified, K!Answered
<1>3. ASSUME NEW t \in Clerks, K!Decide(t) \/ K!Batch(t) \/ K!Modify(t)
      PROVE  KnowledgeCalls'
  BY <1>0, <1>3 DEF K!Decide, K!Batch, K!Modify, K!Send, K!Goto, KnowledgeCalls,
     K!CallTypeOK, K!Label
<1>4. ASSUME NEW t \in Clerks, K!Fetch(t) PROVE KnowledgeCalls'
  <2>1. type[dform[t].candidate] \in Types
    BY <1>0, <1>4, KnowledgeForms DEF K!Fetch, KnowledgeCalls, K!CallTypeOK,
       KnowledgeTypeOK
  <2> QED
    BY <1>0, <1>4, <2>1 DEF K!Fetch, K!Read, K!Goto, KnowledgeCalls, K!CallTypeOK,
       K!Label
<1>5. ASSUME NEW t \in Clerks, K!ServiceTakes(t) PROVE KnowledgeCalls'
  BY <1>0, <1>5 DEF K!ServiceTakes, K!Take, KnowledgeCalls, K!CallTypeOK
<1>6. ASSUME NEW t \in Clerks, K!Fails(t) PROVE KnowledgeCalls'
  <2>1. dlate' \subseteq [op : K!Op, form : K!Form]
    BY <1>0, <1>6, KnowledgeOps DEF K!Fails, K!CallFails, K!Abandon, K!Pending,
       KnowledgeCalls, K!CallTypeOK
  <2> QED
    BY <1>0, <1>6, <2>1 DEF K!Fails, K!CallFails, K!Answer, K!Goto, KnowledgeCalls,
       K!CallTypeOK, K!Label
<1>7. ASSUME NEW m \in dlate, K!ServiceTakesLate(m) PROVE KnowledgeCalls'
  BY <1>0, <1>7 DEF K!ServiceTakesLate, K!TakeLate, KnowledgeCalls, K!CallTypeOK
<1>8. ASSUME NEW t \in Clerks, NEW f \in K!Form, K!Post(t, f) PROVE KnowledgeCalls'
  BY <1>0, <1>8 DEF K!Post, K!Arrive, K!Goto, KnowledgeCalls, K!CallTypeOK, K!Label
<1>9. CASE UNCHANGED K!callVars
  BY <1>0, <1>9 DEF K!callVars, KnowledgeCalls, K!CallTypeOK
<1> QED
  BY <1>2, <1>3, <1>4, <1>5, <1>6, <1>7, <1>8, <1>9 DEF K!Next, K!TaskStep, K!vars

LEMMA TypeStays == [K!Next]_(K!vars) => type' = type
BY DEF K!Next, K!TaskStep, K!Post, K!Decide, K!Batch, K!BadRequest, K!Fetch, K!Modify,
   K!NotModified, K!ServiceTakes, K!ServiceTakesLate, K!Apply, K!Answered, K!Fails,
   K!serviceVars, K!vars

LEMMA KnowledgeMessageStays ==
    ASSUME [K!Next]_(K!vars), NEW op, NEW f, KnowledgeMessageOK(op, f)
    PROVE  KnowledgeMessageOK(op, f)'
BY TypeStays DEF KnowledgeMessageOK

\* The service takes decisions that are as they should be.
LEMMA KnowledgeTaken ==
    ASSUME KnowledgeInv, [K!Next]_(K!vars)
    PROVE  \/ UNCHANGED K!serviceVars
           \/ \E op, f : KnowledgeMessageOK(op, f) /\ K!Apply(op, f)
<1>1. ASSUME NEW t \in Clerks, K!ServiceTakes(t)
      PROVE  \E op, f : KnowledgeMessageOK(op, f) /\ K!Apply(op, f)
  <2>1. KnowledgeMessageOK(K!OpOf(dform[t]), dform[t])
    BY <1>1 DEF K!ServiceTakes, K!Take, K!Pending, KnowledgeInv, KnowledgeTaskOK
  <2> QED
    BY <1>1, <2>1 DEF K!ServiceTakes
<1>2. ASSUME NEW m \in dlate, K!ServiceTakesLate(m)
      PROVE  \E op, f : KnowledgeMessageOK(op, f) /\ K!Apply(op, f)
  <2>1. KnowledgeMessageOK(m.op, m.form)
    BY <1>2 DEF KnowledgeInv
  <2> QED
    BY <1>2, <2>1 DEF K!ServiceTakesLate
<1> QED
  BY <1>1, <1>2 DEF K!Next, K!TaskStep, K!Post, K!Decide, K!Batch, K!BadRequest, K!Fetch,
     K!Modify, K!NotModified, K!Answered, K!Fails, K!serviceVars, K!vars

LEMMA KnowledgeServiceStep ==
    KnowledgeInv /\ [K!Next]_(K!vars) => KnowledgeTypeOK' /\ DecisionsStand'
<1> SUFFICES ASSUME KnowledgeInv, [K!Next]_(K!vars)
             PROVE  KnowledgeTypeOK' /\ DecisionsStand'
  OBVIOUS
<1> USE DEF KnowledgeTypeOK, DecisionsStand, K!DecisionsStand
<1>0. KnowledgeTypeOK /\ DecisionsStand
  BY KnowledgeTypeParts DEF KnowledgeInv
<1>1. CASE UNCHANGED K!serviceVars
  BY <1>0, <1>1 DEF K!serviceVars
<1>2. ASSUME NEW op, NEW f, KnowledgeMessageOK(op, f), K!Apply(op, f)
      PROVE  KnowledgeTypeOK' /\ DecisionsStand'
  <2>1. PICK cs \in K!Subjects(f) :
          /\ status' = [c \in Candidates |-> IF c \in cs THEN op ELSE status[c]]
          /\ reasons' = IF f.rationale = "long" THEN reasons \cup cs ELSE reasons \ cs
          /\ text' = IF op = "modified"
                     THEN [text EXCEPT ![f.candidate] = f.text] ELSE text
    BY <1>2 DEF K!Apply
  <2>2. /\ type' = type /\ f \in K!Form /\ op \in K!Decision
        /\ op # "modified" => f.rationale = "long"
        /\ op = "modified" => /\ f.kind = "modify"
                              /\ f.text.keys = type[f.candidate]
    BY <1>2, KnowledgeForms DEF K!Apply, KnowledgeMessageOK, K!OpOf, K!Decision
  <2>3. cs \subseteq Candidates
    BY <2>1, <2>2, KnowledgeForms DEF K!Subjects
  <2>4. text' \in [Candidates -> K!Text \cup {K!NoText}]
    BY <1>0, <2>1, <2>2, KnowledgeForms
  <2>5. KnowledgeTypeOK'
    BY <1>0, <2>1, <2>2, <2>3, <2>4
  <2>6. ASSUME NEW c \in Candidates, status'[c] \in {"approved", "rejected"}
        PROVE  c \in reasons'
    BY <1>0, <2>1, <2>2, <2>6
  <2>7. ASSUME NEW c \in Candidates, text'[c] # K!NoText
        PROVE  text'[c].keys = type'[c]
    BY <1>0, <2>1, <2>2, <2>7, KnowledgeForms
  <2> QED
    BY <2>5, <2>6, <2>7
<1> QED
  BY <1>1, <1>2, KnowledgeTaken

LEMMA KnowledgeTaskStep ==
    KnowledgeInv /\ [K!Next]_(K!vars) => \A t \in Clerks : KnowledgeTaskOK(t)'
<1> SUFFICES ASSUME KnowledgeInv, [K!Next]_(K!vars), NEW t \in Clerks
             PROVE  KnowledgeTaskOK(t)'
  OBVIOUS
<1>0. KnowledgeCalls /\ KnowledgeTaskOK(t) /\ type' = type
  BY KnowledgeTypeParts, TypeStays DEF KnowledgeInv
<1> USE DEF KnowledgeTaskOK, KnowledgeMessageOK, K!OpOf
<1>1. CASE dpc'[t] \notin {"fetched", "sending", "advancing"}
  BY <1>1
<1>2. CASE dpc'[t] = dpc[t] /\ dform'[t] = dform[t] /\ dseen'[t] = dseen[t]
  BY <1>0, <1>2
<1>3. CASE K!Decide(t) \/ K!Batch(t)
  BY <1>0, <1>3 DEF K!Decide, K!Batch, K!Reasoned, K!Send, K!Goto, KnowledgeCalls,
     K!CallTypeOK
<1>4. CASE K!Modify(t)
  BY <1>0, <1>4 DEF K!Modify, K!ValidText, K!Send, K!Goto, KnowledgeCalls,
     K!CallTypeOK
<1>5. CASE K!Fetch(t)
  BY <1>0, <1>5 DEF K!Fetch, K!Read, K!Goto, KnowledgeCalls, K!CallTypeOK
<1>6. \A s \in Clerks : s # t /\ K!TaskStep(s) =>
          dpc'[t] = dpc[t] /\ dform'[t] = dform[t] /\ dseen'[t] = dseen[t]
  BY <1>0 DEF K!TaskStep, K!Decide, K!Batch, K!BadRequest, K!Fetch, K!Read, K!Modify,
     K!NotModified, K!ServiceTakes, K!Take, K!Answered, K!Fails, K!CallFails, K!Finish,
     K!Answer, K!Send, K!Goto, KnowledgeCalls, K!CallTypeOK
<1>7. K!TaskStep(t) =>
        \/ K!Decide(t) \/ K!Batch(t) \/ K!Modify(t) \/ K!Fetch(t)
        \/ dpc'[t] \notin {"fetched", "sending", "advancing"}
        \/ dpc'[t] = dpc[t] /\ dform'[t] = dform[t] /\ dseen'[t] = dseen[t]
  BY <1>0 DEF K!TaskStep, K!BadRequest, K!NotModified, K!ServiceTakes, K!Take,
     K!Answered, K!Fails, K!CallFails, K!Finish, K!Answer, K!Goto, KnowledgeCalls,
     K!CallTypeOK
<1>8. CASE \E s \in Clerks : K!TaskStep(s)
  BY <1>1, <1>2, <1>3, <1>4, <1>5, <1>6, <1>7, <1>8
<1>9. CASE \E s \in Clerks, f \in K!Form : K!Post(s, f)
  BY <1>0, <1>1, <1>2, <1>9 DEF K!Post, K!Arrive, K!Goto, KnowledgeCalls, K!CallTypeOK
<1>10. CASE UNCHANGED <<dpc, dform, dseen>>
  BY <1>2, <1>10
<1> QED
  BY <1>8, <1>9, <1>10 DEF K!Next, K!ServiceTakesLate, K!TakeLate, K!callVars, K!vars

LEMMA KnowledgeLateStep ==
    KnowledgeInv /\ [K!Next]_(K!vars) =>
        \A m \in dlate' : KnowledgeMessageOK(m.op, m.form)'
<1> SUFFICES ASSUME KnowledgeInv, [K!Next]_(K!vars), NEW m \in dlate'
             PROVE  KnowledgeMessageOK(m.op, m.form)'
  OBVIOUS
<1>1. \A op, f : KnowledgeMessageOK(op, f) => KnowledgeMessageOK(op, f)'
  BY KnowledgeMessageStays
<1>2. CASE m \in dlate
  BY <1>1, <1>2 DEF KnowledgeInv
<1>3. ASSUME NEW t \in Clerks, K!Fails(t), m \notin dlate
      PROVE  KnowledgeMessageOK(m.op, m.form)'
  <2>1. /\ dpc[t] \in {"sending", "advancing"}
        /\ m = [op |-> K!OpOf(dform[t]), form |-> dform[t]]
    BY <1>3 DEF K!Fails, K!CallFails, K!Abandon, K!Pending
  <2>2. KnowledgeMessageOK(m.op, m.form)
    BY <2>1 DEF KnowledgeInv, KnowledgeTaskOK
  <2> QED
    BY <1>1, <2>2
<1>4. dlate' \subseteq dlate \/ \E t \in Clerks : K!Fails(t)
  BY DEF K!Next, K!TaskStep, K!Post, K!Arrive, K!Decide, K!Batch, K!BadRequest, K!Fetch,
     K!Read, K!Modify, K!NotModified, K!ServiceTakes, K!Take, K!Answered, K!Finish, K!Send,
     K!ServiceTakesLate, K!TakeLate, K!callVars, K!vars
<1> QED
  BY <1>2, <1>3, <1>4

LEMMA KnowledgeStep == KnowledgeInv /\ [K!Next]_(K!vars) => KnowledgeInv'
<1> SUFFICES ASSUME KnowledgeInv, [K!Next]_(K!vars) PROVE KnowledgeInv'
  OBVIOUS
<1>1. K!TypeOK'
  BY KnowledgeCallStep, KnowledgeServiceStep
  DEF K!TypeOK, KnowledgeCalls, KnowledgeTypeOK
<1> QED
  BY <1>1, KnowledgeTaskStep, KnowledgeLateStep, KnowledgeServiceStep DEF KnowledgeInv

\* That of the process knowledge is, whatever experts and service do next.
THEOREM KnowledgeInvariance == K!Spec => []KnowledgeInv
BY KnowledgeInit, KnowledgeStep, PTL DEF K!Spec

\* REQ-CPL-029: what is approved or rejected has a rationale, and a text that
\* replaces a candidate's is one of its type (process_knowledge.py:60-67, 252-327).
THEOREM DecisionsAreJustified == K!Spec => []DecisionsStand
<1>1. KnowledgeInv => DecisionsStand
  BY DEF KnowledgeInv
<1> QED
  BY <1>1, KnowledgeInvariance, PTL

-----------------------------------------------------------------------------
(* All desks. *)

DeskInv ==
    /\ desk \in {"reviews", "incidents", "knowledge"}
    /\ desk = "reviews" => ReviewInv
    /\ desk = "incidents" => IncidentInv
    /\ desk = "knowledge" => KnowledgeInv

\* Whichever desk works, every variable of its module keeps its type.
THEOREM DeskTypeCorrect == MCSpec => []DeskTypeOK
<1>1. MCInit => DeskInv
  BY ReviewInit, IncidentInit, KnowledgeInit DEF MCInit, DeskInv
<1>2. DeskInv /\ [MCNext]_mcVars => DeskInv'
  <2> SUFFICES ASSUME DeskInv, [MCNext]_mcVars PROVE DeskInv'
    OBVIOUS
  <2>1. desk' = desk
    BY DEF MCNext, mcVars
  <2>2. CASE desk = "reviews"
    <3>1. [Next]_vars
      BY <2>2 DEF MCNext, mcVars
    <3> QED
      BY <2>1, <2>2, <3>1, ReviewStep DEF DeskInv
  <2>3. CASE desk = "incidents"
    <3>1. [I!Next]_(I!vars)
      BY <2>3 DEF MCNext, mcVars, incidentVars, deskVars, I!vars, I!callVars,
         I!serviceVars
    <3> QED
      BY <2>1, <2>3, <3>1, IncidentStep DEF DeskInv
  <2>4. CASE desk = "knowledge"
    <3>1. [K!Next]_(K!vars)
      BY <2>4 DEF MCNext, mcVars, knowledgeVars, deskVars, K!vars, K!callVars,
         K!serviceVars
    <3> QED
      BY <2>1, <2>4, <3>1, KnowledgeStep DEF DeskInv
  <2> QED
    BY <2>2, <2>3, <2>4 DEF DeskInv
<1>3. DeskInv => DeskTypeOK
  BY DEF DeskInv, DeskTypeOK, ReviewInv, IncidentInv, KnowledgeInv
<1> QED
  BY <1>1, <1>2, <1>3, PTL DEF MCSpec
=============================================================================
