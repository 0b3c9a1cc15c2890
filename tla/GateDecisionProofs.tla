-------------------------- MODULE GateDecisionProofs --------------------------
(***************************************************************************)
(* Deciding gates, for every number of submissions, users, gates, nonces   *)
(* and workers and every assignment of backends: type correctness, the     *)
(* single use of a nonce, what a decision is bound to, separation of       *)
(* duties, and that the nonce manager keeps its promise.                   *)
(***************************************************************************)
EXTENDS GateDecision, TLAPS

\* A stored nonce has been issued.
StoredIssued == \A n \in stored : binding[n] # Unissued

\* What every decision sent to the service is known to be.
Authorised(t) ==
    LET f == form[t] IN
    /\ f.nonce \in Nonces
    /\ binding[f.nonce] # Unissued
    /\ binding[f.nonce].sub = f.user /\ binding[f.nonce].action = f.gate
    /\ f.nonce \notin stored

WireAuthorised ==
    \A t \in wire :
        /\ pc[t] \in {"submitting", "auditing", "done"}
        /\ ~SodViolation(form[t])
        /\ form[t].gate \in Sensitive => Authorised(t)

\* The service decides nothing it was not sent.
DecidedWasSent ==
    \A g \in Gates : decision[g] # NoTask =>
        decision[g] \in wire /\ form[decision[g]].gate = g

IInv ==
    /\ TypeOK
    /\ StoredIssued
    /\ WireAuthorised
    /\ NonceUsedOnce
    /\ DecidedWasSent

LEMMA InitIInv == Init => IInv
<1> SUFFICES ASSUME Init PROVE IInv
  OBVIOUS
<1> USE DEF Init, NonceInit
<1>1. NonceTypeOK
  BY NonceAssumption DEF NonceTypeOK
<1>2. TypeOK
  BY <1>1, NonceAssumption DEF TypeOK, Outcome
<1>3. StoredIssued /\ WireAuthorised /\ NonceUsedOnce /\ DecidedWasSent
  BY DEF StoredIssued, WireAuthorised, NonceUsedOnce, DecidedWasSent, Gates
<1> QED
  BY <1>2, <1>3 DEF IInv

-----------------------------------------------------------------------------
(* Type correctness, one action at a time. *)

LEMMA LaterBounded ==
    ASSUME NEW b \in Nat, NEW a \in 0 .. b + 1
    PROVE  Later(a, b + 1) \in 0 .. b + 1
BY DEF Later

LEMMA TypeStep == TypeOK /\ [Next]_vars => TypeOK'
<1> SUFFICES ASSUME TypeOK, [Next]_vars PROVE TypeOK'
  OBVIOUS
<1> USE DEF TypeOK, NonceTypeOK
<1>1. ASSUME NEW w \in Workers, NEW u \in Users, NEW g \in Gates, Detail(w, u, g)
      PROVE  TypeOK'
  <2>1. PICK n \in Nonces : Issue(w, n, u, g)
    BY <1>1 DEF Detail
  <2>2. [sub |-> u, action |-> g, backend |-> BackendOf[w]] \in Binding
    BY DEF Binding, Gates
  <2>3. 0 \in 0 .. NonceMaxAge + 1
    BY NonceAssumption
  <2>4. NonceTypeOK'
    BY <1>1, <2>1, <2>2, <2>3 DEF Issue, Detail
  <2> QED
    BY <1>1, <2>4 DEF Detail, taskVars
<1>2. ASSUME NEW t \in Tasks, NEW f \in Form, Post(t, f) PROVE TypeOK'
  <2>1. f.user \in Users /\ mfaAge[f.user] \in 0 .. MfaMaxAge + 1
    BY DEF Form
  <2> QED
    BY <1>2, <2>1 DEF Post, mfaVars, nonceVars
<1>3. ASSUME NEW t \in Tasks, TaskStep(t) PROVE TypeOK'
  <2>1. CASE CheckSod(t) \/ CheckStepUp(t) \/ CheckNonceGiven(t)
    BY <2>1 DEF CheckSod, CheckStepUp, CheckNonceGiven, Refuse, Finish, Outcome,
                mfaVars, nonceVars
  <2>2. CASE CheckNonce(t)
    <3>1. form[t].nonce \in Nonces
      BY <2>2 DEF CheckNonce, Form
    <3>2. NonceTypeOK'
      BY <2>2 DEF CheckNonce, Consume
    <3>3. CASE Submit(t)
      BY <2>2, <3>1, <3>2, <3>3 DEF CheckNonce, Submit
    <3>4. CASE Refuse(t, "nonce_rejected")
      BY <2>2, <3>1, <3>2, <3>4 DEF CheckNonce, Refuse, Outcome
    <3> QED
      BY <2>2, <3>3, <3>4 DEF CheckNonce
  <2>3. CASE SkipMfa(t)
    BY <2>3 DEF SkipMfa, Submit, mfaVars, nonceVars
  <2>4. CASE Refused(t) \/ CallFails(t) \/ Audited(t)
    BY <2>4 DEF Refused, CallFails, Audited, Finish, Outcome, mfaVars, nonceVars
  <2>5. CASE ReceiptArrives(t)
    BY <2>5 DEF ReceiptArrives, mfaVars, nonceVars
  <2> QED
    BY <1>3, <2>1, <2>2, <2>3, <2>4, <2>5 DEF TaskStep
<1>4. ASSUME NEW t \in Tasks, ServiceDecides(t) PROVE TypeOK'
  BY <1>4 DEF ServiceDecides, taskVars, mfaVars, nonceVars
<1>5. ASSUME NEW u \in Users, DoStepUp(u) PROVE TypeOK'
  <2>1. 0 \in 0 .. MfaMaxAge + 1
    BY NonceAssumption
  <2> QED
    BY <1>5, <2>1 DEF DoStepUp, StepUp, taskVars, nonceVars
<1>6. CASE Tick
  <2>1. nonceAge' \in [Nonces -> 0 .. NonceMaxAge + 1]
    BY <1>6, NonceAssumption, LaterBounded DEF Tick, NonceTick
  <2>2. mfaAge' \in [Users -> 0 .. MfaMaxAge + 1]
    BY <1>6, NonceAssumption, LaterBounded DEF Tick, NonceTick
  <2>3. seenAge' \in [Tasks -> 0 .. MfaMaxAge + 1]
    BY <1>6, NonceAssumption, LaterBounded DEF Tick
  <2> QED
    BY <1>6, <2>1, <2>2, <2>3 DEF Tick, NonceTick
<1>7. CASE UNCHANGED vars
  BY <1>7 DEF vars, taskVars, mfaVars, nonceVars
<1> QED
  BY <1>1, <1>2, <1>3, <1>4, <1>5, <1>6, <1>7 DEF Next

-----------------------------------------------------------------------------
(* The decisions sent: what is known of them stays known. *)

\* A step that sends nothing and leaves the tasks on the wire and the bindings
\* alone keeps what is known of them.
LEMMA QuietStep ==
    ASSUME IInv,
           wire' = wire, binding' = binding, stored' \subseteq stored,
           form' = form, decision' = decision,
           \A t \in wire : pc'[t] \in {"submitting", "auditing", "done"}
    PROVE  StoredIssued' /\ WireAuthorised' /\ NonceUsedOnce' /\ DecidedWasSent'
<1>1. StoredIssued'
  BY DEF IInv, StoredIssued
<1>2. WireAuthorised'
  BY DEF IInv, WireAuthorised, Authorised, SodViolation
<1>3. NonceUsedOnce' /\ DecidedWasSent'
  BY DEF IInv, NonceUsedOnce, DecidedWasSent
<1> QED
  BY <1>1, <1>2, <1>3

\* Sending one more decision that is authorised, with a nonce that is stored
\* until then, keeps it too.
LEMMA SendStep ==
    ASSUME IInv, NEW t \in Tasks, pc[t] = "fetching", Submit(t),
           ~SodViolation(form[t]),
           binding' = binding, stored' \subseteq stored, decision' = decision,
           form[t].gate \in Sensitive =>
               form[t].nonce \in stored /\ Authorised(t)'
    PROVE  StoredIssued' /\ WireAuthorised' /\ NonceUsedOnce' /\ DecidedWasSent'
<1> USE DEF IInv, TypeOK, Submit
<1>1. wire' = wire \cup {t} /\ form' = form /\ t \notin wire
  BY DEF WireAuthorised
<1>2. pc'[t] = "submitting" /\ \A s \in wire : pc'[s] = pc[s]
  BY <1>1
<1>3. StoredIssued'
  BY DEF StoredIssued
<1>4. \A s \in wire : form[s].gate \in Sensitive => Authorised(s)'
  BY <1>1 DEF WireAuthorised, Authorised
<1>5. WireAuthorised'
  BY <1>1, <1>2, <1>4 DEF WireAuthorised, SodViolation
<1>6. \A s \in wire : form[s].gate \in Sensitive => form[s].nonce \notin stored
  BY DEF WireAuthorised, Authorised
<1>7. NonceUsedOnce'
  BY <1>1, <1>6 DEF NonceUsedOnce
<1>8. DecidedWasSent'
  BY <1>1 DEF DecidedWasSent
<1> QED
  BY <1>3, <1>5, <1>7, <1>8

\* Accepting a nonce is what makes a submission authorised.
LEMMA AcceptAuthorises ==
    ASSUME IInv, NEW t \in Tasks, form[t] \in Form,
           Consume(form[t].worker, form[t].nonce), form' = form,
           form[t].nonce # NoNonce,
           Accepts(form[t].worker, form[t].nonce, form[t].user, form[t].gate)
    PROVE  form[t].nonce \in stored /\ Authorised(t)'
<1> DEFINE n == form[t].nonce
<1>1. n \in Nonces /\ n \in stored /\ binding[n] # Unissued
  BY DEF Form, Accepts, Found, IInv, StoredIssued
<1>2. stored' = stored \ {n} /\ binding' = binding
  BY DEF Consume, Accepts
<1>3. binding[n].sub = form[t].user /\ binding[n].action = form[t].gate
  BY DEF Accepts, Valid
<1> QED
  BY <1>1, <1>2, <1>3 DEF Authorised

LEMMA NextIInv == IInv /\ [Next]_vars => IInv'
<1> SUFFICES ASSUME IInv, [Next]_vars PROVE IInv'
  OBVIOUS
<1> DEFINE Rest == StoredIssued /\ WireAuthorised /\ NonceUsedOnce /\ DecidedWasSent
<1>0. TypeOK /\ TypeOK'
  BY TypeStep DEF IInv
<1>q. \A t \in wire : t \in Tasks /\ pc[t] \in {"submitting", "auditing", "done"}
  BY <1>0 DEF IInv, WireAuthorised, TypeOK
<1>1. ASSUME NEW w \in Workers, NEW u \in Users, NEW g \in Gates, Detail(w, u, g)
      PROVE  Rest'
  <2>1. PICK n \in Nonces : Issue(w, n, u, g)
    BY <1>1 DEF Detail
  <2>2. /\ binding[n] = Unissued /\ binding'[n] # Unissued
        /\ \A m \in Nonces : m # n => binding'[m] = binding[m]
        /\ stored' = stored \cup {n}
    <3>1. [sub |-> u, action |-> g, backend |-> BackendOf[w]] \in Binding
      BY DEF Binding, Gates
    <3> QED
      BY <1>0, <2>1, <3>1, UnissuedAssumption DEF Issue, TypeOK, NonceTypeOK
  <2>3. UNCHANGED <<pc, form, wire, decision>>
    BY <1>1 DEF Detail, taskVars
  <2>4. StoredIssued'
    BY <1>0, <2>2 DEF IInv, StoredIssued, TypeOK, NonceTypeOK
  <2>5. WireAuthorised'
    <3>1. \A t \in wire : form[t].gate \in Sensitive => Authorised(t)'
      BY <2>2, <2>3 DEF IInv, WireAuthorised, Authorised
    <3> QED
      BY <2>3, <3>1 DEF IInv, WireAuthorised, SodViolation
  <2>6. NonceUsedOnce' /\ DecidedWasSent'
    BY <2>3 DEF IInv, NonceUsedOnce, DecidedWasSent
  <2> QED
    BY <2>4, <2>5, <2>6
<1>2. ASSUME NEW t \in Tasks, NEW f \in Form, Post(t, f) PROVE Rest'
  <2>1. t \notin wire
    BY <1>2, <1>q DEF Post
  <2>2. /\ UNCHANGED <<wire, binding, stored, decision>>
        /\ \A s \in wire : form'[s] = form[s] /\ pc'[s] = pc[s]
    BY <1>0, <1>2, <2>1, <1>q DEF Post, mfaVars, nonceVars, TypeOK
  <2>3. StoredIssued'
    BY <2>2 DEF IInv, StoredIssued
  <2>4. WireAuthorised'
    BY <2>2 DEF IInv, WireAuthorised, Authorised, SodViolation
  <2>5. NonceUsedOnce'
    BY <2>2 DEF IInv, NonceUsedOnce
  <2>6. DecidedWasSent'
    BY <2>2 DEF IInv, DecidedWasSent
  <2> QED
    BY <2>3, <2>4, <2>5, <2>6
<1>3. ASSUME NEW t \in Tasks, TaskStep(t) PROVE Rest'
  <2>1. CASE CheckSod(t) \/ CheckStepUp(t) \/ CheckNonceGiven(t)
    BY <1>0, <1>q, <2>1, QuietStep
       DEF CheckSod, CheckStepUp, CheckNonceGiven, Refuse, Finish, mfaVars, nonceVars,
           TypeOK
  <2>2. CASE CheckNonce(t)
    <3>1. /\ pc[t] = "fetching" /\ ~SodViolation(form[t])
          /\ Consume(form[t].worker, form[t].nonce) /\ form[t].nonce # NoNonce
          /\ binding' = binding /\ stored' \subseteq stored /\ decision' = decision
      BY <2>2 DEF CheckNonce, Consume
    <3>2. CASE /\ Submit(t)
               /\ Accepts(form[t].worker, form[t].nonce, form[t].user, form[t].gate)
      <4>1. form[t] \in Form /\ form' = form
        BY <1>0, <3>1, <3>2 DEF TypeOK, Submit
      <4>2. form[t].nonce \in stored /\ Authorised(t)'
        BY <3>1, <3>2, <4>1, AcceptAuthorises
      <4> QED
        BY <3>1, <3>2, <4>2, SendStep
    <3>3. CASE Refuse(t, "nonce_rejected")
      BY <1>0, <1>q, <3>1, <3>3, QuietStep DEF Refuse, TypeOK
    <3> QED
      BY <2>2, <3>2, <3>3 DEF CheckNonce
  <2>3. CASE SkipMfa(t)
    <3>1. /\ pc[t] = "fetching" /\ ~SodViolation(form[t]) /\ Submit(t)
          /\ form[t].gate \notin Sensitive
          /\ UNCHANGED <<binding, stored, decision>>
      BY <2>3 DEF SkipMfa, mfaVars, nonceVars
    <3> QED
      BY <3>1, SendStep
  <2>4. CASE Refused(t) \/ CallFails(t) \/ Audited(t)
    BY <1>0, <1>q, <2>4, QuietStep
       DEF Refused, CallFails, Audited, Finish, mfaVars, nonceVars, TypeOK
  <2>5. CASE ReceiptArrives(t)
    BY <1>0, <1>q, <2>5, QuietStep DEF ReceiptArrives, mfaVars, nonceVars, TypeOK
  <2> QED
    BY <1>3, <2>1, <2>2, <2>3, <2>4, <2>5 DEF TaskStep
<1>4. ASSUME NEW t \in Tasks, ServiceDecides(t) PROVE Rest'
  <2>1. UNCHANGED <<pc, form, wire, binding, stored>>
    BY <1>4 DEF ServiceDecides, taskVars, mfaVars, nonceVars
  <2>2. StoredIssued' /\ WireAuthorised' /\ NonceUsedOnce'
    BY <2>1 DEF IInv, StoredIssued, WireAuthorised, Authorised, SodViolation,
                NonceUsedOnce
  <2>3. t \in wire /\ form[t].gate \in Gates
    BY <1>0, <1>q, <1>4 DEF ServiceDecides, TypeOK, Form
  <2>4. DecidedWasSent'
    BY <1>0, <1>4, <2>1, <2>3 DEF ServiceDecides, IInv, DecidedWasSent, TypeOK
  <2> QED
    BY <2>2, <2>4
<1>5. ASSUME NEW u \in Users, DoStepUp(u) PROVE Rest'
  BY <1>5, <1>q, QuietStep DEF DoStepUp, StepUp, taskVars, nonceVars
<1>6. ASSUME Tick PROVE Rest'
  BY <1>6, <1>q, QuietStep DEF Tick, NonceTick
<1>7. ASSUME UNCHANGED vars PROVE Rest'
  BY <1>7, <1>q, QuietStep DEF vars, taskVars, mfaVars, nonceVars
<1>8. Rest'
  BY <1>1, <1>2, <1>3, <1>4, <1>5, <1>6, <1>7 DEF Next
<1> QED
  BY <1>0, <1>8 DEF IInv

-----------------------------------------------------------------------------
(* What the runs check, for every value of the constants. *)

THEOREM Invariance == Spec => []IInv
<1>1. Init => IInv
  BY InitIInv
<1>2. IInv /\ [Next]_vars => IInv'
  BY NextIInv
<1> QED
  BY <1>1, <1>2, PTL DEF Spec

\* Every variable keeps its type, however many submissions are under way.
THEOREM TypeCorrect == Spec => []TypeOK
<1>1. IInv => TypeOK
  BY DEF IInv
<1> QED
  BY <1>1, Invariance, PTL

\* AMD-03 for any number of submissions, tabs and workers, whether the workers
\* share a backend or not: no nonce authorises two of them
\* (mfa.py:249-271, gates.py:261-289).
THEOREM NonceSingleUse == Spec => []NonceUsedOnce
<1>1. IInv => NonceUsedOnce
  BY DEF IInv
<1> QED
  BY <1>1, Invariance, PTL

\* A sensitive gate bears only a decision posted by the user its nonce was
\* issued to, on that gate's page, and that nonce is gone (gates.py:166-174,
\* 261-289).
THEOREM DecisionsAreBound == Spec => []DecisionBound
<1>1. IInv => DecisionBound
  BY GateAssumption DEF IInv, WireAuthorised, Authorised, DecidedWasSent,
                        DecisionBound, Gates
<1> QED
  BY <1>1, Invariance, PTL

\* No gate bears a decision of the user who triggered it (gates.py:231-249).
THEOREM NobodyDecidesTheirOwn == Spec => []SeparationOfDuties
<1>1. IInv => SeparationOfDuties
  BY DEF IInv, WireAuthorised, DecidedWasSent, SeparationOfDuties, SodViolation
<1> QED
  BY <1>1, Invariance, PTL

-----------------------------------------------------------------------------
(* The nonce manager keeps its promise.  Only three kinds of step move the   *)
(* abstract state: a page is rendered, a nonce is accepted, a nonce burns.   *)

\* Without a new nonce, a consumption or a sensitive submission, the abstract
\* state stands still.
LEMMA Stutter ==
    ASSUME binding' = binding, stored' = stored,
           \A n \in Nonces : SensitiveUses(n)' = SensitiveUses(n)
    PROVE  UNCHANGED <<binding, stored, [n \in Nonces |-> SensitiveUses(n)]>>
<1>1. [n \in Nonces |-> SensitiveUses(n)]' = [n \in Nonces |-> SensitiveUses(n)]
  OBVIOUS
<1> QED
  BY <1>1

LEMMA UsesUnmoved ==
    ASSUME wire' = wire, \A t \in wire : form'[t] = form[t]
    PROVE  \A n \in Nonces : SensitiveUses(n)' = SensitiveUses(n)
BY DEF SensitiveUses

LEMMA PromiseInit == Init => Promise!Init
<1> SUFFICES ASSUME Init PROVE Promise!Init
  OBVIOUS
<1>1. \A n \in Nonces : SensitiveUses(n) = {}
  BY DEF Init, SensitiveUses
<1> QED
  BY <1>1 DEF Init, NonceInit, Promise!Init

LEMMA PromiseStep ==
    IInv /\ [Next]_vars
      => [Promise!Next]_<<binding, stored, [n \in Nonces |-> SensitiveUses(n)]>>
<1> DEFINE usedBy == [n \in Nonces |-> SensitiveUses(n)]
<1> SUFFICES ASSUME IInv, [Next]_vars
             PROVE  Promise!Next \/ UNCHANGED <<binding, stored, usedBy>>
  OBVIOUS
<1>0. TypeOK
  BY DEF IInv
<1>q. \A t \in wire : t \in Tasks /\ pc[t] \in {"submitting", "auditing", "done"}
  BY <1>0 DEF IInv, WireAuthorised, TypeOK
<1>1. ASSUME NEW w \in Workers, NEW u \in Users, NEW g \in Gates, Detail(w, u, g)
      PROVE  Promise!Next
  <2>1. PICK n \in Nonces : Issue(w, n, u, g)
    BY <1>1 DEF Detail
  <2>2. [sub |-> u, action |-> g, backend |-> BackendOf[w]] \in Binding
    BY DEF Binding, Gates
  <2>3. \A m \in Nonces : SensitiveUses(m)' = SensitiveUses(m)
    BY <1>1, UsesUnmoved DEF Detail, taskVars
  <2>4. usedBy' = usedBy
    BY <2>3
  <2>5. Promise!IssueTo(n, [sub |-> u, action |-> g, backend |-> BackendOf[w]])
    BY <2>1, <2>4 DEF Issue, Promise!IssueTo
  <2> QED
    BY <2>2, <2>5 DEF Promise!Next
<1>2. ASSUME NEW t \in Tasks, NEW f \in Form, Post(t, f)
      PROVE  UNCHANGED <<binding, stored, usedBy>>
  <2>1. t \notin wire
    BY <1>2, <1>q DEF Post
  <2>2. wire' = wire /\ \A s \in wire : form'[s] = form[s]
    BY <1>0, <1>2, <2>1, <1>q DEF Post, TypeOK
  <2> QED
    BY <1>2, <2>2, UsesUnmoved, Stutter DEF Post, mfaVars, nonceVars
<1>3. ASSUME NEW t \in Tasks, CheckNonce(t)
      PROVE  Promise!Next \/ UNCHANGED <<binding, stored, usedBy>>
  <2> DEFINE f == form[t]
             n == form[t].nonce
  <2>1. /\ pc[t] = "fetching" /\ f.gate \in Sensitive /\ n # NoNonce
        /\ binding' = binding
        /\ stored' = IF Found(f.worker, n) THEN stored \ {n} ELSE stored
    BY <1>3 DEF CheckNonce, Consume
  <2>2. f \in Form /\ n \in Nonces /\ t \notin wire
    BY <1>0, <1>q, <2>1 DEF TypeOK, Form
  <2>3. CASE Submit(t) /\ Accepts(f.worker, n, f.user, f.gate)
    <3>1. wire' = wire \cup {t} /\ form' = form
      BY <2>3 DEF Submit
    <3>2. n \in stored /\ stored' = stored \ {n}
      BY <2>1, <2>3 DEF Accepts, Found
    <3>3. SensitiveUses(n) = {}
      BY <3>2 DEF SensitiveUses, IInv, WireAuthorised, Authorised
    <3>4. \A m \in Nonces :
             SensitiveUses(m)' = IF m = n THEN {t} ELSE SensitiveUses(m)
      <4> SUFFICES ASSUME NEW m \in Nonces
                   PROVE  SensitiveUses(m)' = IF m = n THEN {t} ELSE SensitiveUses(m)
        OBVIOUS
      <4>1. CASE m = n
        BY <2>1, <3>1, <3>3, <4>1 DEF SensitiveUses
      <4>2. CASE m # n
        BY <3>1, <4>2 DEF SensitiveUses
      <4> QED
        BY <4>1, <4>2
    <3>5. /\ usedBy' = [m \in Nonces |-> SensitiveUses(m)']
          /\ [usedBy EXCEPT ![n] = {t}]
               = [m \in Nonces |-> IF m = n THEN {t} ELSE SensitiveUses(m)]
      OBVIOUS
    <3>6. usedBy' = [usedBy EXCEPT ![n] = {t}]
      BY <3>4, <3>5
    <3>7. Promise!Use(n, t)
      BY <2>1, <3>2, <3>6 DEF Promise!Use
    <3> QED
      BY <2>2, <3>7 DEF Promise!Next
  <2>4. CASE Refuse(t, "nonce_rejected")
    <3>1. \A m \in Nonces : SensitiveUses(m)' = SensitiveUses(m)
      BY <2>4, UsesUnmoved DEF Refuse
    <3>2. usedBy' = usedBy
      BY <3>1
    <3>3. CASE Found(f.worker, n)
      <4>1. Promise!Burn(n)
        BY <2>1, <3>2, <3>3 DEF Promise!Burn, Found
      <4> QED
        BY <2>2, <4>1 DEF Promise!Next
    <3>4. CASE ~Found(f.worker, n)
      BY <2>1, <3>2, <3>4
    <3> QED
      BY <3>3, <3>4
  <2> QED
    BY <1>3, <2>3, <2>4 DEF CheckNonce
<1>4. ASSUME NEW t \in Tasks, SkipMfa(t)
      PROVE  UNCHANGED <<binding, stored, usedBy>>
  <2>1. \A n \in Nonces : SensitiveUses(n)' = SensitiveUses(n)
    BY <1>4 DEF SkipMfa, Submit, SensitiveUses
  <2> QED
    BY <1>4, <2>1, Stutter DEF SkipMfa, mfaVars, nonceVars
<1>5. ASSUME NEW t \in Tasks, TaskStep(t)
      PROVE  Promise!Next \/ UNCHANGED <<binding, stored, usedBy>>
  <2>1. CASE CheckSod(t) \/ CheckStepUp(t) \/ CheckNonceGiven(t)
    BY <2>1, UsesUnmoved, Stutter
       DEF CheckSod, CheckStepUp, CheckNonceGiven, Refuse, Finish, mfaVars, nonceVars
  <2>2. CASE Refused(t) \/ CallFails(t) \/ Audited(t) \/ ReceiptArrives(t)
    BY <2>2, UsesUnmoved, Stutter
       DEF Refused, CallFails, Audited, ReceiptArrives, Finish, mfaVars, nonceVars
  <2> QED
    BY <1>3, <1>4, <1>5, <2>1, <2>2 DEF TaskStep
<1>6. ASSUME (\E t \in Tasks : ServiceDecides(t)) \/ (\E u \in Users : DoStepUp(u))
             \/ Tick \/ UNCHANGED vars
      PROVE  UNCHANGED <<binding, stored, usedBy>>
  <2>1. UNCHANGED <<binding, stored, wire, form>>
    BY <1>6 DEF ServiceDecides, DoStepUp, StepUp, Tick, NonceTick, vars, taskVars,
                mfaVars, nonceVars
  <2> QED
    BY <2>1, UsesUnmoved, Stutter
<1> QED
  BY <1>1, <1>2, <1>5, <1>6 DEF Next

\* Whatever the workers and their backends, every nonce goes from one holder
\* to at most one submission (mfa.py:198-206).
THEOREM ManagerKeepsPromise == Spec => NoncePromise
<1>1. Init => Promise!Init
  BY PromiseInit
<1>2. IInv /\ [Next]_vars
        => [Promise!Next]_<<binding, stored, [n \in Nonces |-> SensitiveUses(n)]>>
  BY PromiseStep
<1> QED
  BY <1>1, <1>2, Invariance, PTL DEF Spec, NoncePromise, Promise!Spec

-----------------------------------------------------------------------------
(* With one backend for all the workers, a nonce is found where it was       *)
(* issued: it is gone only once somebody has presented it.                   *)

\* create_app was given a Redis client (main.py:74-87).
SharedBackend == \A v, w \in Workers : BackendOf[v] = BackendOf[w]

UnpresentedIsStored ==
    \A n \in Nonces : binding[n] # Unissued /\ n \notin presented => n \in stored

\* A submission that waits for its gate was told nothing, and brings a nonce that
\* was issued.
FetchingOK(t) ==
    /\ pc[t] \in {"new", "fetching"} => outcome[t] = "none"
    /\ pc[t] = "fetching" /\ form[t].nonce # NoNonce => binding[form[t].nonce] # Unissued

FirstUseInv ==
    /\ TypeOK
    /\ UnpresentedIsStored
    /\ \A t \in Tasks : FetchingOK(t)

LEMMA FirstUseInit == Init => FirstUseInv
BY InitIInv DEF IInv, Init, NonceInit, FirstUseInv, UnpresentedIsStored, FetchingOK

LEMMA FirstUseStep == FirstUseInv /\ [Next]_vars => FirstUseInv'
<1> SUFFICES ASSUME FirstUseInv, [Next]_vars PROVE FirstUseInv'
  OBVIOUS
<1> DEFINE Rest == UnpresentedIsStored /\ \A t \in Tasks : FetchingOK(t)
<1>0. TypeOK /\ TypeOK'
  BY TypeStep DEF FirstUseInv
<1> USE <1>0 DEF FirstUseInv, UnpresentedIsStored, FetchingOK
<1>1. ASSUME NEW w \in Workers, NEW u \in Users, NEW g \in Gates, Detail(w, u, g)
      PROVE  Rest'
  <2>1. PICK n \in Nonces : Issue(w, n, u, g)
    BY <1>1 DEF Detail
  <2>2. [sub |-> u, action |-> g, backend |-> BackendOf[w]] \in Binding
    BY DEF Binding, Gates
  <2>3. \A m \in Nonces :
          /\ binding[m] # Unissued => binding'[m] # Unissued
          /\ binding'[m] # Unissued => binding[m] # Unissued \/ m \in stored'
    BY <2>1, <2>2, UnissuedAssumption DEF Issue, TypeOK, NonceTypeOK
  <2>4. stored \subseteq stored' /\ UNCHANGED <<pc, form, outcome, presented>>
    BY <1>1, <2>1 DEF Detail, Issue, taskVars
  <2>5. \A t \in Tasks : pc[t] = "fetching" /\ form[t].nonce # NoNonce =>
            form[t].nonce \in Nonces
    BY DEF TypeOK, Form
  <2> QED
    BY <2>3, <2>4, <2>5
<1>2. ASSUME NEW t \in Tasks, NEW f \in Form, Post(t, f) PROVE Rest'
  BY <1>2 DEF Post, mfaVars, nonceVars, TypeOK
<1>3. ASSUME NEW t \in Tasks, CheckNonce(t) PROVE Rest'
  <2>1. /\ binding' = binding /\ form' = form
        /\ stored' \in {stored, stored \ {form[t].nonce}}
        /\ presented' = presented \cup {form[t].nonce}
    BY <1>3 DEF CheckNonce, Consume, Submit, Refuse
  <2>2. /\ \A s \in Tasks : s # t => pc'[s] = pc[s] /\ outcome'[s] = outcome[s]
        /\ pc'[t] \in {"submitting", "refusing"}
    BY <1>3 DEF CheckNonce, Submit, Refuse, TypeOK
  <2> QED
    BY <2>1, <2>2
<1>4. ASSUME NEW t \in Tasks, TaskStep(t), ~CheckNonce(t) PROVE Rest'
  <2>1. UNCHANGED <<binding, stored, presented, form>>
    BY <1>4 DEF TaskStep, CheckSod, CheckStepUp, CheckNonceGiven, SkipMfa, Refused,
       ReceiptArrives, CallFails, Audited, Refuse, Finish, Submit, mfaVars, nonceVars
  <2>2. /\ \A s \in Tasks : s # t => pc'[s] = pc[s] /\ outcome'[s] = outcome[s]
        /\ pc'[t] \notin {"new", "fetching"}
    BY <1>4 DEF TaskStep, CheckSod, CheckStepUp, CheckNonceGiven, SkipMfa, Refused,
       ReceiptArrives, CallFails, Audited, Refuse, Finish, Submit, TypeOK
  <2> QED
    BY <2>1, <2>2
<1>5. ASSUME \/ \E t \in Tasks : ServiceDecides(t)
             \/ \E u \in Users : DoStepUp(u)
             \/ Tick \/ UNCHANGED vars
      PROVE  Rest'
  <2>1. UNCHANGED <<binding, stored, presented, pc, form, outcome>>
    BY <1>5 DEF ServiceDecides, DoStepUp, StepUp, Tick, NonceTick, vars, taskVars,
       mfaVars, nonceVars
  <2> QED
    BY <2>1
<1> QED
  BY <1>1, <1>2, <1>3, <1>4, <1>5 DEF Next

\* F-05 for any number of workers that share a backend: the first presentation of a
\* nonce that is young, by its user and on its gate, is not rejected, whatever other
\* submissions do meanwhile (mfa.py:10-17).
THEOREM FirstUseIsAccepted == SharedBackend => (Spec => FirstUseAccepted)
<1> DEFINE A ==
      \A t \in Tasks :
        (pc[t] = "fetching" /\ outcome'[t] = "nonce_rejected")
            => LET f == form[t] IN
               \/ f.nonce \in presented
               \/ nonceAge[f.nonce] > NonceMaxAge
               \/ <<binding[f.nonce].sub, binding[f.nonce].action>>
                     # <<f.user, f.gate>>
<1> SUFFICES ASSUME SharedBackend PROVE Spec => FirstUseAccepted
  OBVIOUS
<1>1. FirstUseInv /\ [Next]_vars => [A]_vars
  <2> SUFFICES ASSUME FirstUseInv, [Next]_vars,
                      NEW t \in Tasks, pc[t] = "fetching", outcome'[t] = "nonce_rejected",
                      form[t].nonce \notin presented,
                      ~(nonceAge[form[t].nonce] > NonceMaxAge),
                      binding[form[t].nonce].sub = form[t].user,
                      binding[form[t].nonce].action = form[t].gate
               PROVE  FALSE
    BY DEF A
  <2> DEFINE f == form[t]
             n == form[t].nonce
  <2>0. outcome[t] = "none" /\ TypeOK /\ f \in Form
    BY DEF FirstUseInv, FetchingOK, TypeOK
  <2>1. CheckNonce(t) /\ ~Accepts(f.worker, n, f.user, f.gate)
    <3>1. CASE \E s \in Tasks : TaskStep(s)
      <4>1. PICK s \in Tasks : TaskStep(s)
        BY <3>1
      <4>2. s = t
        BY <2>0, <4>1 DEF TaskStep, CheckSod, CheckStepUp, CheckNonceGiven, CheckNonce,
           SkipMfa, Refused, ReceiptArrives, CallFails, Audited, Refuse, Finish, Submit,
           TypeOK
      <4> QED
        BY <2>0, <4>1, <4>2 DEF TaskStep, CheckSod, CheckStepUp, CheckNonceGiven,
           CheckNonce, SkipMfa, Refused, ReceiptArrives, CallFails, Audited, Refuse,
           Finish, Submit, TypeOK
    <3>2. CASE ~(\E s \in Tasks : TaskStep(s))
      <4>1. UNCHANGED outcome
        BY <3>2 DEF Next, Detail, Post, ServiceDecides, DoStepUp, Tick, vars, taskVars
      <4> QED
        BY <2>0, <4>1
    <3> QED
      BY <3>1, <3>2
  <2>2. n # NoNonce /\ n \in Nonces /\ binding[n] # Unissued /\ n \in stored
    BY <2>0, <2>1 DEF CheckNonce, FirstUseInv, FetchingOK, UnpresentedIsStored, Form
  <2>3. f.worker \in Workers /\ binding[n] \in Binding
    BY <2>0, <2>2 DEF Form, TypeOK, NonceTypeOK
  <2>4. PICK w \in Workers : binding[n].backend = BackendOf[w]
    BY <2>3 DEF Binding
  <2>5. Found(f.worker, n)
    BY <2>2, <2>3, <2>4 DEF Found, SharedBackend
  <2>6. nonceAge[n] <= NonceMaxAge
    BY <2>0, <2>2, NonceAssumption DEF TypeOK, NonceTypeOK
  <2> QED
    BY <2>1, <2>5, <2>6 DEF Accepts, Valid
<1> QED
  BY <1>1, FirstUseInit, FirstUseStep, PTL DEF Spec, FirstUseAccepted, A
=============================================================================
