--------------------------- MODULE ServiceCallProofs ---------------------------
(***************************************************************************)
(* What every step of ServiceCall does to the types, for any set of        *)
(* requests F, of views V and of mutations O.  The routers' proofs cite    *)
(* these lemmas.                                                           *)
(***************************************************************************)
EXTENDS ServiceCall, TLAPS

\* A request arrives, or its read is answered.
LEMMA ArriveOrReadTyped ==
    ASSUME NEW F, NEW V, NEW O, CallTypeOK(F, V, O), NEW t \in Tasks,
           \/ \E f \in F : Arrive(t, f)
           \/ \E v \in V : Read(t, v)
    PROVE  CallTypeOK(F, V, O)'
<1>1. CASE \E f \in F : Arrive(t, f)
  BY <1>1 DEF CallTypeOK, Arrive, Goto, Label
<1>2. CASE \E v \in V : Read(t, v)
  BY <1>2 DEF CallTypeOK, Read, Goto, Label
<1> QED
  BY <1>1, <1>2

\* A request is answered.
LEMMA FinishTyped ==
    ASSUME NEW F, NEW V, NEW O, CallTypeOK(F, V, O), NEW t \in Tasks, Finish(t)
    PROVE  CallTypeOK(F, V, O)'
BY DEF CallTypeOK, Finish, Answer, Goto, Label

\* A handler that holds a request moves on, to refuse it or with a mutation sent.
LEMMA MoveTyped ==
    ASSUME NEW F, NEW V, NEW O, CallTypeOK(F, V, O), NEW t \in Tasks,
           pc[t] # "idle",
           \/ Refuse(t)
           \/ \E l \in {"sending", "advancing"} : Send(t, l)
           \/ /\ Goto(t, "reloading")
              /\ UNCHANGED <<form, seen, taken, late>>
    PROVE  CallTypeOK(F, V, O)'
<1>1. CASE Refuse(t)
  BY <1>1 DEF CallTypeOK, Refuse, Goto, Label
<1>2. CASE \E l \in {"sending", "advancing"} : Send(t, l)
  BY <1>2 DEF CallTypeOK, Send, Goto, Label
<1>3. CASE Goto(t, "reloading") /\ UNCHANGED <<form, seen, taken, late>>
  BY <1>3 DEF CallTypeOK, Goto, Label
<1> QED
  BY <1>1, <1>2, <1>3

\* The service takes a mutation, in time or late.
LEMMA TakeTyped ==
    ASSUME NEW F, NEW V, NEW O, CallTypeOK(F, V, O),
           \/ \E t \in Tasks : Take(t)
           \/ \E m \in late : TakeLate(m)
    PROVE  CallTypeOK(F, V, O)'
<1>1. CASE \E t \in Tasks : Take(t)
  BY <1>1 DEF CallTypeOK, Take
<1>2. CASE \E m \in late : TakeLate(m)
  BY <1>2 DEF CallTypeOK, TakeLate
<1> QED
  BY <1>1, <1>2

\* A mutation is left on its way, or lost.
LEMMA AbandonTyped ==
    ASSUME NEW F, NEW V, NEW O, CallTypeOK(F, V, O), NEW t \in Tasks, NEW op,
           Pending(t) => op \in O, Abandon(t, op)
    PROVE  late' \subseteq [op : O, form : F]
<1>1. CASE UNCHANGED late
  BY <1>1 DEF CallTypeOK
<1>2. CASE Pending(t) /\ late' = late \cup {[op |-> op, form |-> form[t]]}
  <2>1. form[t] \in F
    BY <1>2 DEF CallTypeOK, Pending
  <2> QED
    BY <1>2, <2>1 DEF CallTypeOK
<1> QED
  BY <1>1, <1>2 DEF Abandon

\* The call of a task raises, and its request is answered.
LEMMA FailTyped ==
    ASSUME NEW F, NEW V, NEW O, CallTypeOK(F, V, O), NEW t \in Tasks, NEW op,
           Pending(t) => op \in O, CallFails(t, op)
    PROVE  CallTypeOK(F, V, O)'
<1>1. late' \subseteq [op : O, form : F]
  BY AbandonTyped DEF CallFails
<1> QED
  BY <1>1 DEF CallTypeOK, CallFails, Answer, Goto, Label

\* An abandoned mutation is one that was there, or the pending one of its task.
LEMMA LateComesFrom ==
    ASSUME NEW t \in Tasks, NEW op, Abandon(t, op), NEW m \in late'
    PROVE  m \in late \/ (Pending(t) /\ m = [op |-> op, form |-> form[t]])
BY DEF Abandon
=============================================================================
