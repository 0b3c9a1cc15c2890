----------------------------- MODULE ServiceCall -----------------------------
(***************************************************************************)
(* How the handlers of the portal use the compliance service: a request    *)
(* comes in, the handler reads an object, awaits, checks what it read, and *)
(* sends a mutation, which the service takes at some time after.  A router *)
(* extends this module and supplies the checks and the service's state.    *)
(*                                                                         *)
(* One call is ComplianceClient._request: its attempts carry one key, so   *)
(* they are one mutation, and when the last attempt times out the caller   *)
(* gets an exception while the mutation may be taken even later.  A task   *)
(* is a slot for one request after another.                                *)
(***************************************************************************)
EXTENDS Naturals, FiniteSets

CONSTANTS
    Tasks,      \* requests in progress at a time
    MaxLate,    \* bound: abandoned mutations still on their way
    NoForm,     \* no request
    Unread      \* nothing read yet

ASSUME CallAssumption == MaxLate \in Nat

VARIABLES
    pc,         \* where each task is
    form,       \* its request
    seen,       \* what it read of its object
    taken,      \* the service has taken its mutation
    late        \* mutations of abandoned calls, still on their way

callVars == <<pc, form, seen, taken, late>>

\* The points a handler can be at: awaiting its first read, checking it,
\* auditing a refusal, awaiting a mutation, awaiting a second one, reading again.
Label == {"idle", "fetching", "fetched", "refusing", "sending", "advancing",
          "reloading"}

CallTypeOK(Form, View, Op) ==
    /\ pc \in [Tasks -> Label]
    /\ form \in [Tasks -> Form \cup {NoForm}]
    /\ seen \in [Tasks -> View \cup {Unread}]
    /\ taken \in [Tasks -> BOOLEAN]
    /\ late \subseteq [op : Op, form : Form]
    /\ \A t \in Tasks : pc[t] # "idle" => form[t] \in Form
    /\ \A t \in Tasks : pc[t] = "fetched" => seen[t] \in View

CallInit ==
    /\ pc = [t \in Tasks |-> "idle"]
    /\ form = [t \in Tasks |-> NoForm]
    /\ seen = [t \in Tasks |-> Unread]
    /\ taken = [t \in Tasks |-> FALSE]
    /\ late = {}

-----------------------------------------------------------------------------
Goto(t, label) == pc' = [pc EXCEPT ![t] = label]

\* The handler is called with f; whatever it awaits first, others run meanwhile.
Arrive(t, f) ==
    /\ pc[t] = "idle"
    /\ Goto(t, "fetching")
    /\ form' = [form EXCEPT ![t] = f]
    /\ UNCHANGED <<seen, taken, late>>

\* The service answers the read; the handler goes on some time later.
Read(t, view) ==
    /\ pc[t] = "fetching"
    /\ Goto(t, "fetched")
    /\ seen' = [seen EXCEPT ![t] = view]
    /\ UNCHANGED <<form, taken, late>>

\* The request is answered, with a page or an HTTPException.
Answer(t) ==
    /\ Goto(t, "idle")
    /\ form' = [form EXCEPT ![t] = NoForm]
    /\ seen' = [seen EXCEPT ![t] = Unread]
    /\ taken' = [taken EXCEPT ![t] = FALSE]

Finish(t) == Answer(t) /\ UNCHANGED late

\* A refusal is audited, best effort, before it is raised.
Refuse(t) == Goto(t, "refusing") /\ UNCHANGED <<form, seen, taken, late>>

Refused(t) == pc[t] = "refusing" /\ Finish(t)

\* A mutation is sent: the first of the handler, or the one after it.
Send(t, label) ==
    /\ Goto(t, label)
    /\ taken' = [taken EXCEPT ![t] = FALSE]
    /\ UNCHANGED <<form, seen, late>>

Pending(t) == pc[t] \in {"sending", "advancing"} /\ ~taken[t]

\* The service takes a mutation, in time or after its caller gave up.
Take(t) ==
    /\ Pending(t)
    /\ taken' = [taken EXCEPT ![t] = TRUE]
    /\ UNCHANGED <<pc, form, seen, late>>

TakeLate(m) ==
    /\ m \in late
    /\ late' = late \ {m}
    /\ UNCHANGED <<pc, form, seen, taken>>

\* A call that is given up is lost, or may still arrive.
Abandon(t, op) ==
    \/ UNCHANGED late
    \/ /\ Pending(t) /\ Cardinality(late) < MaxLate
       /\ late' = late \cup {[op |-> op, form |-> form[t]]}

\* The client raises: the service refused, the breaker is open, or the attempts
\* were lost on their way there or back.
CallFails(t, op) ==
    /\ pc[t] \in {"fetching", "sending", "advancing", "reloading"}
    /\ Answer(t)
    /\ Abandon(t, op)
=============================================================================
