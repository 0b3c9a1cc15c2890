-------------------------- MODULE KnowledgeReview ---------------------------
(***************************************************************************)
(* Candidates for the process knowledge, judged by subject experts:        *)
(* src/portal/routers/process_knowledge.py.  One is approved, rejected or  *)
(* modified; a batch of them is approved or rejected with one rationale.   *)
(*                                                                         *)
(* The calls are those of ServiceCall; the service takes what it is sent.  *)
(***************************************************************************)
EXTENDS ServiceCall

CONSTANTS
    Candidates,     \* knowledge candidates
    Types,          \* KNOWLEDGE_TYPES
    MaxBatch        \* the cap on a batch

VARIABLES
    type,           \* service: the knowledge type of each candidate
    status,         \* service: what was decided on it
    reasons,        \* service: candidates with a rationale
    text            \* service: the modified text, by what it holds

serviceVars == <<type, status, reasons, text>>
vars == <<callVars, serviceVars>>

Decision == {"approved", "rejected", "modified"}

\* What a text is: the type whose keys it has, and what its id and name are.
Text == [keys : Types, names : {"text", "blank", "null"}]

NoText == [keys |-> "none", names |-> "none"]

\* rationale: "none", "short", of less than 30 characters, or "long".
Form ==
    [kind : {"batch"}, candidates : SUBSET Candidates, to : {"approved", "rejected"},
     rationale : {"none", "short", "long"}]
        \cup [kind : {"one"}, candidate : Candidates, to : {"approved", "rejected"},
              rationale : {"none", "short", "long"}]
        \cup [kind : {"modify"}, candidate : Candidates, text : Text \cup {NoText},
              rationale : {"none", "short", "long"}]

Op == Decision

TypeOK ==
    /\ CallTypeOK(Form, Types, Op)
    /\ type \in [Candidates -> Types]
    /\ status \in [Candidates -> Decision \cup {"pending"}]
    /\ reasons \subseteq Candidates
    /\ text \in [Candidates -> Text \cup {NoText}]

Init ==
    /\ CallInit
    /\ type \in [Candidates -> Types]
    /\ status = [c \in Candidates |-> "pending"]
    /\ reasons = {}
    /\ text = [c \in Candidates |-> NoText]

-----------------------------------------------------------------------------
\* Mutant: a rationale is asked for when the form has one.
Reasoned_Given(f) == f.rationale # "short"

\* _ensure_rationale.
Reasoned(f) == f.rationale = "long"

\* validate_candidate_yaml: a mapping with the keys of its type; its id and name
\* are looked at if they are not null.
ValidText(x, t) == x # NoText /\ x.keys = t /\ x.names # "blank"

Post(t, f) == Arrive(t, f) /\ UNCHANGED serviceVars

\* candidate_approve, candidate_reject.
Decide(t) ==
    /\ pc[t] = "fetching" /\ form[t].kind = "one" /\ Reasoned(form[t])
    /\ Send(t, "sending")
    /\ UNCHANGED serviceVars

BatchFits(f) == f.candidates # {} /\ Cardinality(f.candidates) <= MaxBatch

\* candidate_batch.
Batch(t) ==
    /\ pc[t] = "fetching" /\ form[t].kind = "batch"
    /\ Reasoned(form[t]) /\ BatchFits(form[t])
    /\ Send(t, "sending")
    /\ UNCHANGED serviceVars

\* 400.
BadRequest(t) ==
    LET f == form[t] IN
    /\ pc[t] = "fetching" /\ f.kind \in {"one", "batch"}
    /\ ~Reasoned(f) \/ (f.kind = "batch" /\ ~BatchFits(f))
    /\ Finish(t)
    /\ UNCHANGED serviceVars

\* candidate_modify reads the candidate, for its type.
Fetch(t) ==
    /\ pc[t] = "fetching" /\ form[t].kind = "modify"
    /\ Read(t, type[form[t].candidate])
    /\ UNCHANGED serviceVars

Modify(t) ==
    /\ pc[t] = "fetched"
    /\ ValidText(form[t].text, seen[t]) /\ form[t].rationale # "short"
    /\ Send(t, "sending")
    /\ UNCHANGED serviceVars

\* 422 with the errors, or 400.
NotModified(t) ==
    /\ pc[t] = "fetched"
    /\ ~ValidText(form[t].text, seen[t]) \/ form[t].rationale = "short"
    /\ Finish(t)
    /\ UNCHANGED serviceVars

OpOf(f) == IF f.kind = "modify" THEN "modified" ELSE f.to

\* The candidates a batch is about, of which the service may take some and refuse
\* the others.
Subjects(f) == IF f.kind = "batch" THEN SUBSET f.candidates \ {{}} ELSE {{f.candidate}}

Apply(op, f) ==
    /\ \E cs \in Subjects(f) :
         /\ status' = [c \in Candidates |-> IF c \in cs THEN op ELSE status[c]]
         /\ reasons' = IF f.rationale = "long" THEN reasons \cup cs ELSE reasons \ cs
         /\ text' = IF op = "modified" THEN [text EXCEPT ![f.candidate] = f.text] ELSE text
    /\ UNCHANGED type

ServiceTakes(t) == Take(t) /\ Apply(OpOf(form[t]), form[t])

ServiceTakesLate(m) == TakeLate(m) /\ Apply(m.op, m.form)

Answered(t) == pc[t] = "sending" /\ taken[t] /\ Finish(t) /\ UNCHANGED serviceVars

Fails(t) == CallFails(t, OpOf(form[t])) /\ UNCHANGED serviceVars

TaskStep(t) ==
    \/ Decide(t) \/ Batch(t) \/ BadRequest(t) \/ Fetch(t) \/ Modify(t) \/ NotModified(t)
    \/ ServiceTakes(t) \/ Answered(t) \/ Fails(t)

Next ==
    \/ \E t \in Tasks, f \in Form : Post(t, f)
    \/ \E t \in Tasks : TaskStep(t)
    \/ \E m \in late : ServiceTakesLate(m)

Spec == Init /\ [][Next]_vars

-----------------------------------------------------------------------------
\* REQ-CPL-029: what is approved or rejected, alone or in a batch, at once or
\* late, is so with a rationale; and a text that replaces a candidate's is one of
\* the candidate's own type (process_knowledge.py:60-67, 252-276, 304-327).
DecisionsStand ==
    \A c \in Candidates :
        /\ status[c] \in {"approved", "rejected"} => c \in reasons
        /\ text[c] # NoText => text[c].keys = type[c]
=============================================================================
