--------------------------- MODULE MCReportWorkflow ---------------------------
(***************************************************************************)
(* ReportWorkflow for two admins, on one worker, and a                     *)
(* history variable: whether the service, which may be permissive, has     *)
(* taken nothing so far that an authoritative one would have refused.      *)
(***************************************************************************)
EXTENDS ReportWorkflow, TLC

VARIABLE lawful

mcVars == <<vars, lawful>>

MCBackendOf == [w \in Workers |-> "redis"]

MCSymmetry == Permutations(Tasks) \cup Permutations(Nonces) \cup Permutations(Actions)

\* The mutations this step has the service take are allowed by their stage.
StepIsLawful ==
    /\ \A t \in Tasks : ~taken[t] /\ taken'[t] =>
         Legal(OpOf(t), stage[form[t].report])
    /\ \A m \in late \ late' : Legal(m.op, stage[m.form.report])

MCInit == Init /\ lawful = TRUE

MCNext == Next /\ lawful' = (lawful /\ StepIsLawful)

MCSpec == MCInit /\ [][MCNext]_mcVars

\* As long as every mutation was lawful, who is shown the result of a review, an
\* approval or a signature has moved the report there, though others act on it
\* meanwhile (reports.py:293-298, 332-337, 386-393).
OkMeansDone == [][lawful' => ShownIsDone]_mcVars
=============================================================================
