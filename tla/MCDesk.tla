------------------------------- MODULE MCDesk -------------------------------
(***************************************************************************)
(* The desks where something is judged: reviews of model cards             *)
(* (ModelReview), incidents (IncidentResponse) and candidates for the      *)
(* process knowledge (KnowledgeReview).  Their routers share no object of  *)
(* the service, so a behaviour is of one desk.                             *)
(***************************************************************************)
EXTENDS ModelReview, TLC

CONSTANTS Clerks, Incidents, Events, Skew, MaxTime, NoEvent, Candidates, Types, MaxBatch

VARIABLES
    desk,
    now, stamp, incidentStatus, reached, origin, record,
    type, status, reasons, text,
    dpc, dform, dseen, dtaken, dlate

I == INSTANCE IncidentResponse WITH
        Tasks <- Clerks, pc <- dpc, form <- dform, seen <- dseen, taken <- dtaken,
        late <- dlate, status <- incidentStatus
K == INSTANCE KnowledgeReview WITH
        Tasks <- Clerks, pc <- dpc, form <- dform, seen <- dseen, taken <- dtaken,
        late <- dlate

\* The clock starts at 0; no event is not a time, and no webhook.
ASSUME DeskAssumption ==
    MaxTime \in Nat /\ NoEvent \notin Nat /\ NoEvent \notin I!Webhook

incidentVars == <<now, stamp, incidentStatus, reached, origin, record>>
knowledgeVars == <<type, status, reasons, text>>
deskVars == <<dpc, dform, dseen, dtaken, dlate>>
mcVars == <<desk, vars, deskVars, incidentVars, knowledgeVars>>

MCBackendOf == [w \in Workers |-> "redis"]

MCSymmetry ==
    Permutations(Nonces) \cup Permutations(Actions) \cup Permutations(Users)
        \cup Permutations(Tasks) \cup Permutations(Candidates)

\* Bound: one entry is made in the record of an incident.
OneEntry == Cardinality(record) < 2

\* Only the desk that works has more than one beginning.
OneStart ==
    desk # "knowledge" =>
        type = [c \in Candidates |-> CHOOSE t \in Types : TRUE]

MCInit ==
    /\ desk \in {"reviews", "incidents", "knowledge"}
    /\ Init /\ I!Init /\ K!Init /\ OneStart

MCNext ==
    \/ /\ desk = "reviews" /\ Next
       /\ UNCHANGED <<desk, deskVars, incidentVars, knowledgeVars>>
    \/ desk = "incidents" /\ I!Next /\ UNCHANGED <<desk, vars, knowledgeVars>>
    \/ desk = "knowledge" /\ K!Next /\ UNCHANGED <<desk, vars, incidentVars>>

MCSpec == MCInit /\ [][MCNext]_mcVars

-----------------------------------------------------------------------------
\* The modules' type invariants (ModelReview, IncidentResponse, KnowledgeReview).
DeskTypeOK ==
    CASE desk = "reviews" -> TypeOK
      [] desk = "incidents" -> I!TypeOK
      [] desk = "knowledge" -> K!TypeOK

\* IncidentResponse's ContainedWasInvestigated (incidents.py:61-66, 359-364, 396).
ContainedWasInvestigated == I!ContainedWasInvestigated

\* IncidentResponse's GuardianSigned: AMD-18 (incidents.py:118-181).
GuardianSigned == I!GuardianSigned

\* KnowledgeReview's DecisionsStand (process_knowledge.py:60-67, 252-276, 304-327).
DecisionsStand == K!DecisionsStand
=============================================================================
