------------------------------- MODULE MCPortal -------------------------------
(***************************************************************************)
(* What every user of the portal goes through, whatever their desk:        *)
(* signing in (SessionLogin), the form token (CsrfGate), documents as PDF  *)
(* (PdfExport), long exports and the pages of projects (StreamedExport),   *)
(* and the deadlines on the lists (Deadlines).  None of them touches what  *)
(* another one keeps, so a behaviour is of one part.                       *)
(***************************************************************************)
EXTENDS SessionLogin, PdfExport, TLC

CONSTANTS
    PartsRun,
    Connections, Windows, Tokens, MaxTokenAge, FormSize, Cap, NoToken,
    Readers, Projects, Pages, Everything, NoScope,
    Day, ReviewAfter

\* A run works with some of the parts, or all.
ASSUME PartsAssumption ==
    PartsRun \subseteq {"session", "csrf", "pdf", "stream", "deadlines"}

\* A token's life is counted from nought (csrf.py:21-35), like the chunks of a form.
ASSUME CsrfAssumption == MaxTokenAge \in Nat /\ FormSize \in Nat

\* An export has a page at least: the service answers one, however empty.
ASSUME StreamAssumption == Pages \in Nat \ {0}

\* The card is not to be reviewed sooner than 30 days after it is first looked at:
\* nothing in the code says so, but the first reminder of such a card was past before
\* there was one to send (review_schedule.py:22-34).
ASSUME DeadlineAssumption ==
    /\ Day \in Nat \ {0} /\ ReviewAfter \in Nat
    /\ ReviewAfter >= 30 * Day

VARIABLES
    part,
    tokenJar, page, raced, tokenAge, made, carried, reply,
    phase, kind, read, sent, skipped, trail, shown,
    clock, sinceRun, escalated, reminded, listed

C == INSTANCE CsrfGate WITH jar <- tokenJar, request <- carried
S == INSTANCE StreamedExport WITH Exporters <- Readers
D == INSTANCE Deadlines

csrfVars == <<tokenJar, page, raced, tokenAge, made, carried, reply>>
streamVars == <<phase, kind, read, sent, skipped, trail, shown>>
deadlineVars == <<clock, sinceRun, escalated, reminded, listed>>
mcVars == <<part, vars, csrfVars, exportVars, streamVars, deadlineVars>>

Caller(u, roles, e, covers) ==
    [user |-> u, roles |-> roles, engagement |-> e, covers |-> covers]

\* One auditor in two engagements, of which one covers the project; an admin, and
\* one who is an auditor besides.
MCCallers ==
    {Caller("a", <<"auditor">>, "e1", TRUE), Caller("a", <<"auditor">>, "e2", FALSE),
     Caller("o", <<"admin">>, NoEngagement, FALSE),
     Caller("m", <<"admin", "auditor">>, "e1", TRUE)}

\* The parts share the values they are symmetric in: connections and exporters
\* are named like tasks, form tokens like session ids, projects like flows.
MCSymmetry ==
    Permutations(Sids) \cup Permutations(Flows) \cup Permutations(Codes)
        \cup Permutations(Tasks) \cup Permutations(Browsers)

\* Only the part that works has more than one beginning.
OneStart ==
    /\ part # "pdf" =>
         component = [d \in Documents |-> CHOOSE c \in Exported : TRUE]
    /\ part # "deadlines" => sinceRun = 0

MCInit ==
    /\ part \in PartsRun
    /\ Init /\ C!Init /\ PdfInit /\ S!Init /\ D!Init
    /\ OneStart

MCNext ==
    \/ /\ part = "session" /\ Next
       /\ UNCHANGED <<part, csrfVars, exportVars, streamVars, deadlineVars>>
    \/ /\ part = "csrf" /\ C!Next
       /\ UNCHANGED <<part, vars, exportVars, streamVars, deadlineVars>>
    \/ /\ part = "pdf" /\ PdfNext
       /\ UNCHANGED <<part, vars, csrfVars, streamVars, deadlineVars>>
    \/ /\ part = "stream" /\ S!Next
       /\ UNCHANGED <<part, vars, csrfVars, exportVars, deadlineVars>>
    \/ /\ part = "deadlines" /\ D!Next
       /\ UNCHANGED <<part, vars, csrfVars, exportVars, streamVars>>

MCSpec == MCInit /\ [][MCNext]_mcVars

-----------------------------------------------------------------------------
\* The type invariants of the modules.
PortalTypeOK ==
    CASE part = "session" -> TypeOK
      [] part = "csrf" -> C!CsrfTypeOK
      [] part = "pdf" -> PdfTypeOK
      [] part = "stream" -> S!StreamTypeOK
      [] part = "deadlines" -> sinceRun \in 0 .. Day

\* CsrfGate's PagesAgree (csrf_mw.py:266-276, gates.py:94-95).
PagesAgree == C!PagesAgree

\* StreamedExport's TrailIsTrue (audit.py:301-362, project_docs.py:307-327).
TrailIsTrue == S!TrailIsTrue

\* StreamedExport's FiltersAgree: REQ-CPL-043 (services/project_docs.py:99-150).
FiltersAgree == S!FiltersAgree

\* Deadlines' DeadlinesKept (dsr_sla.py:28-55, review_schedule.py:36-63).
DeadlinesKept == D!DeadlinesKept
=============================================================================
