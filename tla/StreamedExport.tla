---------------------------- MODULE StreamedExport ----------------------------
(***************************************************************************)
(* What is read through the portal in many calls: the audit trail as JSON  *)
(* lines (src/portal/routers/audit.py), the documents of a project, as     *)
(* pages and as a ZIP (routers/project_docs.py, services/project_docs.py). *)
(*                                                                         *)
(* An export is a generator that the server runs as its reader takes the   *)
(* bytes: a page of the service may fail, and a reader that goes away has  *)
(* the generator cancelled, at any of its awaits.  The audit events about  *)
(* it are best effort.                                                     *)
(***************************************************************************)
EXTENDS Naturals, FiniteSets

CONSTANTS
    Exporters,      \* requests in progress at a time
    Projects,
    Pages,          \* pages of the trail, or documents of a project
    Everything,     \* a scope that names no projects
    NoScope         \* an auditor without a scope

VARIABLES
    phase,          \* where the generator of each export is
    kind,           \* "jsonl" or "zip"
    read,           \* the pages it has read
    sent,           \* the pages its reader has been handed
    skipped,        \* documents that could not be read
    trail,          \* audit trail: the events about the last export of each
    shown           \* the last page about projects: [scope, projects]

streamVars == <<phase, kind, read, sent, skipped, trail, shown>>

Phase == {"idle", "reading", "sending", "completing", "aborting"}
Event == {"initiated", "completed", "aborted"}

\* What a caller may see: everything who is not an auditor.
Scope == {Everything, NoScope} \cup SUBSET Projects

StreamTypeOK ==
    /\ phase \in [Exporters -> Phase]
    /\ kind \in [Exporters -> {"jsonl", "zip"}]
    /\ read \in [Exporters -> 0 .. Pages]
    /\ sent \in [Exporters -> 0 .. Pages]
    /\ skipped \in [Exporters -> 0 .. Pages]
    /\ trail \in [Exporters -> SUBSET Event]
    /\ shown \in [scope : Scope, projects : SUBSET Projects]

Init ==
    /\ phase = [x \in Exporters |-> "idle"]
    /\ kind = [x \in Exporters |-> "jsonl"]
    /\ read = [x \in Exporters |-> 0]
    /\ sent = [x \in Exporters |-> 0]
    /\ skipped = [x \in Exporters |-> 0]
    /\ trail = [x \in Exporters |-> {}]
    /\ shown = [scope |-> Everything, projects |-> {}]

-----------------------------------------------------------------------------
\* is_project_in_scope.
InScope(scope, p) ==
    IF scope \in {Everything, NoScope} THEN scope = Everything ELSE p \in scope

\* intersect_auditor_scope: a missing scope leaves the list as it is.
Intersect(scope, ps) == IF scope \in {Everything, NoScope} THEN ps ELSE ps \cap scope

\* Mutant: the hits are left as the service sends them.
FilterHits_Trusting(scope, hits) == IF scope = NoScope THEN {} ELSE hits

\* filter_search_hits: a missing scope leaves nothing.
FilterHits(scope, hits) ==
    IF scope = Everything THEN hits ELSE IF scope = NoScope THEN {} ELSE hits \cap scope

Show(scope, ps) ==
    /\ shown' = [scope |-> scope, projects |-> ps]
    /\ UNCHANGED <<phase, kind, read, sent, skipped, trail>>

\* projects_index, of what the service lists.
Index(scope) == \E ps \in SUBSET Projects : Show(scope, Intersect(scope, ps))

\* The pages about one project: its landing page, tree, documents, history and
\* differences.
View(scope, p) == InScope(scope, p) /\ Show(scope, {p})

\* projects_search: the service is asked for one project and may send any hits.
Search(scope, p) ==
    /\ InScope(scope, p)
    /\ \E hits \in SUBSET Projects : Show(scope, FilterHits(scope, hits))

-----------------------------------------------------------------------------
\* An event is recorded, or its failure is logged.
Record(x, event) ==
    \/ UNCHANGED trail
    \/ trail' = [trail EXCEPT ![x] = @ \cup {event}]

Goto(x, p) == phase' = [phase EXCEPT ![x] = p]

\* audit_export_jsonl and export_zip: "initiated", then the response begins.
Start(x, k, scope, p) ==
    /\ phase[x] = "idle"
    /\ k = "zip" => InScope(scope, p)
    /\ Goto(x, "reading")
    /\ kind' = [kind EXCEPT ![x] = k]
    /\ read' = [read EXCEPT ![x] = 0]
    /\ sent' = [sent EXCEPT ![x] = 0]
    /\ skipped' = [skipped EXCEPT ![x] = 0]
    /\ \E recorded \in SUBSET {"initiated"} : trail' = [trail EXCEPT ![x] = recorded]
    /\ UNCHANGED shown

\* A page of the trail is read, and handed out; the ZIP takes all documents first.
ReadPage(x) ==
    /\ phase[x] = "reading" /\ read[x] < Pages
    /\ read' = [read EXCEPT ![x] = @ + 1]
    /\ Goto(x, IF kind[x] = "jsonl" \/ read[x] + 1 = Pages THEN "sending" ELSE "reading")
    /\ UNCHANGED <<kind, sent, skipped, trail, shown>>

\* stream_project_zip: a document that cannot be read is left out.
SkipDocument(x) ==
    /\ phase[x] = "reading" /\ kind[x] = "zip" /\ read[x] < Pages
    /\ read' = [read EXCEPT ![x] = @ + 1]
    /\ skipped' = [skipped EXCEPT ![x] = @ + 1]
    /\ Goto(x, IF read[x] + 1 = Pages THEN "sending" ELSE "reading")
    /\ UNCHANGED <<kind, sent, trail, shown>>

\* Mutant: the trail is taken for whole after its first page.
HandOut_First(x) ==
    /\ phase[x] = "sending"
    /\ sent' = [sent EXCEPT ![x] = read[x]]
    /\ Goto(x, "completing")
    /\ UNCHANGED <<kind, read, skipped, trail, shown>>

\* The reader takes what has been read; without a next cursor that was all.
HandOut(x) ==
    /\ phase[x] = "sending"
    /\ sent' = [sent EXCEPT ![x] = read[x]]
    /\ Goto(x, IF read[x] = Pages THEN "completing" ELSE "reading")
    /\ UNCHANGED <<kind, read, skipped, trail, shown>>

Complete(x) ==
    /\ phase[x] = "completing"
    /\ Record(x, "completed")
    /\ Goto(x, "idle")
    /\ UNCHANGED <<kind, read, sent, skipped, shown>>

\* A call of the service fails: the trail is aborted, the ZIP just breaks off.
Fails(x) ==
    /\ phase[x] = "reading"
    /\ Goto(x, IF kind[x] = "jsonl" THEN "aborting" ELSE "idle")
    /\ UNCHANGED <<kind, read, sent, skipped, trail, shown>>

Abort(x) ==
    /\ phase[x] = "aborting"
    /\ Record(x, "aborted")
    /\ Goto(x, "idle")
    /\ UNCHANGED <<kind, read, sent, skipped, shown>>

\* The reader goes away: the generator is cancelled, which is no Exception; an
\* event on its way may be recorded all the same.
GoesAway(x) ==
    /\ phase[x] # "idle"
    /\ CASE phase[x] = "completing" -> Record(x, "completed")
         [] phase[x] = "aborting" -> Record(x, "aborted")
         [] OTHER -> UNCHANGED trail
    /\ Goto(x, "idle")
    /\ UNCHANGED <<kind, read, sent, skipped, shown>>

ExportStep(x) ==
    \/ ReadPage(x) \/ SkipDocument(x) \/ HandOut(x) \/ Complete(x)
    \/ Fails(x) \/ Abort(x) \/ GoesAway(x)

Next ==
    \/ \E s \in Scope : Index(s)
    \/ \E s \in Scope, p \in Projects : View(s, p) \/ Search(s, p)
    \/ \E x \in Exporters, k \in {"jsonl", "zip"}, s \in Scope, p \in Projects :
         Start(x, k, s, p)
    \/ \E x \in Exporters : ExportStep(x)

Spec == Init /\ [][Next]_streamVars

-----------------------------------------------------------------------------
\* The trail tells how an export ended: "completed" that its reader was handed
\* every page, "aborted" that not, and never both, though the reader may go away
\* and events may be lost at any point (audit.py:301-362, project_docs.py:307-327).
TrailIsTrue ==
    \A x \in Exporters :
        /\ "completed" \in trail[x] => sent[x] = Pages
        /\ "aborted" \in trail[x] => sent[x] < Pages

\* REQ-CPL-043: the filters of the index, the search and the pages are written
\* apart and agree: what the first two show a scoped caller, the last will open
\* (services/project_docs.py:99-150).
FiltersAgree ==
    shown.scope # NoScope => \A p \in shown.projects : InScope(shown.scope, p)
=============================================================================
