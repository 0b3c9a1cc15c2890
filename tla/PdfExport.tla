------------------------------ MODULE PdfExport ------------------------------
(***************************************************************************)
(* Documents as PDF: src/portal/routers/export.py, the resolvers that      *)
(* eleven routers register, and the service and cache of src/portal/pdf.   *)
(*                                                                         *)
(* A request reads its document from the compliance service, in one call   *)
(* or several, then takes a PDF from the cache or has one rendered in a    *)
(* thread, on a clock.  What other requests do to the cache, and officers  *)
(* to the document, goes on meanwhile.  create_app gives the PdfService    *)
(* neither a signing client nor an audit sink (main.py:133-139): a report  *)
(* that wants a byte-range signature cannot be rendered, and an event is a *)
(* line of the log.                                                        *)
(***************************************************************************)
EXTENDS Naturals, FiniteSets, Sequences

CONSTANTS
    Exporters,      \* requests in progress at a time
    Callers,        \* who asks: [user, roles, engagement, covers], see InScope
    Documents,
    Exported,       \* the components the documents may be of
    MaxVersion,     \* bound: changes of a document
    SignedVersion,  \* the version a report is signed with
    ReadTimeout,    \* ticks the calls that read a document may take together
    RenderTimeout,  \* ticks a rendering may take
    Ttl,            \* ticks a PDF stays in the cache
    MaxEntries,     \* PDFs the cache holds
    NoEngagement,   \* an auditor without a scope, and everybody else
    NoMark,         \* no watermark
    NoVersion,      \* a part that could not be read
    NoRequest

VARIABLES
    component,  \* the component each document belongs to
    version,    \* service: the version each document is at
    stale,      \* ticks since each version was superseded, capped
    job,        \* what each request is about, and the versions it has read
    store,      \* the cache: PDFs by key, with their age
    answer      \* the PDF the last step answered a request with, if it did

exportVars == <<component, version, stale, job, store, answer>>

Version == 0 .. MaxVersion

-----------------------------------------------------------------------------
\* What the routers register: the roles a component is for, and how many calls
\* its resolver makes to read a document.
Registered(roles, reads) == [roles |-> roles, reads |-> reads]

Officers == {"admin", "compliance_officer"}
Auditable == Officers \cup {"auditor"}
Open == Auditable \cup {"viewer"}

AuditEvent == Registered(Auditable, 1)
SessionTimeline == Registered(Auditable, 1)
DsrRecord == Registered(Auditable, 1)
RegulatoryReport == Registered(Auditable, 1)
IncidentReport == Registered(Auditable, 1)
ProcessKnowledge == Registered(Officers \cup {"sme"}, 1)
ModelCard == Registered(Open, 1)
OutcomeSummary == Registered(Open, 1)
\* The package and the check of its signature.
EvidencePackage == Registered(Auditable, 2)
\* The receipt and its gate.
GateReceipt == Registered(Auditable, 2)
\* The scores, their trends and the gaps.
DashboardSnapshot == Registered(Open, 3)
\* The document, its history and its project.
ProjectDoc == Registered(Open, 3)

Registry ==
    [audit_event |-> AuditEvent, session_timeline |-> SessionTimeline,
     dsr_record |-> DsrRecord, regulatory_report |-> RegulatoryReport,
     incident_report |-> IncidentReport, process_knowledge |-> ProcessKnowledge,
     model_card |-> ModelCard, outcome_summary |-> OutcomeSummary,
     evidence_package |-> EvidencePackage, gate_decision |-> GateReceipt,
     dashboard_snapshot |-> DashboardSnapshot, project_doc |-> ProjectDoc]

Reads(d) == Registry[component[d]].reads

\* Documents are of registered components; a timeout may be zero, but what is put in
\* the cache is there to be found (cache.py:29-30).
ASSUME PdfAssumption ==
    /\ Exported \subseteq DOMAIN Registry
    /\ ReadTimeout \in Nat /\ RenderTimeout \in Nat /\ Ttl \in Nat \ {0}
    /\ MaxVersion \in Nat /\ MaxEntries \in Nat

-----------------------------------------------------------------------------
\* No version is followed longer than a PDF of it may be served.
MaxStale == Ttl + RenderTimeout + ReadTimeout

Later(age, bound) == IF age < bound THEN age + 1 ELSE age

IsAuditor(c) == \E i \in 1 .. Len(c.roles) : c.roles[i] = "auditor"

\* The identity an auditor's PDF is stamped with, which names its watermark too.
MarkOf(c) == IF IsAuditor(c) THEN <<c.user, c.engagement>> ELSE NoMark

Marks == {MarkOf(c) : c \in Callers}
Keys == [document : Documents, role : {Head(c.roles) : c \in Callers}, mark : Marks]
Parts == UNION {[1 .. n -> Version \cup {NoVersion}] : n \in 0 .. 3}
Pdf == [document : Documents, mark : Marks, parts : Parts]
Job == [caller : Callers, document : Documents, parts : Parts,
        rendering : BOOLEAN, age : Nat]

PdfTypeOK ==
    /\ component \in [Documents -> Exported]
    /\ version \in [Documents -> Version]
    /\ stale \in [Documents -> [Version -> 0 .. MaxStale]]
    /\ \A x \in Exporters : job[x] # NoRequest =>
         job[x] \in Job /\ Len(job[x].parts) <= Reads(job[x].document)
    /\ \A e \in store : e.key \in Keys /\ e.pdf \in Pdf /\ e.age < Ttl
    /\ Cardinality(store) <= MaxEntries
    /\ answer # NoRequest => answer.job \in Job /\ answer.pdf \in Pdf

PdfInit ==
    /\ component \in [Documents -> Exported]
    /\ version = [d \in Documents |-> 0]
    /\ stale = [d \in Documents |-> [v \in Version |-> 0]]
    /\ job = [x \in Exporters |-> NoRequest]
    /\ store = {}
    /\ answer = NoRequest

-----------------------------------------------------------------------------
NoAnswer == answer' = NoRequest

\* An officer changes a document, or signs a report.
Change(d) ==
    /\ version[d] < MaxVersion
    /\ version' = [version EXCEPT ![d] = @ + 1]
    /\ NoAnswer
    /\ UNCHANGED <<component, stale, job, store>>

\* A report that was signed when it was read wants a byte-range signature.
RequiresPades(d, parts) ==
    component[d] = "regulatory_report" /\ parts[1] >= SignedVersion

RoleAllowed(c, d) ==
    \E i \in 1 .. Len(c.roles) : c.roles[i] \in Registry[component[d]].roles

\* is_project_in_scope, which the resolver of project documents asks: whether the
\* engagement in the caller's session names the project.
InScope(c, d) == component[d] = "project_doc" /\ IsAuditor(c) => c.covers

Admitted(c, d) == RoleAllowed(c, d) /\ InScope(c, d)

\* The scope an auditor needs, and the service's rule that who is first of all an
\* auditor has a watermark and nobody else does.
WatermarkFits(c) ==
    /\ IsAuditor(c) => c.engagement # NoEngagement
    /\ IsAuditor(c) = (Head(c.roles) = "auditor")

\* Mutant: the key leaves the watermark out.
KeyOf_NoMark(c, d) == [document |-> d, role |-> Head(c.roles), mark |-> NoMark]

\* No resolver gives an etag, so no version is part of the key.
KeyOf(c, d) == [document |-> d, role |-> Head(c.roles), mark |-> MarkOf(c)]

Cached(k) == {e \in store : e.key = k}

DropJob(x) == job' = [job EXCEPT ![x] = NoRequest]

\* The request is refused before anything is read: 403, audited at best.
Refused(x, c, d) ==
    /\ job[x] = NoRequest /\ ~Admitted(c, d)
    /\ NoAnswer
    /\ UNCHANGED <<component, version, stale, job, store>>

Begin(x, c, d) ==
    /\ job[x] = NoRequest /\ Admitted(c, d)
    /\ job' = [job EXCEPT ![x] = [caller |-> c, document |-> d, parts |-> <<>>,
                                  rendering |-> FALSE, age |-> 0]]
    /\ NoAnswer
    /\ UNCHANGED <<component, version, stale, store>>

Reading(x) ==
    job[x] # NoRequest /\ Len(job[x].parts) < Reads(job[x].document)

\* One call of the resolver is answered.
ReadPart(x) ==
    /\ Reading(x)
    /\ job' = [job EXCEPT ![x].parts = Append(@, version[job[x].document])]
    /\ NoAnswer
    /\ UNCHANGED <<component, version, stale, store>>

\* The check of a package's signature fails: it is shown as not valid.
Unverified(x) ==
    /\ Reading(x) /\ component[job[x].document] = "evidence_package"
    /\ job[x].parts # <<>>
    /\ job' = [job EXCEPT ![x].parts = Append(@, NoVersion)]
    /\ NoAnswer
    /\ UNCHANGED <<component, version, stale, store>>

\* 404 or 500.
ResolverFails(x) ==
    /\ Reading(x) /\ DropJob(x)
    /\ NoAnswer
    /\ UNCHANGED <<component, version, stale, store>>

Resolved(x) == job[x] # NoRequest /\ ~Reading(x) /\ ~job[x].rendering

\* 403 for want of a scope, 500 for a role and a watermark that do not fit.
NotStamped(x) ==
    /\ Resolved(x) /\ ~WatermarkFits(job[x].caller) /\ DropJob(x)
    /\ NoAnswer
    /\ UNCHANGED <<component, version, stale, store>>

KeyFor(j) == KeyOf(j.caller, j.document)

Serve(x, pdf) == answer' = [job |-> job[x], pdf |-> pdf]

\* The cache has a PDF for it.
Hit(x) ==
    /\ Resolved(x) /\ WatermarkFits(job[x].caller)
    /\ \E e \in Cached(KeyFor(job[x])) : Serve(x, e.pdf)
    /\ DropJob(x)
    /\ UNCHANGED <<component, version, stale, store>>

\* A PDF of what was read is rendered.
Miss(x) ==
    /\ Resolved(x) /\ WatermarkFits(job[x].caller)
    /\ Cached(KeyFor(job[x])) = {}
    /\ job' = [job EXCEPT ![x].rendering = TRUE, ![x].age = 0]
    /\ NoAnswer
    /\ UNCHANGED <<component, version, stale, store>>

\* A put replaces what the key has; at the limit it makes room for itself.
Put(k, pdf) ==
    LET others == store \ Cached(k)
        entry == [key |-> k, pdf |-> pdf, age |-> 0]
    IN IF Cardinality(others) < MaxEntries
       THEN store' = others \cup {entry}
       ELSE \E e \in others : store' = (others \ {e}) \cup {entry}

Rendering(x) == job[x] # NoRequest /\ job[x].rendering

PdfOf(j) == [document |-> j.document, mark |-> MarkOf(j.caller), parts |-> j.parts]

Rendered(x) ==
    /\ Rendering(x) /\ ~RequiresPades(job[x].document, job[x].parts)
    /\ Put(KeyFor(job[x]), PdfOf(job[x]))
    /\ Serve(x, PdfOf(job[x]))
    /\ DropJob(x)
    /\ UNCHANGED <<component, version, stale>>

\* 504: out of time, a failed rendering, or a signature nobody can give.
RenderFails(x) ==
    /\ Rendering(x) /\ DropJob(x)
    /\ NoAnswer
    /\ UNCHANGED <<component, version, stale, store>>

\* Mutant: what is in the cache stays there.
Outlasting_Reset(e) == {[e EXCEPT !.age = 0]}

\* A PDF older than the TTL is gone.
Outlasting(e) == IF e.age + 1 < Ttl THEN {[e EXCEPT !.age = @ + 1]} ELSE {}

TimeLeft(j) == j.age < IF j.rendering THEN RenderTimeout ELSE ReadTimeout

\* Time passes; nothing is read or rendered for longer than its timeout.
Tick ==
    /\ \A x \in Exporters : job[x] # NoRequest => TimeLeft(job[x])
    /\ job' = [x \in Exporters |->
                  IF job[x] = NoRequest THEN NoRequest
                  ELSE [job[x] EXCEPT !.age = @ + 1]]
    /\ store' = UNION {Outlasting(e) : e \in store}
    /\ stale' = [d \in Documents |-> [v \in Version |->
                    IF v < version[d] THEN Later(stale[d][v], MaxStale) ELSE 0]]
    /\ NoAnswer
    /\ UNCHANGED <<component, version>>

ExportStep(x) ==
    \/ ReadPart(x) \/ Unverified(x) \/ ResolverFails(x) \/ NotStamped(x)
    \/ Hit(x) \/ Miss(x) \/ Rendered(x) \/ RenderFails(x)

PdfNext ==
    \/ \E d \in Documents : Change(d)
    \/ \E x \in Exporters, c \in Callers, d \in Documents :
         Refused(x, c, d) \/ Begin(x, c, d)
    \/ \E x \in Exporters : ExportStep(x)
    \/ Tick

PdfSpec == PdfInit /\ [][PdfNext]_exportVars

-----------------------------------------------------------------------------
\* AMD-06, AMD-13: whoever rendered a PDF, what a caller is answered with is the
\* document asked for, stamped with the caller's own identity and engagement when
\* an auditor, with none when not (service.py:159-177, cache.py:51-66).
Watermarked ==
    answer # NoRequest =>
        /\ answer.pdf.document = answer.job.document
        /\ answer.pdf.mark = MarkOf(answer.job.caller)

\* No part of what is served was superseded longer ago than it may take to read
\* and to render it and to keep it in the cache, whatever order renderings end in
\* and however often they replace each other (service.py:177-262, cache.py:98-109).
StaleIsBounded ==
    answer # NoRequest =>
        LET pdf == answer.pdf IN
        \A i \in 1 .. Len(pdf.parts) : pdf.parts[i] # NoVersion =>
            stale[pdf.document][pdf.parts[i]] < Ttl + RenderTimeout + ReadTimeout

\* "Signed reports require AMD-08 byterange signing" (reports.py:475): a report
\* that was signed when it was asked for is not answered with an earlier draft.
SignedIsNoDraft ==
    answer # NoRequest =>
        (RequiresPades(answer.job.document, answer.job.parts)
            => RequiresPades(answer.pdf.document, answer.pdf.parts))
=============================================================================
