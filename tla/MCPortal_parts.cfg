CONSTANTS
    PartsRun = {"session", "csrf", "pdf", "stream", "deadlines"}
    Browsers = {b1, b2}
    Tasks = {t1, t2}
    Sids = {s1, s2}
    Flows = {f1, f2}
    Codes = {c1, c2}
    DevLogin = TRUE
    None = None
    Connections = {t1, t2}
    Windows = {w1}
    Tokens = {s1, s2}
    MaxTokenAge = 1
    FormSize = 3
    Cap = 2
    NoToken = NoToken
    NoRequest = NoRequest
    Exporters = {t1, t2}
    Callers <- MCCallers
    Documents = {d1}
    Exported = {"regulatory_report", "evidence_package", "project_doc"}
    MaxVersion = 1
    SignedVersion = 1
    ReadTimeout = 1
    RenderTimeout = 1
    Ttl = 2
    MaxEntries = 1
    NoEngagement = NoEngagement
    NoMark = NoMark
    NoVersion = NoVersion
    Readers = {reader}
    Projects = {f1, f2}
    Pages = 2
    Everything = Everything
    NoScope = NoScope
    Day = 4
    ReviewAfter = 130
SPECIFICATION MCSpec
SYMMETRY MCSymmetry
INVARIANTS PortalTypeOK DeadStaysDead  EndsWhereItBegan FlowUsedUp PagesAgree Watermarked StaleIsBounded  FiltersAgree DeadlinesKept
CHECK_DEADLOCK FALSE
