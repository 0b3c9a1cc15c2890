# The compliance portal in TLA+

A verification project for the two FastAPI applications of this repository: the
internal compliance portal (`src/portal`) and the public data-subject portal
(`src/dsr_portal`), and the API client they share (`src/shared/api_client`).
The modules are translated from the Python; TLC checks them on small instances
and TLAPS proves the most important properties for every instance.

## Inventory

The portals keep almost no state: gates, reports, reviews, requests and
incidents live in the *compliance service*, which is not in the repository and
is reached over HTTP by `ComplianceClient`. What the portals decide is when a
mutation may be sent, by whom and how often. Every handler is an asyncio
coroutine: it runs atomically from one `await` to the next, so whatever it read
before an `await` may be stale after it, and several uvicorn workers run side by
side with no shared memory.

| Part | State | Operations | Talks to | Hard behaviours | What makes it correct |
|---|---|---|---|---|---|
| Circuit breaker (`circuit_breaker.py`) | state, failure times, probe flag, opening time | `can_request`, `record_success`, `record_failure` | client | concurrent calls cross its transitions; the clock | one probe at a time, one per cooldown; failures forgotten on the way to CLOSED; HALF_OPEN ends |
| API client (`client.py`, `retry.py`) | the breaker, an HTTP pool | `_request`, `upload_identity_proof`, some 70 endpoints over `_request` | service, breaker | timeouts, retries, lost answers, exceptions nobody named | bounded attempts, every outcome told to the breaker, a write not done twice |
| MFA nonces (`auth/mfa.py`) | nonce records of one backend | `issue`, `consume`, `require_mfa` | gates, reports, model cards | replays from tabs, retries and workers; expiry | one use, by the holder, on the action it was issued for |
| Gates (`routers/gates.py`) | none | detail, decide | nonces, service | SoD, step-up and nonce checked around awaits | only authorised decisions reach the service |
| Sessions and OIDC (`auth/session.py`, `auth/oidc.py`, `auth/rbac.py`) | session and flow records, cookies | login, callback, logout, dev-login, `current_user` | identity provider, Redis | two tabs, reloads, lost responses, non-atomic get/delete | ids rotate, a dead id stays dead, a session belongs to the browser that started the login |
| Reports (`routers/reports.py`, `services/report_workflow.py`) | none | generate, review, approve, sign, deliver | nonces, service | stage read before the mutation | a report moves along its stages only, signed after approval and before delivery |
| Model cards (`routers/model_cards.py`; bands in `services/review_schedule.py`) | none | start, transition, sign off | nonces, service | the generic transition beside the signed one | sign-off needs step-up and nonce |
| DSR queue (`routers/dsr.py`) | none | transition, evidence, deliver, close | service | check-then-act on status, by four handlers | steps in order; nothing leaves for a request nobody but its submitter vouched for; the trail tells no more than was done |
| Public DSR portal (`dsr_portal/`) | tokens, kept by the subject | submit, status, identity upload, receipt | captcha, scanner, service | upload before submit; lost answers; tokens days old | a proof goes to the request of its sender; an infected one is not cited |
| Incidents (`routers/incidents.py`) | none | notes, notifications, transition, close, report, webhook | service, guardian webhook | repeated and made-up webhooks; check-then-act | containment follows investigation; only what the guardian signed |
| Process knowledge (`routers/process_knowledge.py`, `services/yaml_*.py`) | none | approve, reject, modify, batch | service | a batch done in part | a decision has its rationale, a new text the type of the old |
| Deadlines (`services/dsr_sla.py`, `incident_clock.py`, `review_schedule.py`) | none | bands, escalation, reminders | the lists; a daily worker, which is not in the repository | exact bounds, written apart | nothing is missed, badges and queues agree |
| PDF export (`pdf/`, `routers/export.py`) | the cache, the component registry | export, cache get/put | service | stale entries, renderings that overtake each other, callers of several roles | everybody's own mark; bounded age; a signed report is no draft |
| Audit explorer, evidence, project docs (`routers/audit.py`, `evidence.py`, `project_docs.py`) | none | stream JSONL, ZIP, list, search, view | service | an export cut half way; filters written apart | the trail tells how an export ended; what is listed can be opened |
| CSRF (`middleware/csrf_mw.py`, `auth/csrf.py`) | a cookie per browser | set, read a body, compare, replay | every request | answers in any order, broken connections, a body too long | the form a browser shows can be posted |
| Auditor engagements (`auth/auditor_scope.py`, `routers/auditor_admin.py`) | none | create, revoke | service | revocation while a session is open | no artifact for a revoked auditor |
| Other middleware, dashboards, outcomes, home, templates, config, logging | none | read, render | service | none of concurrency | pure rendering |

`PROJECT.json` lists these parts with their status, and under `hazards` what in
this code is hard to test, each at its line.

## Plan

1. **CircuitBreaker**, **ComplianceClient** with proofs: every call of both
   portals goes through them. *Done.*
2. **MfaNonce**, **SingleUse** (abstract), **GateDecision** with proofs: the
   portal's most sensitive action. *Done.*
3. **SessionLogin** with proofs: the OIDC flow, session rotation, logout and
   dev-login over a store whose operations are separate steps. *Done.*
4. **ServiceCall**, and over it **ReportWorkflow** with proofs and
   **ModelReview** with proofs: the other two users of MfaNonce, with the service
   either authoritative about stages or permissive. *Done.*
5. Over ServiceCall: **DsrLifecycle**, **PublicDsr**, **IncidentResponse** and
   **KnowledgeReview** with proofs. *Done.*
6. **PdfExport**, **StreamedExport**, **CsrfGate**, **Deadlines** with proofs.
   *Done.*
7. Every safety property of a run that is expected to pass is now a theorem.
   Worth adding: an abstract ledger of decisions, each by one who may make it and
   after the one it rests on, that ReportWorkflow and ModelReview both implement,
   as GateDecision implements SingleUse.

A model of idempotency keys and one of auditor engagements were planned and given
up; "Not modelled" says why.

The modules and what they rest on:

| Module | Extends | Proofs |
|---|---|---|
| CircuitBreaker, ComplianceClient | the second extends the first | ComplianceClientProofs |
| SingleUse | implemented by GateDecision | GateDecisionProofs |
| MfaNonce | extended by GateDecision, ReportWorkflow, ModelReview | with GateDecision |
| ServiceCall | extended by ReportWorkflow, ModelReview, DsrLifecycle, PublicDsr, IncidentResponse, KnowledgeReview | ServiceCallProofs |
| ReportWorkflow | ServiceCall, MfaNonce | ReportWorkflowProofs |
| ModelReview | ServiceCall, MfaNonce | DeskProofs |
| IncidentResponse, KnowledgeReview | ServiceCall | DeskProofs |
| DsrLifecycle, PublicDsr | ServiceCall | DsrProofs |
| SessionLogin | | SessionLoginProofs |
| PdfExport, StreamedExport, CsrfGate, Deadlines | | PortalProofs |

The proofs of the modules that are checked together are together too: DeskProofs,
DsrProofs and PortalProofs extend the MC module of their run, and state the
theorems of the parts about the parts' own specifications.

The runs are one per question. Modules that share no state but are small are
checked in one run, in which a behaviour is of one part: `MCDsr`, `MCDesk` and
`MCPortal` pick the part in the initial state and hold the others still, so
their state spaces add up and do not multiply, and each part is explored
up to its bounds.

## CircuitBreaker and ComplianceClient

`CircuitBreaker` is `circuit_breaker.py`: `state`, `failures`, `openedFor` and
`halfOpenInFlight` are `_state`, `_failures`, `now - _opened_at` and
`_half_open_in_flight`. A method body holds one `asyncio.Lock` and awaits
nothing under it, so each is one action: `CanRequest`/`CannotRequest` (the two
answers of `can_request`, `Prune` included), `RecordSuccess`, `RecordFailure`.
Time stamps are kept as ages that saturate one past the bound they are compared
with; `BreakerTick` is one second. `BreakerSpec` lets the methods be called in
any order by anybody.

`ComplianceClient` is the loop of `_request` and the single attempt of
`upload_identity_proof`, for a set of calls that share a client: `Admit` and
`FailFast`, then `Succeed`, `Redirected`, `Unavailable` (an exception of the
`except` clause, or a 5xx), `Rejected` (a 4xx; any status from 400 for an
upload), `Escape` (an exception the clause does not name, or a cancellation),
and `Retry` after the backoff. Idle calls may be made again. `probe` and
`sinceProbe` are history variables.

The sharing is what the class is written for ("Async-safe circuit breaker").
As wired today `dependencies.py:31` builds a client, and so a breaker, for every
HTTP request, although its docstring speaks of a long-lived one; the calls of
one request then follow each other, which is the instance with one call at a
time, included in these behaviours.

| Run | Shows | Bounds |
|---|---|---|
| `client_safety` | types, the probe flag and the failure window (`BreakerSafe`), the spacing of probes and the bound of the backlog | a GET (3 attempts), a write (2) and an upload (1); threshold 3, window 2, cooldown 2: the three calls' six failures suffice to trip, overfill and re-trip |
| `client_liveness` | calls return, OPEN is probed, HALF_OPEN settles, when every outcome is recorded | a GET and a write; threshold 2 |
| `client_wedged` | violation: with unrecorded outcomes HALF_OPEN never ends | the same |

Fairness: an attempt ends because httpx times out each of its phases, a sleep
ends, the clock advances, and requests keep arriving (weak fairness of `Settle`,
`Retry`, `Tick`, `Admit`). `Tick` waits for backoffs, which last less than a
second.

Proved in `ComplianceClientProofs`, for every set of calls and every threshold,
window and cooldown: `TypeCorrect`; `BreakerAlwaysSafe` (the flag and the window
invariants of an undisciplined breaker); `ClientImplementsBreaker`, from which
`FlagsAgree`; `HalfOpenAdmitsOne`; `CooldownRestarts`; `ProbeSpacing`. The
inductive invariant is the type invariant with the two breaker invariants and
`TrippedSinceProbe`: a breaker can be re-opened only by a trip that restarts the
cooldown, so the age of the last probe bounds the age of the trip.
`BacklogIsBounded` is about the deque, which nothing caps: while the breaker is
OPEN the failures it holds and the attempts that may still add one are together
no more than all the attempts of the calls there are. It is counted by the sets
of attempts: a failure that is reported is of an attempt that was left before it
and is not left after it (`FailureUsesAttempt`), nobody who is not admitted gets
new ones, and the trip itself empties the deque. It needs one more assumption,
that the calls are finitely many, and that an attempt under way is within the
bound of its call (`WithinMax`).

## MfaNonce, SingleUse and GateDecision

`MfaNonce` holds a record per nonce: what it is bound to and in which backend
(`binding`), whether its record is still there (`stored`), and its age.
`Issue` and `Consume` are the manager's methods; both are synchronous, hence
atomic. `BackendOf` gives each worker its backend: one value for all is a shared
Redis, one value each is the in-memory default. A record past its TTL is dropped
by Redis and refused by `Valid` here, which is the same answer.

`GateDecision` composes it with `gates.py`: `Detail` renders the page,
`Post` starts a submission, and the checks follow in the order of the code, each
await a point where the others run: the fetch of the gate, the audit of a
refusal, the submission, the breadcrumb. The user and their `mfa_at` are those
of the session when the request arrived (`seenAge`). The service is external: it
takes the first decision it receives for a gate, may receive it after the caller
gave up, and the client's second attempt carries the same key. `presented` is a
history variable.

`SingleUse` is the promise: a token goes from one holder to one request, or is
burnt. `NoncePromise` states that `GateDecision` implements it.

| Run | Shows | Bounds |
|---|---|---|
| `gate_one_backend` | single use, binding, separation of duties, first use accepted, the promise | two officers, three gates (sensitive and triggered by one officer, sensitive and triggered by nobody, plain), two nonces, two submissions; both ages 0, so one tick is a whole lifetime |
| `gate_two_workers` | violation: with a backend per worker a good nonce is refused | two workers |

Workers that share a backend cannot be told apart, so the first run has one.
Two submissions are enough for a nonce to be used twice, two nonces for one
user's to meet the other's.

Proved in `GateDecisionProofs`, for all constants, whatever `BackendOf`:
`TypeCorrect`, `NonceSingleUse`, `DecisionsAreBound`, `NobodyDecidesTheirOwn`
and `ManagerKeepsPromise` (the refinement). The inductive invariant `IInv` adds
to the types: a stored nonce is issued; whatever is on the wire passed SoD and,
for a sensitive gate, carries a nonce bound to it that is no longer stored; the
service decides only what it was sent. `FirstUseIsAccepted` has a hypothesis
of its own, `SharedBackend`: all workers share one, which is what a Redis client
given to `create_app` would make of them, and what the run `gate_two_workers`
denies. Its invariant is that a nonce which was drawn and which nobody has
presented is still stored (`UnpresentedIsStored`).

## SessionLogin

`login`, `callback`, `dev_login` and `logout` over the session store. `sessions`
and `flows` are the records behind `store.get/set/delete`, `jar` the two cookies
of each browser, `codes` and `spent` what the identity provider (external) gave
out and took back. A task is one request; each store operation is an await in
the code and so a step: `Receive`, `GetFlow`, `Exchange`, `DeleteOld` (the first
half of `rotate`, and all of `logout`), `Create` (its second half), `SetSession`
(the second write, which replaces the placeholder by the id), `DropFlow`,
`Respond`, or `Fail` at any of them: a failed operation, and equally a response
that never arrives. A record may expire at any time, except between the two
writes of one callback, which no TTL is short enough to meet.

Checked in `portal_parts` (below): types, a dead id stays dead, a sign-in
supersedes the session before it, a sign-in ends in the browser it began in, a
flow is used up. The bounds are two browsers, two requests at a time, two ids of
each kind: each request draws at most one id and one flow, so a browser can sign
in twice, or two browsers meet. Ids run out, so the run may stop:
`CHECK_DEADLOCK FALSE`. No fairness is assumed: everything checked is safety.

Proved in `SessionLoginProofs`, for any number of browsers, requests and ids:
`TypeCorrect`, `DeadForGood`, `SignInSupersedes`, `SignInEndsWhereItBegan` and
`FlowIsUsedUp`. The difficulty is that a sign-in writes its record twice: were
the record deleted in between, the second write would bring it back. It cannot
be, because until the answer is given nobody but the task knows the id: no other
request carries it and no cookie names it (`Unseen`, `Distinct`, `JarOK`). The
invariant says besides of every task, by how far it has come, what it carries
and what it has done (`TaskOK`: a matching flow, the old session deleted, the
flow dropped), and the lemmas on `Grew` show that no step of another task, of a
record or of a browser takes that back.

## ServiceCall, ReportWorkflow and ModelReview

The handlers that move an object of the service have one shape: read the object,
check, send a mutation, read it again for the page. `ServiceCall` is that shape
without the particulars: `Arrive`, `Read` (the answer of the first await, kept
in `seen`), `Refuse`, `Send`, and then the service (external) takes what was
sent (`Take`) while the caller waits, or after the caller has given up
(`Abandon`, then `TakeLate`, of which at most `MaxLate` are pending: the only
bound). `pc` is where a task waits.

`ReportWorkflow` is `reports.py` with the stages of `report_workflow.py`:
`Generate`, `Post` for each of the other handlers, `Fetch` and then what each
handler does with what it read: `Page` (which issues the signing nonce),
`WrongStage`, `Approve` with `IsAuthor`, `Sign` with the step-up and the nonce,
`Advance` (the two calls of a delivery). A form carries what its handler looks
at and no more, so the reviewer of a report has no name in the model. The
service is either `Authoritative` or takes whatever it is sent; the first is
what the code's comments rely on, the second is what shows which guarantees are
the portal's own. `ModelReview` is the same for `model_cards.py`, whose sign-off
handler reads nothing before it sends. A page whose nonces have all been given
out waits: that bounds the nonces, and removes no interleaving of those there
are.

| Run | Shows | Bounds |
|---|---|---|
| `report_stages` | with a permissive service: four eyes, signatures bound to their nonce, nothing delivered unsigned, nonces only after approval; and as long as the service has moved by the rules, whoever is shown the result of a review, an approval or a signature has moved the report there | two admins, one report (reports share nothing but the nonces, which are bound to one), two requests at a time of any number, one nonce, one late mutation; both ages 0, so a tick is a lifetime |
| `report_delivered` | violation: a delivery is announced though the report stays signed | authoritative; the same |
| `review_gated` | violation: even with an authoritative service, a review is signed off through the generic transition without step-up or nonce | two officers, one review, one nonce, one late mutation |

`OkMeansDone` is about what an authoritative service guarantees. The run keeps a
history variable, `lawful`: every mutation taken so far was allowed by the stage
it met. As long as it holds the permissive service is an authoritative one, so
one run answers both questions. `ModelReview` is checked in `desk_decisions`
(below): what is signed was decided, with a rationale, and signatures are bound.

Proved in `ReportWorkflowProofs`, for any number of users, reports, requests,
nonces, workers and late mutations, and for either service: `TypeCorrect`,
`SignedByFourEyes`, `SignaturesAreBound`, `OnlySignedIsDelivered` and
`NoncesFollowApproval`. None of them is inductive: what a handler sends was
judged on a stage read some steps ago, and may be taken when the stage is
another. The invariant therefore says of everything a task has read, has on the
wire, or has left behind as a late mutation, what must have happened before it
could be read or sent; and since approvals, signatures, spent nonces and records
of delivery are never taken back ("what is known stays known": the lemmas `Grew`,
`Spent` and `MessageStays`), what was true then is true when the service takes
it. `ServiceCallProofs` has the types of the shared shape.

`ShownIsAlwaysDone` proves `OkMeansDone` of the run's own specification, which
carries `lawful`. As long as the service has moved by the rules a report only
ever advances (`LegalMovesOn`): the one way back the table allows, from review to
draft, is of a transition that no handler sends. So a
mutation that was taken has moved the report to its target or beyond, and until
the answer is shown nothing moves it back (`DoneInv`). Once a mutation was
unlawful nothing is claimed any more, and nothing is needed of the steps after.

Proved in `DeskProofs` along the same argument: `ReviewTypeCorrect`,
`SignedWasDecided` and `SignaturesAreBound`. The sign-off handler reads nothing,
so what it knows of a review it knows from the nonce: a nonce is drawn only for a
review that has been decided (`NonceOK`), a page draws it only for one it read in
that state (`ViewOK`, `PageDraws`), and a review once decided stays so.

## DsrLifecycle and PublicDsr

`DsrLifecycle` is `dsr.py`. Its four mutating handlers are tasks of ServiceCall:
`Fetch`, then `Transition` (with `MayMove` over `ValidTransitions`, the
separation of duties of AMD-01 and the documentation rules, in the order of the
code), `GenerateEvidence`, `Deliver`, `Close`; `Answered` and `Audit` are the
awaits after the mutation, of which the second may fail without anybody
noticing. The service is permissive: "service is authoritative", says a comment,
and here it takes whatever it is sent, because what holds nevertheless is the
portal's own doing. `reached`, `vetted`, `generated` and `issued` are what the
service has come to know, and never forgets.

`PublicDsr` is the application data subjects use. The first await of each
handler is the captcha, then come screening, the upload of a proof, the
submission, and the three tokens of its receipt (`bundle`; they end together,
after seven days). An identity proof is uploaded before there is a request,
under the reference "pending", and cited by the submission. A token is signed,
so one that is shown was issued, but anybody may show it, with any reference and
address in the form.

| Run | Shows | Bounds |
|---|---|---|
| `dsr_sides` | of the officers' side: no evidence and no delivery token unless another than the submitter verified the identity by a method he named; each status is come to by way of those before it; the trail says only what was done. Of the public side: a proof belongs to the address its request was submitted with; no request cites an infected proof. | officers: one request (requests share nothing), two officers, one task at a time and one abandoned mutation, which is a second actor for every step; `OneDetour`: a request leaves the straight way once, and one event about it is recorded. Public: two references, two addresses, three files (good, the other spelling of its type, too large), one task, one late mutation |

Proved in `DsrProofs`, for any number of requests, officers, tasks and
late mutations: `OfficerTypeCorrect`, `NothingLeavesUnverifiedEver`,
`StepsStayInOrder` and `TrailFollowsFacts`. What is sent was judged on a status read before, so the
invariant says of whatever is fetched, on the wire or left behind what must have
been reached by then (`Earned`); a handler that got its answer knows the thing is
done (`Done`); and since nothing reached is taken back (`Grew`), both are still
true when they matter. `PermittedIsEarned` is the lemma about the table: a status
from which a transition is permitted was come to by way of the status the
transition needs.

Proved there of the public side, for any number of references, addresses, files,
tasks and late mutations: `ProofsAreTheirs` and `NoInfectedProof`. Anybody may
show any token with any reference and address, so the argument goes through the
token: one that exists was made for a request that was submitted, with its
address, and what the handler sends after its cross-check bears the two the token
names; the address of a request does not change after it was submitted, so it
does not matter when the proof arrives. A submission with a file is sent only by
a task whose own upload was answered with a verdict that passes. The two sides keep
nothing in common but the shape of a call, whose variables the run gives to
either: `BothTypesCorrect` has the types of both, for the specification the run
checks. The names for "nobody" and "no reference" are assumed not to be addresses
or references, and the files to be files (`PublicAssumption`).

## IncidentResponse and KnowledgeReview

`IncidentResponse` is `incidents.py`. Transitions fetch before they send; notes,
notifications, closing and the report send at once (`SendAtOnce`); the webhook
checks its timestamp against `Skew` and then its signature, which is over that
timestamp, before it creates an incident. The guardian signs each event once,
at the time it `Terminate`s; a request may bring any timestamp, with a signature
for it or not, any number of times.

`KnowledgeReview` is `process_knowledge.py` with the checks of
`yaml_validator.py`. A rationale is long enough, too short, or only white space,
which the batch handler and the others treat alike by different means; a text
has the keys of some type or does not parse. The service may take a batch for
some of its candidates and refuse it for others.

| Run | Shows | Bounds |
|---|---|---|
| `desk_decisions` | ModelReview, see above; containment follows an investigation and an incident that bears an event bears one the guardian signed at that time; what is approved or rejected has a rationale and a text is replaced by one of its own type | reviews: two officers, one review, one nonce, two tasks; incidents: one, one event, skew 1 of 2 ticks (so a webhook can be too old, too early, or good), one task and one late mutation, one entry in the record (`OneEntry`); knowledge: two candidates of two types, batches of at most one or too large |

Proved in `DeskProofs`, for any number of incidents, candidates, tasks, events
and late mutations: `ContainmentFollows`, `EventsWereSigned` and
`DecisionsAreJustified`, and with the reviews the types of all three
(`DeskTypeCorrect`). An incident is only ever moved by a transition that was
judged on a status read before, so the invariant says of everything fetched, on
the wire or left behind what the incident had reached by then. Of a
webhook with a good signature it says from its arrival that its event was signed
at the time it bears, and the guardian signs an event once, so the two stay equal
for good. Of a
decision on the wire it says that its rationale is long enough, for every
candidate of a batch, and of a new text that it has the keys of its candidate's
type, which is given when the candidate is made; the service may then take any
part of it, at any time.

## PdfExport, StreamedExport, CsrfGate and Deadlines

`PdfExport` is `export_pdf` with the resolvers eleven routers register, each by
the roles it is for and the number of calls it reads its document in, the
watermark, and the service with its cache. `Begin` is the request with its
roles and scope; `ReadPart` one call of a resolver; then `NotStamped` (an auditor
without a mark), `Hit`, `Miss` with the rendering in a thread, `Rendered` which
puts the PDF in the cache, and the ways to fail. `Change` is an officer changing
the document meanwhile. Time passes only as far as the timeouts of the code
allow somebody to wait. `TTLCache` drops something when it is full; which is left
open. `stale` and `answer` are history variables.

`StreamedExport` is the audit export as a generator that may be cancelled at any
await, the ZIP of a project, and the three filters of `project_docs.py`: `Index`,
`Search`, `View`. `CsrfGate` is the double-submit middleware: a request reads its
cookie when it comes in, a form's body chunk by chunk up to the cap, and an
answer takes its cookie and page back to the browser, in any order, or never.
`Deadlines` has the bands and windows as operators over a clock, and the daily
worker their docstrings speak of. Its unit is a quarter of a day, in which every
bound of the code is a whole number.

| Run | Shows | Bounds |
|---|---|---|
| `portal_parts`, part pdf | a caller is answered with the document asked for under the caller's own mark; no part of it was superseded longer ago than reading, rendering and keeping it may take | two exporters; an auditor in two engagements of which one covers the project, an admin, and one with both roles; one document of a component of one, two or three reads; one change; every timeout 1, TTL 2, a cache of one PDF, so that entries push each other out |
| part stream | `TrailIsTrue`: "completed" means every page was handed out, "aborted" that not; `FiltersAgree`: what is listed or found can be opened | one reader, two projects, two pages |
| part csrf | `PagesAgree`: the form a browser shows has the token of its cookie, but for a first page, or two first requests at once | one browser (they share nothing), two connections, two tokens, three chunks of which two fit, tokens good for one tick |
| part deadlines | `DeadlinesKept`: at whatever hour a daily worker runs, every escalation and reminder is found due once; badges, queue and thresholds agree | a request of 30 days, an incident of 72 hours, and a card to be reviewed at 130 quarters, so that all three windows are passed |
| part session | SessionLogin, above | |
| `exports_signed` | violation: a report that was signed when it was asked for is answered with the cached draft | part pdf alone |

The parts share the values they are symmetric in. The run has some 720,000
states. Connections and readers that have nothing left to do stop:
`CHECK_DEADLOCK FALSE`.

Proved in `PortalProofs`:

- *PdfExport*, for any number of exporters, callers and documents, any registry
  of roles, any timeouts and any size and lifetime of the cache:
  `EveryAnswerIsWatermarked` and `StaleIsAlwaysBounded`. Neither is inductive,
  since what the cache hands out was rendered for another request. Of an entry
  the invariant (`PdfInv`) says that its PDF is of the document, and bears the
  mark, that its key names; the key holds everything the mark is made from, so
  whoever hits it asked for that document under that mark. It says besides how
  long ago a part can have been superseded by now: no longer than
  its job has waited, while it is read; than `ReadTimeout` and the wait since, while
  it is rendered; than both timeouts and the age of the entry once it is cached. A part that was read
  is the document's current version at that moment, of which nothing is
  superseded yet (`CurrentIsFresh`); and since time passes for a job and for what
  it read alike, the two ages grow together. `PdfAssumption`: the timeouts are
  natural numbers, the lifetime is positive, and the registry has the exported
  components.
- *CsrfGate*, for any number of browsers, connections and tokens and any length of
  a token's life: `PagesAlwaysAgree`. The page and the cookie are set by answers
  that may be under way at once, so the invariant counts them: a browser that did
  not race has at most one first request or first answer under way, and none
  once it has a cookie (`WindowOK`); every later request and answer carries the
  cookie the browser has (`CarriedOK`, `RepliedOK`).
- *StreamedExport*, for any number of readers, projects and pages, at least one:
  `TrailAlwaysTrue`, along what each phase of an export has read and handed out
  (`ExportOK`), and `FiltersAlwaysAgree`.
- *Deadlines*, for a day of any length and a card that is to be reviewed at any
  time, but not sooner than 30 days after it is first looked at:
  `DeadlinesAlwaysKept`. What no run has found due so far was not due when the
  worker last ran (`DeadlineInv`); every window is at least as wide as a day, and
  the next run comes within one, so it is found by then. A card with less than 30
  days to go has a first reminder that was past before there was one to send:
  `DeadlineAssumption` leaves it out, and nothing in the code does.
- `PortalTypeCorrect`: the types of all parts, for the specification the run
  checks. No part touches what another keeps, so their invariants hold together
  (`PortalInv`).

## What the runs found

| Finding | Where | Run |
|---|---|---|
| A 4xx, an exception nobody named or a cancellation in the half-open probe leaves the breaker refusing every call for ever | `client.py:258`, `circuit_breaker.py:62` | `client_wedged` |
| The nonces of one worker are unknown to the other | `gates.py:84` | `gate_two_workers` |
| A failed advance to delivered is taken for "already delivered" | `reports.py:431` | `report_delivered` |
| The generic transition signs a review off | `model_cards.py:49` | `review_gated` |
| A signed report is answered with its cached, unsigned draft | `export.py:205`, `service.py:177` | `exports_signed` |

Seen while modelling, and stated by no run.

Calls to the service:
- the outcome of a call admitted before the breaker tripped decides the probe's
  question (`circuit_breaker.py:6` against `68-93`), and such a call sends its
  remaining attempts while the breaker is OPEN (`client.py:227`);
- `dependencies.py:24` describes a client that lives as long as the application,
  and the code builds one per request;
- the seed of the idempotency key is cut at 80 characters (`client.py:183-186`).

Signing in and forms:
- a submission that fails has used up its nonce, which the docstring says a
  successful decision does (`mfa.py:205`, `mfa.py:259`);
- a refused step-up redirects to `/login?stepup=1`, which `login` does not read,
  so the provider may answer with the authentication there already was
  (`oidc.py:112-159`);
- the CSRF cookie is set only when there is none (`csrf_mw.py:266`): once its
  token is 3600 s old every form of that browser is refused until the cookie
  goes; the form of a browser's first page has no token; two first requests at
  once leave a page with a token that is not the cookie's;
- a connection that breaks while a body is read hands on what was read, where
  the comment says an empty body (`csrf_mw.py:97-98`);
- the webhook's path is not among the exempt ones (`main.py:240`), so the
  middleware refuses it, though `docs/HOW-TO-USE.md:63-65` and
  `tests/test_remediation.py:636-637` presume that it is reached.

Requests, incidents, knowledge:
- a generic transition to delivered or closed skips the audit event of AMD-12;
- the lists and the escalation queue include requests that are closed or
  rejected, and the figures count a request with no time left as overdue while
  its badge is red;
- `image/jpg` is on the allowlist of the public portal and never passes the
  comparison with the bytes (`malware_scan.py:38-41`, `92-100`);
- a submission whose answer is lost leaves a request without tokens;
- a webhook delivered twice makes two incidents;
- a text with `id: null` passes the check of required keys.

Documents:
- the byte-range signature needs a signing client, which nothing passes to the
  service (`main.py:133-139`): a signed report can only ever be answered from
  the cache, with its draft, or with a 504;
- the cached PDF of anybody but an auditor bears the name of whoever rendered it
  first; a slow rendering replaces a newer one in the cache;
- a package whose signature check raises is rendered and cached all the same;
- dashboards, gates, packages and project documents are read in several calls,
  of which a change between makes a document of two versions;
- a user who is an auditor, but by a role other than the first, gets a 500
  (`export.py:114`, `service.py:162`);
- the ZIP leaves out documents it could not read and is reported completed; an
  export whose reader goes away is reported neither completed nor aborted
  (`audit.py:277`);
- an auditor without a scope is listed every project and may open none
  (`services/project_docs.py`).

## Not modelled

- *Auditor engagements.* `require_active_engagement`, `log_artifact_view` and
  `enforce_artifact_scope` are called by no router, although
  `auditor_scope.py:3-14` promises instant revocation. Creating and revoking are
  one call each, after which nothing in the portal changes: the scope a session
  carries was read when it was made. What the scope does is in PdfExport and
  StreamedExport.
- *Idempotency keys.* What they are for, that the service takes one of several
  attempts, is how ServiceCall and GateDecision model a call. Whether two calls
  get one key is a matter of the text of a path and of a hash cut short.
- *The endpoint methods that only read*, and the pydantic models: they build a
  path and parse a body. Those that change something are the `OpOf` of the
  modules that call them.
- *Pages that only read*: dashboards, outcomes, home, the lists and detail pages,
  versions and differences, evidence verification. They keep nothing and send
  nothing; their PDFs are in PdfExport.
- *Rate limiting, security headers, the audit guard, configuration, logging,
  health, templates*: each looks at one request, or is read once at start.

Some hazards have no property, because nothing in the code prevents what they
say and no document promises it: a repeated submission, webhook or notification,
a document of two versions, a cookie whose token has run out, sessions that are
kept per worker. The models contain the first four, so they can be seen; the
last is the deployment `gate_two_workers` shows for nonces.

## Limits

Every safety invariant and action property of the runs that are expected to pass
is the statement of a theorem. What is model-checked only:

- liveness (`CallsReturn`, `OpenIsProbed`, `HalfOpenSettles`): it rests on
  fairness and ENABLED, which the provers do not handle. Fairness is assumed only
  for ComplianceClient; no other part of the portals waits for anything but a
  call, which ends by its timeouts;
- the violations of the five other runs, which are counterexamples.

The theorems of MCDsr, MCDesk and MCPortal are about each part by itself, which
is what the run explores; the parts share nothing but, in two of the modules, the
variables of a call, which belong to the part that runs.

The compliance service, the identity provider, Redis, the guardian, the captcha,
the browsers and the network are modelled from how the code uses them, and the
theorems hold of those models. Rendering, PDF layout, logging and the parsing of
bodies are not modelled.
