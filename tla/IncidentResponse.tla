-------------------------- MODULE IncidentResponse --------------------------
(***************************************************************************)
(* Incidents: src/portal/routers/incidents.py.  The guardian reports one   *)
(* by a signed webhook; officers note what they find, record whom they     *)
(* notified, move the incident on, close it and draft its report.          *)
(*                                                                         *)
(* The calls are those of ServiceCall; the service takes what it is sent.  *)
(***************************************************************************)
EXTENDS ServiceCall

CONSTANTS
    Incidents,      \* incidents of the service
    Events,         \* terminations the guardian reports
    Skew,           \* skew_seconds, in ticks
    MaxTime,        \* bound: ticks of the clock
    NoEvent         \* reported by hand

VARIABLES
    now,            \* the clock
    stamp,          \* when the guardian signed each event, or NoEvent
    status,         \* service: status of each incident, "absent" before
    reached,        \* every status it has had
    origin,         \* service: the webhook an incident was created for
    record          \* service: what was added to an incident

serviceVars == <<status, reached, origin, record>>
vars == <<callVars, now, stamp, serviceVars>>

Status == {"open", "investigating", "contained", "closed"}

Entry == {"note", "notification", "report"}

\* A webhook shows a timestamp; signed is a signature for it that verifies.
Webhook == [kind : {"webhook"}, event : Events, time : 0 .. MaxTime, signed : BOOLEAN]

Form ==
    Webhook
        \cup [kind : {"transition"}, incident : Incidents, to : Status]
        \cup [kind : {"close", "note", "report"}, incident : Incidents]
        \cup [kind : {"notification"}, incident : Incidents, channel : {"phone", "pigeon"}]

Op == Status \cup Entry \cup {"create"}

TypeOK ==
    /\ CallTypeOK(Form, Status \cup {"absent"}, Op)
    /\ now \in 0 .. MaxTime
    /\ stamp \in [Events -> 0 .. MaxTime \cup {NoEvent}]
    /\ status \in [Incidents -> Status \cup {"absent"}]
    /\ reached \in [Incidents -> SUBSET Status]
    /\ origin \in [Incidents -> Webhook \cup {NoEvent}]
    /\ record \subseteq Incidents \X Entry

Init ==
    /\ CallInit
    /\ now = 0
    /\ stamp = [e \in Events |-> NoEvent]
    /\ status = [i \in Incidents |-> "absent"]
    /\ reached = [i \in Incidents |-> {}]
    /\ origin = [i \in Incidents |-> NoEvent]
    /\ record = {}

-----------------------------------------------------------------------------
\* Mutant: an open incident may be contained at once.
ValidTransitions_Shortcut ==
    [open |-> {"investigating", "contained", "closed"},
     investigating |-> {"contained", "closed"},
     contained |-> {"closed"}, closed |-> {}, absent |-> {}]

ValidTransitions ==
    [open |-> {"investigating", "closed"}, investigating |-> {"contained", "closed"},
     contained |-> {"closed"}, closed |-> {}, absent |-> {}]

\* The guardian signs an event, once; it may send it over and over.
Terminate(e) ==
    /\ stamp[e] = NoEvent
    /\ stamp' = [stamp EXCEPT ![e] = now]
    /\ UNCHANGED <<callVars, now, serviceVars>>

\* Who signs is the guardian, so what is signed bears the time of its event.
Post(t, f) ==
    /\ f.kind = "webhook" /\ f.signed => stamp[f.event] = f.time
    /\ Arrive(t, f)
    /\ UNCHANGED <<now, stamp, serviceVars>>

InWindow(f) == now <= f.time + Skew /\ f.time <= now + Skew

\* Mutant: the window is checked, the signature is not.
Verified_Window(f) == InWindow(f)

Verified(f) == InWindow(f) /\ f.signed

\* Mutation by a handler that reads nothing first.
SendAtOnce(t) == Send(t, "sending") /\ UNCHANGED <<now, stamp, serviceVars>>

\* incident_add_note, its markdown rendered.
AddNote(t) == pc[t] = "fetching" /\ form[t].kind = "note" /\ SendAtOnce(t)

\* incident_add_notification, by one of five channels.
AddNotification(t) ==
    /\ pc[t] = "fetching" /\ form[t].kind = "notification" /\ form[t].channel = "phone"
    /\ SendAtOnce(t)

\* incident_close: whatever the status.
Close(t) == pc[t] = "fetching" /\ form[t].kind = "close" /\ SendAtOnce(t)

\* incident_generate_report.
GenerateReport(t) == pc[t] = "fetching" /\ form[t].kind = "report" /\ SendAtOnce(t)

\* incident_webhook_terminate.
AcceptWebhook(t) ==
    /\ pc[t] = "fetching" /\ form[t].kind = "webhook" /\ Verified(form[t])
    /\ SendAtOnce(t)

\* 401, the attempt audited.
WebhookRefused(t) ==
    /\ pc[t] = "fetching" /\ form[t].kind = "webhook" /\ ~Verified(form[t])
    /\ Refuse(t)
    /\ UNCHANGED <<now, stamp, serviceVars>>

Refusal(t) == Refused(t) /\ UNCHANGED <<now, stamp, serviceVars>>

\* A channel that is none of the five; a signed body that is no JSON: 400.
BadRequest(t) ==
    /\ pc[t] = "fetching"
    /\ \/ form[t].kind = "notification" /\ form[t].channel # "phone"
       \/ form[t].kind = "webhook" /\ Verified(form[t])
    /\ Finish(t)
    /\ UNCHANGED <<now, stamp, serviceVars>>

Fetch(t) ==
    /\ pc[t] = "fetching" /\ form[t].kind = "transition"
    /\ status[form[t].incident] # "absent"
    /\ Read(t, status[form[t].incident])
    /\ UNCHANGED <<now, stamp, serviceVars>>

Transition(t) ==
    /\ pc[t] = "fetched" /\ form[t].to \in ValidTransitions[seen[t]]
    /\ Send(t, "sending")
    /\ UNCHANGED <<now, stamp, serviceVars>>

InvalidTransition(t) ==
    /\ pc[t] = "fetched" /\ form[t].to \notin ValidTransitions[seen[t]]
    /\ Finish(t)
    /\ UNCHANGED <<now, stamp, serviceVars>>

-----------------------------------------------------------------------------
OpOf(f) ==
    CASE f.kind = "webhook" -> "create"
      [] f.kind = "transition" -> f.to
      [] f.kind = "close" -> "closed"
      [] OTHER -> f.kind

Create(f) ==
    \E i \in Incidents :
        /\ status[i] = "absent"
        /\ status' = [status EXCEPT ![i] = "open"]
        /\ reached' = [reached EXCEPT ![i] = {"open"}]
        /\ origin' = [origin EXCEPT ![i] = f]
        /\ UNCHANGED record

Amend(op, i) ==
    /\ status[i] # "absent"
    /\ IF op \in Entry
       THEN record' = record \cup {<<i, op>>} /\ UNCHANGED <<status, reached>>
       ELSE /\ status' = [status EXCEPT ![i] = op]
            /\ reached' = [reached EXCEPT ![i] = @ \cup {op}]
            /\ UNCHANGED record
    /\ UNCHANGED origin

\* The service takes mutation op of form f.
Apply(op, f) == IF op = "create" THEN Create(f) ELSE Amend(op, f.incident)

\* An incident that somebody else made known to the service.
Detect(i) ==
    /\ status[i] = "absent"
    /\ status' = [status EXCEPT ![i] = "open"]
    /\ reached' = [reached EXCEPT ![i] = {"open"}]
    /\ UNCHANGED <<callVars, now, stamp, origin, record>>

ServiceTakes(t) ==
    /\ Take(t) /\ Apply(OpOf(form[t]), form[t]) /\ UNCHANGED <<now, stamp>>

ServiceTakesLate(m) == TakeLate(m) /\ Apply(m.op, m.form) /\ UNCHANGED <<now, stamp>>

\* Notes, notifications and reports show the incident as it is read again.
Answered(t) ==
    /\ pc[t] = "sending" /\ taken[t]
    /\ IF form[t].kind \in Entry
       THEN Goto(t, "reloading") /\ UNCHANGED <<form, seen, taken, late>>
       ELSE Finish(t)
    /\ UNCHANGED <<now, stamp, serviceVars>>

Reloaded(t) == pc[t] = "reloading" /\ Finish(t) /\ UNCHANGED <<now, stamp, serviceVars>>

Fails(t) == CallFails(t, OpOf(form[t])) /\ UNCHANGED <<now, stamp, serviceVars>>

Tick == now < MaxTime /\ now' = now + 1 /\ UNCHANGED <<callVars, stamp, serviceVars>>

TaskStep(t) ==
    \/ AddNote(t) \/ AddNotification(t) \/ Close(t) \/ GenerateReport(t)
    \/ AcceptWebhook(t) \/ WebhookRefused(t) \/ Refusal(t) \/ BadRequest(t) \/ Fetch(t)
    \/ Transition(t) \/ InvalidTransition(t) \/ ServiceTakes(t) \/ Answered(t)
    \/ Reloaded(t) \/ Fails(t)

Next ==
    \/ \E e \in Events : Terminate(e)
    \/ \E i \in Incidents : Detect(i)
    \/ \E t \in Tasks, f \in Form : Post(t, f)
    \/ \E t \in Tasks : TaskStep(t)
    \/ \E m \in late : ServiceTakesLate(m)
    \/ Tick

Spec == Init /\ [][Next]_vars

-----------------------------------------------------------------------------
\* Containment follows an investigation, whatever two officers do at once and
\* whatever arrives late; only closing may come at any time (incidents.py:61-66,
\* 359-364, 396).
ContainedWasInvestigated ==
    \A i \in Incidents : "contained" \in reached[i] => "investigating" \in reached[i]

\* AMD-18: an incident that bears an event is of one the guardian signed, at the
\* time it bears, and never of one that was made up (incidents.py:118-181, 484-497).
GuardianSigned ==
    \A i \in Incidents :
        origin[i] # NoEvent => stamp[origin[i].event] = origin[i].time
=============================================================================
