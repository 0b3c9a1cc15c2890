----------------------------- MODULE SessionLogin -----------------------------
(***************************************************************************)
(* Signing in and out: login, callback, dev_login and logout of            *)
(* src/portal/auth/oidc.py over the session store of auth/session.py.      *)
(*                                                                         *)
(* A browser has one cookie jar and any number of requests in the air.  A  *)
(* task is one request; every operation of the Redis store is an await,    *)
(* so it is a step of its own and any other task may come in between.  The *)
(* identity provider is external: it gives out a code for the flow a       *)
(* browser comes with, and takes each code back once.                      *)
(***************************************************************************)
EXTENDS Naturals

CONSTANTS
    Browsers,       \* a browser stands for the person who uses it
    Tasks,          \* requests to callback, dev_login or logout
    Sids,           \* session ids; token_urlsafe never repeats one
    Flows,          \* flow ids, and the state drawn with each
    Codes,          \* authorization codes
    DevLogin,       \* app_env is "development" or "test"
    None            \* no cookie, no record, "<placeholder>"

ASSUME LoginAssumption ==
    /\ None \notin Sids \cup Flows \cup Codes \cup Browsers
    /\ DevLogin \in BOOLEAN

VARIABLES
    sessions,   \* store: what each session id holds
    flows,      \* store: the flow records
    drawn,      \* session ids given out so far
    started,    \* who began each flow
    jar,        \* the cookies of each browser
    codes,      \* identity provider: what each code was given for
    spent,      \* identity provider: codes exchanged
    pc,         \* where each task is
    request,    \* what it came with: cookies, code and state
    token,      \* the user its code was exchanged for
    newSid,     \* new_session_id
    outcome,    \* "ok" when it was answered with cookies
    removed     \* history: session ids deleted or expired

idpVars == <<codes, spent>>
taskVars == <<pc, request, token, newSid, outcome>>
vars == <<sessions, flows, drawn, started, jar, idpVars, taskVars, removed>>

Payload == [user : Browsers, sid : Sids \cup {None}]
Grant == [user : Browsers, flow : Flows]
Request ==
    [kind : {"callback", "dev", "logout"}, browser : Browsers,
     session : Sids \cup {None}, flow : Flows \cup {None}, code : Codes \cup {None}]

TypeOK ==
    /\ sessions \in [Sids -> Payload \cup {None}]
    /\ flows \subseteq Flows
    /\ drawn \subseteq Sids
    /\ started \in [Flows -> Browsers \cup {None}]
    /\ jar \in [Browsers -> [session : Sids \cup {None}, flow : Flows \cup {None}]]
    /\ codes \in [Codes -> Grant \cup {None}]
    /\ spent \subseteq Codes
    /\ pc \in [Tasks -> {"new", "flow", "exchange", "delete", "create", "set",
                         "drop", "respond", "done"}]
    /\ request \in [Tasks -> Request \cup {None}]
    /\ token \in [Tasks -> Browsers \cup {None}]
    /\ newSid \in [Tasks -> Sids \cup {None}]
    /\ outcome \in [Tasks -> {"none", "ok", "failed"}]
    /\ removed \subseteq Sids

Init ==
    /\ sessions = [s \in Sids |-> None]
    /\ flows = {} /\ drawn = {}
    /\ started = [f \in Flows |-> None]
    /\ jar = [b \in Browsers |-> [session |-> None, flow |-> None]]
    /\ codes = [c \in Codes |-> None] /\ spent = {}
    /\ pc = [t \in Tasks |-> "new"]
    /\ request = [t \in Tasks |-> None]
    /\ token = [t \in Tasks |-> None]
    /\ newSid = [t \in Tasks |-> None]
    /\ outcome = [t \in Tasks |-> "none"]
    /\ removed = {}

Go(t, label) == pc' = [pc EXCEPT ![t] = label]

-----------------------------------------------------------------------------
\* login: a flow record is stored, the browser gets its cookie and goes to the
\* provider with the state.  A refused step-up sends the browser here too, with
\* ?stepup=1, which login does not read.
Login(b, f) ==
    /\ started[f] = None
    /\ started' = [started EXCEPT ![f] = b]
    /\ flows' = flows \cup {f}
    /\ jar' = [jar EXCEPT ![b].flow = f]
    /\ UNCHANGED <<sessions, drawn, idpVars, taskVars, removed>>

\* The provider signs the person in and gives out a code for the flow.
Authenticate(b, f, c) ==
    /\ started[f] # None /\ codes[c] = None
    /\ codes' = [codes EXCEPT ![c] = [user |-> b, flow |-> f]]
    /\ UNCHANGED <<sessions, flows, drawn, started, jar, spent, taskVars, removed>>

Receive(t, b, kind, c, label) ==
    /\ pc[t] = "new"
    /\ request' = [request EXCEPT ![t] =
           [kind |-> kind, browser |-> b, session |-> jar[b].session,
            flow |-> jar[b].flow, code |-> c]]
    /\ Go(t, label)

\* callback is called, by whichever browser the link is opened in.
Callback(t, b, c) ==
    /\ codes[c] # None /\ jar[b].flow # None
    /\ Receive(t, b, "callback", c, "flow")
    /\ UNCHANGED <<sessions, flows, drawn, started, jar, idpVars, token, newSid,
                   outcome, removed>>

\* dev_login makes up its user and goes straight to the rotation.
Dev(t, b) ==
    /\ DevLogin
    /\ Receive(t, b, "dev", None, "delete")
    /\ token' = [token EXCEPT ![t] = b]
    /\ UNCHANGED <<sessions, flows, drawn, started, jar, idpVars, newSid, outcome,
                   removed>>

Logout(t, b) ==
    /\ Receive(t, b, "logout", None, "delete")
    /\ UNCHANGED <<sessions, flows, drawn, started, jar, idpVars, token, newSid,
                   outcome, removed>>

-----------------------------------------------------------------------------
\* Mutant: the state of the query is not compared with the flow's.
StateMatches_Any(r) == r.flow \in flows

StateMatches(r) == r.flow \in flows /\ codes[r.code].flow = r.flow

\* store.get(flow_id), and the state compared.
GetFlow(t) ==
    /\ pc[t] = "flow" /\ StateMatches(request[t])
    /\ Go(t, "exchange")
    /\ UNCHANGED <<sessions, flows, drawn, started, jar, idpVars, request, token,
                   newSid, outcome, removed>>

\* Mutant: the claims are kept as they came instead of being read into a user.
Exchange_Whole(t) ==
    LET c == request[t].code IN
    /\ pc[t] = "exchange" /\ c \notin spent
    /\ spent' = spent \cup {c}
    /\ token' = [token EXCEPT ![t] = codes[c]]
    /\ Go(t, "delete")
    /\ UNCHANGED <<sessions, flows, drawn, started, jar, codes, request, newSid,
                   outcome, removed>>

\* authorize_access_token, userinfo, build_user_from_claims.
Exchange(t) ==
    LET c == request[t].code IN
    /\ pc[t] = "exchange" /\ c \notin spent
    /\ spent' = spent \cup {c}
    /\ token' = [token EXCEPT ![t] = codes[c].user]
    /\ Go(t, "delete")
    /\ UNCHANGED <<sessions, flows, drawn, started, jar, codes, request, newSid,
                   outcome, removed>>

\* Mutant: an old session is only deleted at logout.
DeleteOld_LogoutOnly(t) ==
    /\ pc[t] = "delete"
    /\ IF request[t].session = None \/ request[t].kind # "logout"
       THEN UNCHANGED <<sessions, removed>>
       ELSE /\ sessions' = [sessions EXCEPT ![request[t].session] = None]
            /\ removed' = removed \cup {request[t].session}
    /\ Go(t, IF request[t].kind = "logout" THEN "respond" ELSE "create")
    /\ UNCHANGED <<flows, drawn, started, jar, idpVars, request, token, newSid, outcome>>

\* store.delete of the session the request came with: the first half of
\* rotate, and all of logout.
DeleteOld(t) ==
    /\ pc[t] = "delete"
    /\ IF request[t].session = None
       THEN UNCHANGED <<sessions, removed>>
       ELSE /\ sessions' = [sessions EXCEPT ![request[t].session] = None]
            /\ removed' = removed \cup {request[t].session}
    /\ Go(t, IF request[t].kind = "logout" THEN "respond" ELSE "create")
    /\ UNCHANGED <<flows, drawn, started, jar, idpVars, request, token, newSid, outcome>>

\* Mutant: the cookie goes out with the first write.
Create_Early(t, s) ==
    /\ pc[t] = "create" /\ s \notin drawn
    /\ drawn' = drawn \cup {s}
    /\ sessions' = [sessions EXCEPT ![s] =
           [user |-> token[t], sid |-> None]]
    /\ newSid' = [newSid EXCEPT ![t] = s]
    /\ jar' = [jar EXCEPT ![request[t].browser].session = s]
    /\ Go(t, "set")
    /\ UNCHANGED <<flows, started, idpVars, request, token, outcome, removed>>

\* The second half of rotate: a fresh id, with a placeholder in the payload.
Create(t, s) ==
    /\ pc[t] = "create" /\ s \notin drawn
    /\ drawn' = drawn \cup {s}
    /\ sessions' = [sessions EXCEPT ![s] =
           [user |-> token[t], sid |-> None]]
    /\ newSid' = [newSid EXCEPT ![t] = s]
    /\ Go(t, "set")
    /\ UNCHANGED <<flows, started, jar, idpVars, request, token, outcome, removed>>

\* store.set with the User that names its own session.
SetSession(t) ==
    /\ pc[t] = "set"
    /\ sessions' = [sessions EXCEPT ![newSid[t]] =
           [user |-> token[t], sid |-> newSid[t]]]
    /\ Go(t, IF request[t].kind = "dev" THEN "respond" ELSE "drop")
    /\ UNCHANGED <<flows, drawn, started, jar, idpVars, request, token, newSid,
                   outcome, removed>>

\* Mutant: the flow record is left to its TTL.
DropFlow_Keeps(t) ==
    /\ pc[t] = "drop"
    /\ Go(t, "respond")
    /\ UNCHANGED <<sessions, flows, drawn, started, jar, idpVars, request, token,
                   newSid, outcome, removed>>

DropFlow(t) ==
    /\ pc[t] = "drop"
    /\ flows' = flows \ {request[t].flow}
    /\ Go(t, "respond")
    /\ UNCHANGED <<sessions, drawn, started, jar, idpVars, request, token, newSid,
                   outcome, removed>>

\* The browser stores the cookies of the response: logout clears the session
\* cookie whatever it has become, callback clears the flow cookie.
Respond(t) ==
    LET r == request[t] IN
    /\ pc[t] = "respond"
    /\ jar' = [jar EXCEPT
           ![r.browser].session = newSid[t],
           ![r.browser].flow = IF r.kind = "callback" THEN None ELSE @]
    /\ outcome' = [outcome EXCEPT ![t] = "ok"]
    /\ Go(t, "done")
    /\ UNCHANGED <<sessions, flows, drawn, started, idpVars, request, token, newSid,
                   removed>>

\* An HTTPException, an error of the store or of the provider, or a response
\* that never arrives: no cookie changes.
Fail(t) ==
    /\ pc[t] \notin {"new", "done"}
    /\ outcome' = [outcome EXCEPT ![t] = "failed"]
    /\ Go(t, "done")
    /\ UNCHANGED <<sessions, flows, drawn, started, jar, idpVars, request, token,
                   newSid, removed>>

\* A record reaches its TTL, or current_user_optional finds the User expired
\* and deletes it; not within the instant between two writes of one callback.
Expire(s) ==
    /\ sessions[s] # None /\ \A t \in Tasks : pc[t] = "set" => newSid[t] # s
    /\ sessions' = [sessions EXCEPT ![s] = None]
    /\ removed' = removed \cup {s}
    /\ UNCHANGED <<flows, drawn, started, jar, idpVars, taskVars>>

ExpireFlow(f) ==
    /\ f \in flows
    /\ flows' = flows \ {f}
    /\ UNCHANGED <<sessions, drawn, started, jar, idpVars, taskVars, removed>>

TaskStep(t) ==
    \/ GetFlow(t) \/ Exchange(t) \/ DeleteOld(t)
    \/ \E s \in Sids : Create(t, s)
    \/ SetSession(t) \/ DropFlow(t) \/ Respond(t) \/ Fail(t)

Next ==
    \/ \E b \in Browsers, f \in Flows :
         Login(b, f) \/ \E c \in Codes : Authenticate(b, f, c)
    \/ \E t \in Tasks, b \in Browsers :
         (\E c \in Codes : Callback(t, b, c)) \/ Dev(t, b) \/ Logout(t, b)
    \/ \E t \in Tasks : TaskStep(t)
    \/ \E s \in Sids : Expire(s)
    \/ \E f \in Flows : ExpireFlow(f)

Spec == Init /\ [][Next]_vars

-----------------------------------------------------------------------------
\* An id that was rotated out, logged out or expired never opens a session
\* again, although callback writes its record twice (session.py:47-61,
\* oidc.py:217-228).
DeadStaysDead == \A s \in removed : sessions[s] = None

\* AMD-15: once a sign-in or a sign-out is answered, the session it came with
\* is gone, and the browser holds another one or none (oidc.py:205-221, 283-300).
Superseded ==
    \A t \in Tasks :
        outcome[t] = "ok" /\ request[t].session # None =>
            /\ sessions[request[t].session] = None
            /\ newSid[t] # request[t].session

\* A sign-in ends in the browser it began in: the link back from the provider,
\* opened elsewhere, is refused whatever flow that browser is in
\* (oidc.py:170-182).
EndsWhereItBegan ==
    \A t \in Tasks :
        outcome[t] = "ok" /\ request[t].kind = "callback" =>
            started[codes[request[t].code].flow] = request[t].browser

\* A login that was answered has used up its flow record, however its store
\* operations met those of other tasks (oidc.py:231).
FlowUsedUp ==
    \A t \in Tasks :
        outcome[t] = "ok" /\ request[t].kind = "callback" =>
            request[t].flow \notin flows
=============================================================================
