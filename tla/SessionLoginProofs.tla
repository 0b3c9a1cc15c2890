-------------------------- MODULE SessionLoginProofs --------------------------
(***************************************************************************)
(* The safety of SessionLogin, for any number of browsers, requests and    *)
(* ids.                                                                    *)
(*                                                                         *)
(* The two writes of a sign-in are the difficulty: the second one would    *)
(* bring back a record that was deleted between them.  It cannot have      *)
(* been, because only the task knows the id until the browser has its      *)
(* cookie (Unseen).  The rest follows from what a task has behind it at    *)
(* each point (TaskOK), for what it has behind it is never undone (Grew).  *)
(***************************************************************************)
EXTENDS SessionLogin, TLAPS

\* What is not undone: ids, removals, owners of flows, grants; and no flow that
\* was started is stored again.
Grew ==
    /\ drawn \subseteq drawn'
    /\ removed \subseteq removed'
    /\ \A f \in Flows : started[f] # None => started'[f] = started[f]
    /\ \A c \in Codes : codes[c] # None => codes'[c] = codes[c]
    /\ \A f \in Flows : started[f] # None /\ f \in flows' => f \in flows

\* The session a task came with has been deleted.
Swept(t) == pc[t] \in {"create", "set", "drop", "respond"} \/ outcome[t] = "ok"

\* The state of a callback has been compared.
Matched(t) ==
    pc[t] \in {"exchange", "delete", "create", "set", "drop", "respond"}
        \/ outcome[t] = "ok"

\* The flow of a callback has been dropped.
Dropped(t) == pc[t] = "respond" \/ outcome[t] = "ok"

\* What is true of a request from when it is received.
RequestOK(r) ==
    /\ r \in Request
    /\ r.session \in drawn \cup {None}
    /\ r.flow # None => started[r.flow] = r.browser
    /\ r.kind = "callback" => r.flow # None /\ r.code # None /\ codes[r.code] # None

\* What a task has behind it.
PastOK(t) ==
    /\ Swept(t) => request[t].session \in removed \cup {None}
    /\ request[t].kind = "callback" /\ Matched(t) =>
         codes[request[t].code].flow = request[t].flow
    /\ request[t].kind = "callback" /\ Dropped(t) => request[t].flow \notin flows

\* Where a task can be, and what it holds there.
PlaceOK(t) ==
    /\ pc[t] \in {"flow", "exchange", "drop"} => request[t].kind = "callback"
    /\ pc[t] \in {"create", "set"} => request[t].kind # "logout"
    /\ pc[t] \in {"delete", "create", "set"} /\ request[t].kind # "logout" =>
         token[t] \in Browsers
    /\ pc[t] \in {"flow", "exchange", "delete", "create"} => newSid[t] = None
    /\ pc[t] \in {"set", "drop"} => newSid[t] # None
    /\ newSid[t] # None => newSid[t] \in drawn /\ newSid[t] # request[t].session

TaskOK(t) ==
    /\ outcome[t] = "ok" => pc[t] = "done"
    /\ pc[t] = "new" => newSid[t] = None
    /\ pc[t] # "new" => RequestOK(request[t]) /\ PastOK(t) /\ PlaceOK(t)

\* What browsers hold was given to them.
JarOK ==
    \A b \in Browsers :
        /\ jar[b].session \in drawn \cup {None}
        /\ jar[b].flow # None => started[jar[b].flow] = b

StoreOK ==
    /\ \A s \in Sids : sessions[s] # None => s \in drawn
    /\ removed \subseteq drawn
    /\ DeadStaysDead

\* No two tasks draw one id.
Distinct ==
    \A t, u \in Tasks : t # u /\ newSid[t] # None => newSid[t] # newSid[u]

\* An id nobody but its task knows yet.
Unseen ==
    \A t \in Tasks :
        pc[t] \in {"set", "drop", "respond"} /\ newSid[t] # None =>
            /\ \A b \in Browsers : jar[b].session # newSid[t]
            /\ \A u \in Tasks : pc[u] # "new" => request[u].session # newSid[t]
            /\ pc[t] = "set" => newSid[t] \notin removed

IInv ==
    /\ TypeOK
    /\ JarOK /\ StoreOK /\ Distinct /\ Unseen
    /\ \A t \in Tasks : TaskOK(t)

-----------------------------------------------------------------------------
(* Types. *)

\* The actions that begin something, of the browsers and of the provider.
Arrival ==
    \/ \E b \in Browsers, f \in Flows :
         Login(b, f) \/ \E c \in Codes : Authenticate(b, f, c)
    \/ \E t \in Tasks, b \in Browsers :
         (\E c \in Codes : Callback(t, b, c)) \/ Dev(t, b) \/ Logout(t, b)

Expiry == (\E s \in Sids : Expire(s)) \/ (\E f \in Flows : ExpireFlow(f))

LEMMA NextCases ==
    ASSUME [Next]_vars
    PROVE  Arrival \/ (\E t \in Tasks : TaskStep(t)) \/ Expiry \/ UNCHANGED vars
BY Zenon DEF Next, Arrival, Expiry

LEMMA ReceiveTyped ==
    ASSUME TypeOK, NEW t \in Tasks, NEW b \in Browsers,
           NEW kind \in {"callback", "dev", "logout"}, NEW c \in Codes \cup {None},
           NEW label \in {"flow", "delete"}, Receive(t, b, kind, c, label)
    PROVE  /\ request' \in [Tasks -> Request \cup {None}]
           /\ request'[t] \in Request
           /\ pc' \in [Tasks -> {"new", "flow", "exchange", "delete", "create", "set",
                                 "drop", "respond", "done"}]
BY DEF TypeOK, Receive, Request, Go

LEMMA ArrivalTyped ==
    ASSUME TypeOK, Arrival
    PROVE  TypeOK'
<1>1. CASE \E b \in Browsers, f \in Flows : Login(b, f)
  BY <1>1 DEF TypeOK, Login, idpVars, taskVars
<1>2. CASE \E b \in Browsers, f \in Flows, c \in Codes : Authenticate(b, f, c)
  BY <1>2 DEF TypeOK, Authenticate, Grant, taskVars
<1>3. ASSUME NEW t \in Tasks, NEW b \in Browsers,
             (\E c \in Codes : Callback(t, b, c)) \/ Dev(t, b) \/ Logout(t, b)
      PROVE  TypeOK'
  <2>1. /\ request' \in [Tasks -> Request \cup {None}]
        /\ pc' \in [Tasks -> {"new", "flow", "exchange", "delete", "create", "set",
                              "drop", "respond", "done"}]
    BY <1>3, ReceiveTyped DEF Callback, Dev, Logout
  <2> QED
    BY <1>3, <2>1 DEF TypeOK, Callback, Dev, Logout, idpVars
<1> QED
  BY <1>1, <1>2, <1>3 DEF Arrival

LEMMA TaskStepTyped ==
    ASSUME IInv, NEW t \in Tasks, TaskStep(t)
    PROVE  TypeOK'
<1>0. TypeOK /\ TaskOK(t)
  BY DEF IInv
<1>1. CASE GetFlow(t)
  BY <1>0, <1>1 DEF TypeOK, GetFlow, Go, idpVars
<1>2. CASE Exchange(t)
  <2>1. request[t].code \in Codes /\ codes[request[t].code] \in Grant
    BY <1>0, <1>2 DEF Exchange, TaskOK, RequestOK, PlaceOK, Request, TypeOK
  <2> QED
    BY <1>0, <1>2, <2>1 DEF TypeOK, Exchange, Go, Grant
<1>3. CASE DeleteOld(t)
  <2>1. request[t].session \in Sids \cup {None}
    BY <1>0, <1>3 DEF DeleteOld, TaskOK, RequestOK, Request
  <2> QED
    BY <1>0, <1>3, <2>1 DEF TypeOK, DeleteOld, Go, idpVars
<1>4. ASSUME NEW s \in Sids, Create(t, s)
      PROVE  TypeOK'
  <2>1. [user |-> token[t], sid |-> None] \in Payload
    BY <1>0, <1>4 DEF Create, TaskOK, PlaceOK, Payload
  <2> QED
    BY <1>0, <1>4, <2>1 DEF TypeOK, Create, Go, idpVars
<1>5. CASE SetSession(t)
  <2>1. newSid[t] \in Sids
    BY <1>0, <1>5 DEF SetSession, TaskOK, PlaceOK, TypeOK
  <2>2. [user |-> token[t], sid |-> newSid[t]] \in Payload
    BY <1>0, <1>5, <2>1 DEF SetSession, TaskOK, PlaceOK, Payload
  <2> QED
    BY <1>0, <1>5, <2>2 DEF TypeOK, SetSession, Go, idpVars
<1>6. CASE DropFlow(t)
  BY <1>0, <1>6 DEF TypeOK, DropFlow, Go, idpVars
<1>7. CASE Respond(t)
  <2>1. request[t].browser \in Browsers
    BY <1>0, <1>7 DEF Respond, TaskOK, RequestOK, Request
  <2>2. jar' \in [Browsers -> [session : Sids \cup {None}, flow : Flows \cup {None}]]
    BY <1>0, <1>7, <2>1 DEF TypeOK, Respond
  <2> QED
    BY <1>0, <1>7, <2>2 DEF TypeOK, Respond, Go, idpVars
<1>8. CASE Fail(t)
  BY <1>0, <1>8 DEF TypeOK, Fail, Go, idpVars
<1> QED
  BY <1>1, <1>2, <1>3, <1>4, <1>5, <1>6, <1>7, <1>8 DEF TaskStep

LEMMA TypeStep ==
    ASSUME IInv, [Next]_vars
    PROVE  TypeOK'
<1>1. TypeOK
  BY DEF IInv
<1>2. CASE Expiry
  BY <1>1, <1>2 DEF TypeOK, Expiry, Expire, ExpireFlow, idpVars, taskVars
<1>3. CASE UNCHANGED vars
  BY <1>1, <1>3 DEF TypeOK, vars, idpVars, taskVars
<1> QED
  BY <1>1, <1>2, <1>3, NextCases, ArrivalTyped, TaskStepTyped

-----------------------------------------------------------------------------
(* What is not undone. *)

LEMMA GrewStep ==
    ASSUME IInv, [Next]_vars
    PROVE  Grew
<1>0. TypeOK
  BY DEF IInv
<1>1. CASE Arrival
  BY <1>0, <1>1 DEF Arrival, Grew, TypeOK, Login, Authenticate, Callback, Dev, Logout,
     idpVars
<1>2. CASE \E t \in Tasks : TaskStep(t)
  BY <1>2 DEF Grew, TaskStep, GetFlow, Exchange, DeleteOld, Create, SetSession,
     DropFlow, Respond, Fail, idpVars
<1>3. CASE Expiry
  BY <1>3 DEF Grew, Expiry, Expire, ExpireFlow, idpVars
<1>4. CASE UNCHANGED vars
  BY <1>4 DEF Grew, vars, idpVars
<1> QED
  BY <1>1, <1>2, <1>3, <1>4, NextCases

LEMMA RequestStays ==
    ASSUME TypeOK, Grew, NEW r, RequestOK(r)
    PROVE  RequestOK(r)'
<1>1. /\ r.browser \in Browsers /\ None \notin Browsers
      /\ r.flow \in Flows \cup {None} /\ r.code \in Codes \cup {None}
  BY LoginAssumption DEF RequestOK, Request
<1> QED
  BY <1>1 DEF Grew, RequestOK

\* A task that takes no step keeps what it has behind it.
LEMMA WaitingStaysGood ==
    ASSUME IInv, Grew, NEW t \in Tasks,
           pc'[t] = pc[t] /\ request'[t] = request[t] /\ token'[t] = token[t],
           newSid'[t] = newSid[t] /\ outcome'[t] = outcome[t]
    PROVE  TaskOK(t)'
<1> DEFINE r == request[t]
<1>0. TaskOK(t) /\ TypeOK
  BY DEF IInv
<1>1. CASE pc[t] = "new"
  BY <1>0, <1>1 DEF TaskOK
<1>2. CASE pc[t] # "new"
  <2>1. RequestOK(r) /\ RequestOK(r)' /\ PastOK(t) /\ PlaceOK(t)
    BY <1>0, <1>2, RequestStays DEF TaskOK, RequestOK
  <2>2. /\ r.browser \in Browsers /\ None \notin Browsers
        /\ r.flow \in Flows \cup {None} /\ r.code \in Codes \cup {None}
    BY <2>1, LoginAssumption DEF RequestOK, Request
  <2>3. PastOK(t)'
    <3>1. r.kind = "callback" /\ Matched(t) => codes'[r.code] = codes[r.code]
      BY <2>1, <2>2 DEF Grew, RequestOK
    <3>2. r.kind = "callback" /\ Dropped(t) => r.flow \notin flows'
      BY <2>1, <2>2 DEF Grew, RequestOK, PastOK
    <3> QED
      BY <2>1, <3>1, <3>2 DEF Grew, PastOK, Swept, Matched, Dropped
  <2>4. PlaceOK(t)'
    BY <2>1 DEF Grew, PlaceOK
  <2> QED
    BY <1>0, <1>2, <2>1, <2>3, <2>4 DEF TaskOK, RequestOK
<1> QED
  BY <1>1, <1>2

-----------------------------------------------------------------------------
(* The steps of a task. *)

\* A request is received with the cookies of its browser.
LEMMA ReceiveStep ==
    ASSUME IInv, Grew, NEW t \in Tasks, NEW b \in Browsers,
           (\E c \in Codes : Callback(t, b, c)) \/ Dev(t, b) \/ Logout(t, b)
    PROVE  TaskOK(t)'
<1>0. TypeOK /\ TaskOK(t) /\ JarOK /\ pc[t] = "new"
  BY DEF IInv, Callback, Dev, Logout, Receive
<1>1. PICK kind \in {"callback", "dev", "logout"}, c \in Codes \cup {None} :
        /\ Receive(t, b, kind, c, IF kind = "callback" THEN "flow" ELSE "delete")
        /\ kind = "callback" => c # None /\ codes[c] # None /\ jar[b].flow # None
        /\ kind = "dev" => token'[t] = b
        /\ UNCHANGED <<drawn, started, jar, codes, newSid, outcome, removed>>
  <2>1. CASE \E c \in Codes : Callback(t, b, c)
    <3>1. PICK c \in Codes : Callback(t, b, c)
      BY <2>1
    <3>2. c # None
      BY LoginAssumption
    <3> QED
      BY <3>1, <3>2 DEF Callback, idpVars
  <2>2. CASE Dev(t, b)
    BY <1>0, <2>2 DEF Dev, idpVars, TypeOK
  <2>3. CASE Logout(t, b)
    BY <2>3 DEF Logout, idpVars
  <2> QED
    BY <2>1, <2>2, <2>3
<1>2. request'[t] = [kind |-> kind, browser |-> b, session |-> jar[b].session,
                     flow |-> jar[b].flow, code |-> c]
  BY <1>0, <1>1 DEF Receive, TypeOK
<1>3. pc'[t] = IF kind = "callback" THEN "flow" ELSE "delete"
  BY <1>0, <1>1 DEF Receive, Go, TypeOK
<1>4. newSid'[t] = None /\ outcome'[t] # "ok"
  BY <1>0, <1>1 DEF TaskOK
<1>5. jar[b] \in [session : Sids \cup {None}, flow : Flows \cup {None}]
  BY <1>0 DEF TypeOK
<1>6. RequestOK(request[t])'
  BY <1>0, <1>1, <1>2, <1>5 DEF RequestOK, Request, JarOK
<1>7. PastOK(t)'
  BY <1>2, <1>3, <1>4 DEF PastOK, Swept, Matched, Dropped
<1>8. PlaceOK(t)'
  BY <1>1, <1>2, <1>3, <1>4 DEF PlaceOK
<1> QED
  BY <1>3, <1>4, <1>6, <1>7, <1>8 DEF TaskOK

LEMMA OwnStep ==
    ASSUME IInv, Grew, NEW t \in Tasks, TaskStep(t)
    PROVE  TaskOK(t)'
<1> DEFINE r == request[t]
<1>0. /\ TypeOK /\ TaskOK(t) /\ pc[t] \notin {"new", "done"}
      /\ request'[t] = request[t]
  BY DEF IInv, TaskStep, GetFlow, Exchange, DeleteOld, Create, SetSession, DropFlow,
     Respond, Fail
<1>1. /\ RequestOK(r) /\ PastOK(t) /\ PlaceOK(t)
      /\ outcome[t] # "ok"
  BY <1>0 DEF TaskOK
<1>2. RequestOK(request[t])'
  BY <1>0, <1>1, RequestStays DEF RequestOK
<1>3. SUFFICES /\ outcome'[t] = "ok" => pc'[t] = "done"
               /\ pc'[t] # "new"
               /\ PastOK(t)' /\ PlaceOK(t)'
  BY <1>2 DEF TaskOK
<1>4. /\ DOMAIN pc = Tasks /\ DOMAIN token = Tasks /\ DOMAIN newSid = Tasks
      /\ DOMAIN outcome = Tasks
  BY <1>0 DEF TypeOK
<1>5. CASE GetFlow(t)
  BY <1>0, <1>1, <1>4, <1>5
  DEF GetFlow, StateMatches, Go, idpVars, PastOK, PlaceOK, Swept, Matched, Dropped
<1>6. CASE Exchange(t)
  <2>1. token'[t] = codes[r.code].user /\ codes[r.code] \in Grant
    BY <1>0, <1>1, <1>4, <1>6 DEF Exchange, RequestOK, PlaceOK, Request, TypeOK
  <2>2. token'[t] \in Browsers
    BY <2>1 DEF Grant
  <2> QED
    BY <1>0, <1>1, <1>4, <1>6, <2>2
    DEF Exchange, Go, PastOK, PlaceOK, Swept, Matched, Dropped
<1>7. CASE DeleteOld(t)
  <2>1. pc'[t] = IF r.kind = "logout" THEN "respond" ELSE "create"
    BY <1>4, <1>7 DEF DeleteOld, Go
  <2>2. r.session \in removed' \cup {None}
    BY <1>7 DEF DeleteOld
  <2> QED
    BY <1>0, <1>1, <1>7, <2>1, <2>2
    DEF DeleteOld, idpVars, PastOK, PlaceOK, Swept, Matched, Dropped
<1>8. ASSUME NEW s \in Sids, Create(t, s)
      PROVE  /\ outcome'[t] = "ok" => pc'[t] = "done"
             /\ pc'[t] # "new" /\ PastOK(t)' /\ PlaceOK(t)'
  <2>1. pc'[t] = "set" /\ newSid'[t] = s /\ s # None /\ s \in drawn' /\ s # r.session
    BY <1>1, <1>4, <1>8, LoginAssumption DEF Create, Go, RequestOK
  <2> QED
    BY <1>0, <1>1, <1>8, <2>1
    DEF Create, idpVars, PastOK, PlaceOK, Swept, Matched, Dropped
<1>9. CASE SetSession(t)
  <2>1. pc'[t] = IF r.kind = "dev" THEN "respond" ELSE "drop"
    BY <1>4, <1>9 DEF SetSession, Go
  <2>2. pc'[t] = "drop" => r.kind = "callback"
    BY <1>1, <1>9, <2>1 DEF SetSession, PlaceOK, RequestOK, Request
  <2> QED
    BY <1>0, <1>1, <1>9, <2>1, <2>2
    DEF SetSession, idpVars, PastOK, PlaceOK, Swept, Matched, Dropped
<1>10. CASE DropFlow(t)
  BY <1>0, <1>1, <1>4, <1>10
  DEF DropFlow, Go, idpVars, PastOK, PlaceOK, Swept, Matched, Dropped
<1>11. CASE Respond(t)
  BY <1>0, <1>1, <1>4, <1>11
  DEF Respond, Go, idpVars, PastOK, PlaceOK, Swept, Matched, Dropped
<1>12. CASE Fail(t)
  BY <1>0, <1>1, <1>4, <1>12
  DEF Fail, Go, idpVars, PastOK, PlaceOK, Swept, Matched, Dropped
<1> QED
  BY <1>5, <1>6, <1>7, <1>8, <1>9, <1>10, <1>11, <1>12 DEF TaskStep

\* A step of one task is none of another.
LEMMA OthersWait ==
    ASSUME IInv, NEW u \in Tasks, NEW t \in Tasks, u # t,
           \/ TaskStep(u)
           \/ \E b \in Browsers :
                (\E c \in Codes : Callback(u, b, c)) \/ Dev(u, b) \/ Logout(u, b)
    PROVE  /\ pc'[t] = pc[t] /\ request'[t] = request[t] /\ token'[t] = token[t]
           /\ newSid'[t] = newSid[t] /\ outcome'[t] = outcome[t]
<1>1. /\ DOMAIN pc = Tasks /\ DOMAIN token = Tasks /\ DOMAIN newSid = Tasks
      /\ DOMAIN outcome = Tasks /\ DOMAIN request = Tasks
  BY DEF IInv, TypeOK
<1> QED
  BY <1>1 DEF TaskStep, GetFlow, Exchange, DeleteOld, Create, SetSession, DropFlow,
     Respond, Fail, Callback, Dev, Logout, Receive, Go, idpVars

LEMMA TasksStep ==
    ASSUME IInv, Grew, [Next]_vars, NEW t \in Tasks
    PROVE  TaskOK(t)'
<1>1. ASSUME NEW u \in Tasks, TaskStep(u)
      PROVE  TaskOK(t)'
  BY <1>1, OwnStep, OthersWait, WaitingStaysGood
<1>2. ASSUME NEW u \in Tasks, NEW b \in Browsers,
             (\E c \in Codes : Callback(u, b, c)) \/ Dev(u, b) \/ Logout(u, b)
      PROVE  TaskOK(t)'
  BY <1>2, ReceiveStep, OthersWait, WaitingStaysGood
<1>3. CASE UNCHANGED taskVars
  BY <1>3, WaitingStaysGood DEF taskVars
<1> QED
  BY <1>1, <1>2, <1>3, NextCases
  DEF Arrival, Expiry, Login, Authenticate, Expire, ExpireFlow, vars

-----------------------------------------------------------------------------
(* Cookies, ids and the store. *)

LEMMA JarStep ==
    ASSUME IInv, Grew, [Next]_vars
    PROVE  JarOK'
<1>0. TypeOK /\ JarOK /\ None \notin Browsers
  BY LoginAssumption DEF IInv
<1>1. CASE jar' = jar
  BY <1>0, <1>1 DEF JarOK, Grew, TypeOK
<1>2. ASSUME NEW b \in Browsers, NEW f \in Flows, Login(b, f)
      PROVE  JarOK'
  <2>1. started'[f] = b /\ \A a \in Browsers \ {b} : jar'[a] = jar[a]
    BY <1>0, <1>2 DEF Login, TypeOK
  <2>2. jar'[b].flow = f /\ jar'[b].session = jar[b].session
    BY <1>0, <1>2 DEF Login, TypeOK
  <2> QED
    BY <1>0, <2>1, <2>2 DEF JarOK, Grew, TypeOK
<1>3. ASSUME NEW t \in Tasks, Respond(t)
      PROVE  JarOK'
  <2> DEFINE b == request[t].browser
  <2>1. b \in Browsers /\ newSid[t] \in drawn \cup {None}
    BY <1>3 DEF Respond, IInv, TaskOK, RequestOK, PlaceOK, Request
  <2>2. /\ jar'[b].session = newSid[t] /\ jar'[b].flow \in {jar[b].flow, None}
        /\ \A a \in Browsers \ {b} : jar'[a] = jar[a]
    BY <1>0, <1>3, <2>1 DEF Respond, TypeOK
  <2>3. drawn' = drawn /\ started' = started
    BY <1>3 DEF Respond
  <2> QED
    BY <1>0, <2>1, <2>2, <2>3 DEF JarOK
<1> QED
  BY <1>1, <1>2, <1>3, NextCases
  DEF Arrival, Authenticate, Callback, Dev, Logout, TaskStep, GetFlow, Exchange,
      DeleteOld, Create, SetSession, DropFlow, Fail, Expiry, Expire, ExpireFlow, vars

\* Whatever id a task has was given out.
LEMMA NewSidDrawn ==
    ASSUME IInv, NEW t \in Tasks
    PROVE  newSid[t] \in drawn \cup {None}
BY DEF IInv, TaskOK, PlaceOK

LEMMA StoreStep ==
    ASSUME IInv, Grew, [Next]_vars
    PROVE  StoreOK'
<1>0. TypeOK /\ StoreOK
  BY DEF IInv
<1>1. CASE UNCHANGED <<sessions, drawn, removed>>
  BY <1>0, <1>1 DEF StoreOK, DeadStaysDead
<1>2. ASSUME NEW t \in Tasks, DeleteOld(t)
      PROVE  StoreOK'
  <2>1. request[t].session \in drawn \cup {None}
    BY <1>2 DEF DeleteOld, IInv, TaskOK, RequestOK
  <2> QED
    BY <1>0, <1>2, <2>1 DEF DeleteOld, StoreOK, DeadStaysDead, TypeOK
<1>3. ASSUME NEW t \in Tasks, NEW s \in Sids, Create(t, s)
      PROVE  StoreOK'
  BY <1>0, <1>3 DEF Create, StoreOK, DeadStaysDead, TypeOK
<1>4. ASSUME NEW t \in Tasks, SetSession(t)
      PROVE  StoreOK'
  <2>1. newSid[t] \in drawn /\ newSid[t] \notin removed
    BY <1>4 DEF SetSession, IInv, TaskOK, PlaceOK, Unseen
  <2> QED
    BY <1>0, <1>4, <2>1 DEF SetSession, StoreOK, DeadStaysDead, TypeOK
<1>5. ASSUME NEW s \in Sids, Expire(s)
      PROVE  StoreOK'
  BY <1>0, <1>5 DEF Expire, StoreOK, DeadStaysDead, TypeOK
<1> QED
  BY <1>1, <1>2, <1>3, <1>4, <1>5, NextCases
  DEF Arrival, Login, Authenticate, Callback, Dev, Logout, TaskStep, GetFlow, Exchange,
      DropFlow, Respond, Fail, Expiry, ExpireFlow, vars

LEMMA DistinctStep ==
    ASSUME IInv, [Next]_vars
    PROVE  Distinct'
<1>0. TypeOK /\ Distinct
  BY DEF IInv
<1>1. CASE newSid' = newSid
  BY <1>0, <1>1 DEF Distinct
<1>2. ASSUME NEW t \in Tasks, NEW s \in Sids, Create(t, s)
      PROVE  Distinct'
  <2>1. newSid' = [newSid EXCEPT ![t] = s] /\ s \notin drawn /\ s # None
    BY <1>2, LoginAssumption DEF Create
  <2>2. \A u \in Tasks : newSid[u] # s
    BY <2>1, NewSidDrawn
  <2> QED
    BY <1>0, <2>1, <2>2 DEF Distinct, TypeOK
<1> QED
  BY <1>1, <1>2, NextCases
  DEF Arrival, Login, Authenticate, Callback, Dev, Logout, TaskStep, GetFlow, Exchange,
      DeleteOld, SetSession, DropFlow, Respond, Fail, Expiry, Expire, ExpireFlow,
      taskVars, vars

\* Nobody is told of an id before its task answers, and the task answers nobody
\* with another's.
UnseenOf(t) ==
    pc[t] \in {"set", "drop", "respond"} /\ newSid[t] # None =>
        /\ \A b \in Browsers : jar[b].session # newSid[t]
        /\ \A u \in Tasks : pc[u] # "new" => request[u].session # newSid[t]
        /\ pc[t] = "set" => newSid[t] \notin removed

\* The step that draws the id.
LEMMA CreateUnseen ==
    ASSUME IInv, NEW t \in Tasks, NEW s \in Sids, Create(t, s)
    PROVE  UnseenOf(t)'
<1>1. /\ newSid'[t] = s /\ s \notin drawn /\ s # None
      /\ UNCHANGED <<jar, request, removed>>
      /\ \A u \in Tasks : pc'[u] # "new" => pc[u] # "new"
  BY LoginAssumption DEF Create, Go, IInv, TypeOK
<1>2. \A b \in Browsers : jar[b].session # s
  BY <1>1 DEF IInv, JarOK
<1>3. \A u \in Tasks : pc[u] # "new" => request[u].session # s
  BY <1>1 DEF IInv, TaskOK, RequestOK
<1> QED
  BY <1>1, <1>2, <1>3 DEF UnseenOf, IInv, StoreOK

\* Every other step leaves an unseen id unseen.
LEMMA OthersUnseen ==
    ASSUME IInv, Grew, [Next]_vars, NEW t \in Tasks, ~\E s \in Sids : Create(t, s)
    PROVE  UnseenOf(t)'
<1> SUFFICES ASSUME pc'[t] \in {"set", "drop", "respond"}, newSid'[t] # None
             PROVE  /\ \A b \in Browsers : jar'[b].session # newSid'[t]
                    /\ \A u \in Tasks : pc'[u] # "new" =>
                         request'[u].session # newSid'[t]
                    /\ pc'[t] = "set" => newSid'[t] \notin removed'
  BY DEF UnseenOf
<1>0. /\ TypeOK /\ UnseenOf(t) /\ TaskOK(t)
      /\ \A u \in Tasks : u # t /\ newSid[t] # None => newSid[u] # newSid[t]
  BY DEF IInv, Unseen, UnseenOf, Distinct
<1>1. /\ pc[t] \in {"set", "drop", "respond"} /\ newSid[t] # None
      /\ newSid'[t] = newSid[t]
      /\ pc'[t] = "set" => pc[t] = "set"
      /\ ~Respond(t)
  <2> DEFINE Held == /\ pc[t] \in {"set", "drop", "respond"} /\ newSid[t] # None
                     /\ newSid'[t] = newSid[t]
                     /\ pc'[t] = "set" => pc[t] = "set"
                     /\ ~Respond(t)
  <2>0. ~Respond(t)
    BY <1>0 DEF Respond, Go, TypeOK
  <2>1. CASE TaskStep(t)
    BY <1>0, <2>0, <2>1
    DEF TaskStep, GetFlow, Exchange, DeleteOld, SetSession, DropFlow, Fail, Go, TaskOK,
        PlaceOK, TypeOK
  <2>2. ASSUME NEW u \in Tasks, TaskStep(u), u # t PROVE Held
    BY <2>0, <2>2, OthersWait
  <2>3. ASSUME NEW u \in Tasks, NEW b \in Browsers,
               (\E c \in Codes : Callback(u, b, c)) \/ Dev(u, b) \/ Logout(u, b)
        PROVE  Held
    <3>1. u # t
      BY <1>0, <2>3 DEF Callback, Dev, Logout, Receive, Go, TypeOK
    <3> QED
      BY <2>0, <2>3, <3>1, OthersWait
  <2>4. CASE UNCHANGED taskVars
    BY <2>0, <2>4 DEF taskVars
  <2> QED
    BY <2>1, <2>2, <2>3, <2>4, NextCases
    DEF Arrival, Expiry, Login, Authenticate, Expire, ExpireFlow, vars
<1>2. /\ \A b \in Browsers : jar[b].session # newSid[t]
      /\ \A u \in Tasks : pc[u] # "new" => request[u].session # newSid[t]
      /\ pc[t] = "set" => newSid[t] \notin removed
  BY <1>0, <1>1 DEF UnseenOf
<1>3. \A b \in Browsers : jar'[b].session # newSid[t]
  <2>1. CASE jar' = jar
    BY <1>2, <2>1
  <2>2. ASSUME NEW b \in Browsers, NEW f \in Flows, Login(b, f)
        PROVE  \A a \in Browsers : jar'[a].session = jar[a].session
    BY <1>0, <2>2 DEF Login, TypeOK
  <2>3. ASSUME NEW u \in Tasks, Respond(u)
        PROVE  \A a \in Browsers : jar'[a].session \in {jar[a].session, newSid[u]}
    BY <1>0, <2>3 DEF Respond, TypeOK
  <2>4. \A u \in Tasks : Respond(u) => newSid[u] # newSid[t]
    BY <1>0, <1>1
  <2> QED
    BY <1>2, <2>1, <2>2, <2>3, <2>4, NextCases
    DEF Arrival, Authenticate, Callback, Dev, Logout, TaskStep, GetFlow, Exchange,
        DeleteOld, Create, SetSession, DropFlow, Fail, Expiry, Expire, ExpireFlow, vars
<1>4. \A u \in Tasks : pc'[u] # "new" => request'[u].session # newSid[t]
  <2> SUFFICES ASSUME NEW u \in Tasks, pc'[u] # "new"
               PROVE  request'[u].session # newSid[t]
    OBVIOUS
  <2>1. CASE request'[u] = request[u] /\ pc[u] # "new"
    BY <1>2, <2>1
  <2>2. ASSUME NEW b \in Browsers,
               (\E c \in Codes : Callback(u, b, c)) \/ Dev(u, b) \/ Logout(u, b)
        PROVE  request'[u].session = jar[b].session
    BY <1>0, <2>2 DEF Callback, Dev, Logout, Receive, TypeOK
  <2>3. CASE TaskStep(u)
    BY <2>1, <2>3 DEF TaskStep, GetFlow, Exchange, DeleteOld, Create, SetSession,
       DropFlow, Respond, Fail
  <2>4. ASSUME NEW v \in Tasks, v # u,
               \/ TaskStep(v)
               \/ \E b \in Browsers :
                    (\E c \in Codes : Callback(v, b, c)) \/ Dev(v, b) \/ Logout(v, b)
        PROVE  request'[u] = request[u] /\ pc[u] # "new"
    BY <2>4, OthersWait
  <2>5. CASE UNCHANGED taskVars
    BY <2>1, <2>5 DEF taskVars
  <2> QED
    BY <1>2, <2>1, <2>2, <2>3, <2>4, <2>5, NextCases
    DEF Arrival, Expiry, Login, Authenticate, Expire, ExpireFlow, vars
<1>5. pc'[t] = "set" => newSid[t] \notin removed'
  <2> SUFFICES ASSUME pc[t] = "set" PROVE newSid[t] \notin removed'
    BY <1>1
  <2>1. CASE removed' = removed
    BY <1>2, <2>1
  <2>2. ASSUME NEW u \in Tasks, DeleteOld(u)
        PROVE  newSid[t] \notin removed'
    BY <1>2, <2>2 DEF DeleteOld
  <2>3. ASSUME NEW s \in Sids, Expire(s)
        PROVE  newSid[t] \notin removed'
    BY <1>2, <2>3 DEF Expire
  <2> QED
    BY <2>1, <2>2, <2>3, NextCases
    DEF Arrival, Login, Authenticate, Callback, Dev, Logout, TaskStep, GetFlow,
        Exchange, Create, SetSession, DropFlow, Respond, Fail, Expiry, ExpireFlow, vars
<1> QED
  BY <1>1, <1>3, <1>4, <1>5

-----------------------------------------------------------------------------
(* The theorems. *)

LEMMA InitIInv == Init => IInv
<1> SUFFICES ASSUME Init PROVE IInv
  OBVIOUS
<1>1. TypeOK
  BY DEF Init, TypeOK
<1>2. JarOK /\ StoreOK /\ Distinct /\ Unseen
  BY DEF Init, JarOK, StoreOK, DeadStaysDead, Distinct, Unseen
<1>3. \A t \in Tasks : TaskOK(t)
  BY DEF Init, TaskOK
<1> QED
  BY <1>1, <1>2, <1>3 DEF IInv

LEMMA NextKeepsIInv == IInv /\ [Next]_vars => IInv'
<1> SUFFICES ASSUME IInv, [Next]_vars PROVE IInv'
  OBVIOUS
<1>1. Grew
  BY GrewStep
<1>2. TypeOK' /\ JarOK' /\ StoreOK' /\ Distinct'
  BY <1>1, TypeStep, JarStep, StoreStep, DistinctStep
<1>3. \A t \in Tasks : UnseenOf(t)'
  BY <1>1, CreateUnseen, OthersUnseen
<1>4. \A t \in Tasks : TaskOK(t)'
  BY <1>1, TasksStep
<1> QED
  BY <1>2, <1>3, <1>4 DEF IInv, Unseen, UnseenOf

\* The invariant is inductive, whatever browsers, records and answers do.
THEOREM Invariance == Spec => []IInv
BY InitIInv, NextKeepsIInv, PTL DEF Spec

\* Every variable of SessionLogin keeps its type.
THEOREM TypeCorrect == Spec => []TypeOK
<1>1. IInv => TypeOK
  BY DEF IInv
<1> QED
  BY <1>1, Invariance, PTL

\* An id that was rotated out, logged out or expired never opens a session again
\* (session.py:47-61, oidc.py:217-228).
THEOREM DeadForGood == Spec => []DeadStaysDead
<1>1. IInv => DeadStaysDead
  BY DEF IInv, StoreOK
<1> QED
  BY <1>1, Invariance, PTL

\* AMD-15: what is answered has left the session it came with
\* (oidc.py:205-221, 283-300).
THEOREM SignInSupersedes == Spec => []Superseded
<1>1. IInv => Superseded
  <2> SUFFICES ASSUME IInv, NEW t \in Tasks, outcome[t] = "ok",
                      request[t].session # None
               PROVE  /\ sessions[request[t].session] = None
                      /\ newSid[t] # request[t].session
    BY DEF Superseded
  <2>1. pc[t] = "done" /\ RequestOK(request[t]) /\ PastOK(t) /\ PlaceOK(t)
    BY DEF IInv, TaskOK
  <2>2. request[t].session \in removed
    BY <2>1 DEF PastOK, Swept
  <2> QED
    BY <2>1, <2>2 DEF IInv, StoreOK, DeadStaysDead, PlaceOK
<1> QED
  BY <1>1, Invariance, PTL

\* A sign-in ends in the browser it began in (oidc.py:170-182).
THEOREM SignInEndsWhereItBegan == Spec => []EndsWhereItBegan
<1>1. IInv => EndsWhereItBegan
  BY DEF IInv, TaskOK, RequestOK, PastOK, Matched, EndsWhereItBegan
<1> QED
  BY <1>1, Invariance, PTL

\* A login that was answered has used up its flow record (oidc.py:231).
THEOREM FlowIsUsedUp == Spec => []FlowUsedUp
<1>1. IInv => FlowUsedUp
  BY DEF IInv, TaskOK, PastOK, Dropped, FlowUsedUp
<1> QED
  BY <1>1, Invariance, PTL
==============================================================================
