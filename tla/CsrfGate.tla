------------------------------ MODULE CsrfGate ------------------------------
(***************************************************************************)
(* The double-submit token of src/portal/middleware/csrf_mw.py and         *)
(* auth/csrf.py, which every request passes: a cookie set with the first   *)
(* answer to a browser that has none, the same token in the pages it loads *)
(* (the routers' _csrf_token_from_cookie), and the check of both when a    *)
(* form is posted, whose body the middleware reads and hands on.           *)
(*                                                                         *)
(* A browser has several requests on their way; answers come back in any   *)
(* order or not at all, and a connection may break while a body is read.   *)
(***************************************************************************)
EXTENDS Naturals, FiniteSets

CONSTANTS
    Connections,    \* requests in progress at a time
    Windows,        \* browsers
    Tokens,
    MaxTokenAge,    \* ticks a token is good for
    FormSize,       \* chunks of a form; the first has the token
    Cap,            \* chunks the middleware buffers
    NoToken,
    NoRequest

VARIABLES
    jar,            \* the csrf cookie of each browser
    page,           \* the token in the form its page shows
    raced,          \* browsers that had two first requests on their way at once
    tokenAge,       \* ticks since each token was made
    made,           \* tokens made so far
    request,        \* what each connection carries
    reply           \* the answer on its way back: a cookie and a page

csrfVars == <<jar, page, raced, tokenAge, made, request, reply>>

\* got counts the chunks of a body that were read; state is how far it came.
Request ==
    [window : Windows, method : {"GET", "POST"}, cookie : Tokens \cup {NoToken},
     given : Tokens \cup {NoToken}, size : 0 .. FormSize, got : 0 .. FormSize,
     state : {"receiving", "received", "handled"}]

Reply == [window : Windows, cookie : Tokens \cup {NoToken}, page : Tokens \cup {NoToken}]

CsrfTypeOK ==
    /\ jar \in [Windows -> Tokens \cup {NoToken}]
    /\ page \in [Windows -> Tokens \cup {NoToken}]
    /\ raced \subseteq Windows
    /\ tokenAge \in [Tokens -> 0 .. MaxTokenAge + 1]
    /\ made \subseteq Tokens
    /\ request \in [Connections -> Request \cup {NoRequest}]
    /\ reply \in [Connections -> Reply \cup {NoRequest}]

Init ==
    /\ jar = [b \in Windows |-> NoToken]
    /\ page = [b \in Windows |-> NoToken]
    /\ raced = {}
    /\ tokenAge = [k \in Tokens |-> 0]
    /\ made = {}
    /\ request = [c \in Connections |-> NoRequest]
    /\ reply = [c \in Connections |-> NoRequest]

-----------------------------------------------------------------------------
Free(c) == request[c] = NoRequest /\ reply[c] = NoRequest

\* A first request is one that carries no cookie.
FirstOnItsWay(b) ==
    \E c \in Connections :
        \/ request[c] # NoRequest /\ request[c].window = b /\ request[c].cookie = NoToken
        \/ reply[c] # NoRequest /\ reply[c].window = b /\ reply[c].cookie # NoToken

Carry(c, b, method, given, size, state) ==
    request' = [request EXCEPT ![c] =
                   [window |-> b, method |-> method, cookie |-> jar[b],
                    given |-> given, size |-> size, got |-> 0, state |-> state]]

\* A browser asks for a page.
Get(c, b) ==
    /\ Free(c) /\ Carry(c, b, "GET", NoToken, 0, "received")
    /\ raced' = IF jar[b] = NoToken /\ FirstOnItsWay(b) THEN raced \cup {b} ELSE raced
    /\ UNCHANGED <<jar, page, tokenAge, made, reply>>

\* It posts the form of its page, in chunks; or gives the token in a header, and
\* the middleware leaves the body alone.
Post(c, b) ==
    /\ Free(c)
    /\ \/ \E size \in 1 .. FormSize : Carry(c, b, "POST", page[b], size, "receiving")
       \/ Carry(c, b, "POST", page[b], 0, "received")
    /\ UNCHANGED <<jar, page, raced, tokenAge, made, reply>>

Receiving(c) == request[c] # NoRequest /\ request[c].state = "receiving"

\* _read_full_body: another chunk, if the buffer may grow.
Chunk(c) ==
    LET q == request[c] IN
    /\ Receiving(c) /\ q.got < Cap
    /\ request' = [request EXCEPT ![c].got = q.got + 1,
                                  ![c].state = IF q.got + 1 = q.size THEN "received" ELSE @]
    /\ UNCHANGED <<jar, page, raced, tokenAge, made, reply>>

\* 413, before anything was handed on.
TooLarge(c) ==
    /\ Receiving(c) /\ request[c].got = Cap
    /\ request' = [request EXCEPT ![c] = NoRequest]
    /\ UNCHANGED <<jar, page, raced, tokenAge, made, reply>>

\* http.disconnect: what has come so far is taken for the body.
Disconnect(c) ==
    /\ Receiving(c)
    /\ request' = [request EXCEPT ![c].state = "received"]
    /\ UNCHANGED <<jar, page, raced, tokenAge, made, reply>>

-----------------------------------------------------------------------------
\* CsrfTokenManager.verify, of a token that has been made.
Verify(k) == k # NoToken /\ tokenAge[k] <= MaxTokenAge

\* The token of a form is found once its first chunk is there.
Given(q) == IF q.size > 0 /\ q.got = 0 THEN NoToken ELSE q.given

Matches(q) == Verify(q.cookie) /\ Verify(Given(q)) /\ q.cookie = Given(q)

Received(c) == request[c] # NoRequest /\ request[c].state = "received"

\* 403.
Refuse(c) ==
    /\ Received(c) /\ request[c].method = "POST" /\ ~Matches(request[c])
    /\ request' = [request EXCEPT ![c] = NoRequest]
    /\ UNCHANGED <<jar, page, raced, tokenAge, made, reply>>

\* The handler is called, with what was read of the body.
Handle(c) ==
    /\ Received(c) /\ (request[c].method = "POST" => Matches(request[c]))
    /\ request' = [request EXCEPT ![c].state = "handled"]
    /\ UNCHANGED <<jar, page, raced, tokenAge, made, reply>>

\* Mutant: every page brings a fresh cookie.
NeedsToken_Always(q) == q.method = "GET"

NeedsToken(q) == q.method = "GET" /\ q.cookie = NoToken

\* The answer: its page has the token the request came with, and a browser that
\* came without gets a cookie.
Answer(c) ==
    LET q == request[c] IN
    /\ q # NoRequest /\ q.state = "handled"
    /\ IF NeedsToken(q)
       THEN \E k \in Tokens \ made :
              /\ made' = made \cup {k}
              /\ tokenAge' = [tokenAge EXCEPT ![k] = 0]
              /\ reply' = [reply EXCEPT ![c] =
                              [window |-> q.window, cookie |-> k, page |-> q.cookie]]
       ELSE /\ reply' = [reply EXCEPT ![c] =
                            [window |-> q.window, cookie |-> NoToken, page |-> q.cookie]]
            /\ UNCHANGED <<tokenAge, made>>
    /\ request' = [request EXCEPT ![c] = NoRequest]
    /\ UNCHANGED <<jar, page, raced>>

\* The browser takes it, or it is lost.
Arrive(c) ==
    LET a == reply[c] IN
    /\ a # NoRequest
    /\ jar' = IF a.cookie = NoToken THEN jar ELSE [jar EXCEPT ![a.window] = a.cookie]
    /\ page' = [page EXCEPT ![a.window] = a.page]
    /\ reply' = [reply EXCEPT ![c] = NoRequest]
    /\ UNCHANGED <<raced, tokenAge, made, request>>

Lost(c) ==
    /\ reply[c] # NoRequest
    /\ reply' = [reply EXCEPT ![c] = NoRequest]
    /\ UNCHANGED <<jar, page, raced, tokenAge, made, request>>

Tick ==
    /\ tokenAge' = [k \in Tokens |->
                       IF k \in made /\ tokenAge[k] <= MaxTokenAge
                       THEN tokenAge[k] + 1 ELSE tokenAge[k]]
    /\ UNCHANGED <<jar, page, raced, made, request, reply>>

RequestStep(c) ==
    \/ Chunk(c) \/ TooLarge(c) \/ Disconnect(c) \/ Refuse(c) \/ Handle(c)
    \/ Answer(c) \/ Arrive(c) \/ Lost(c)

Next ==
    \/ \E c \in Connections, b \in Windows : Get(c, b) \/ Post(c, b)
    \/ \E c \in Connections : RequestStep(c)
    \/ Tick

Spec == Init /\ [][Next]_csrfVars

-----------------------------------------------------------------------------
\* Pages and cookie agree: whatever order answers come in, the form a browser
\* shows has the token of its cookie, or none if it was its first page; only two
\* first requests at once can part them (csrf_mw.py:266-276, gates.py:94-95).
PagesAgree ==
    \A b \in Windows : page[b] \in {NoToken, jar[b]} \/ b \in raced
=============================================================================
