----------------------------- MODULE PortalProofs -----------------------------
(***************************************************************************)
(* The safety of the parts that MCPortal puts side by side, for every      *)
(* value of the constants that MCPortal and PdfExport assume: the form     *)
(* token, documents as PDF, long exports and the pages of projects, the    *)
(* deadlines.  SessionLoginProofs has that of signing in.                  *)
(*                                                                         *)
(* Every part has an invariant of its own, and the last theorem puts them  *)
(* together for MCSpec, in which one part works at a time.                 *)
(***************************************************************************)
EXTENDS MCPortal, SessionLoginProofs, Integers, FiniteSetTheorems, SequenceTheorems

-----------------------------------------------------------------------------
(* The form token: the inductive invariant. *)

\* A request of window b for its first page, or the cookie it was answered with, is
\* at c.
FirstAt(c, b) ==
    \/ /\ carried[c] # NoRequest /\ carried[c].window = b
       /\ carried[c].method = "GET" /\ carried[c].cookie = NoToken
    \/ /\ reply[c] # NoRequest /\ reply[c].window = b
       /\ reply[c].cookie # NoToken

\* What a connection carries, out or back, for a window that did not race.
CarriedOK(c) ==
    carried[c] # NoRequest =>
        /\ carried[c].window \notin raced =>
               carried[c].cookie \in {NoToken, tokenJar[carried[c].window]}
        /\ carried[c].state = "receiving" => carried[c].got < carried[c].size
        /\ carried[c].method = "GET" => carried[c].state # "receiving"

RepliedOK(c) ==
    reply[c] # NoRequest /\ reply[c].window \notin raced =>
        reply[c].page \in {NoToken, tokenJar[reply[c].window]}

\* A window that did not race has one first request on its way, and none once it has
\* a cookie.
WindowOK(b) ==
    b \notin raced =>
        /\ page[b] \in {NoToken, tokenJar[b]}
        /\ \A c, d \in Connections : FirstAt(c, b) /\ FirstAt(d, b) => c = d
        /\ tokenJar[b] # NoToken => \A c \in Connections : ~FirstAt(c, b)

CsrfInv ==
    /\ C!CsrfTypeOK
    /\ \A c \in Connections : carried[c] = NoRequest \/ reply[c] = NoRequest
    /\ \A c \in Connections : CarriedOK(c) /\ RepliedOK(c)
    /\ \A b \in Windows : WindowOK(b)

LEMMA CsrfInit == C!Init => CsrfInv
<1> SUFFICES ASSUME C!Init PROVE CsrfInv
  OBVIOUS
<1>1. C!CsrfTypeOK
  BY CsrfAssumption DEF C!Init, C!CsrfTypeOK
<1>2. \A c \in Connections : CarriedOK(c) /\ RepliedOK(c)
  BY DEF C!Init, CarriedOK, RepliedOK
<1>3. \A b \in Windows : WindowOK(b)
  BY DEF C!Init, WindowOK, FirstAt
<1> QED
  BY <1>1, <1>2, <1>3 DEF CsrfInv, C!Init

-----------------------------------------------------------------------------
(* The form token: what a step does. *)

\* A window sends a request: for a page, or a form.
LEMMA CarryStep ==
    ASSUME CsrfInv, NEW c \in Connections, NEW b \in Windows, C!Get(c, b) \/ C!Post(c, b)
    PROVE  CsrfInv'
<1>1. PICK q \in C!Request :
        /\ carried' = [carried EXCEPT ![c] = q] /\ q.window = b /\ q.cookie = tokenJar[b]
        /\ q.state = "receiving" => q.got < q.size /\ q.method = "POST"
        /\ q.method = "POST" => raced' = raced
        /\ q.method = "GET" =>
             raced' = IF tokenJar[b] = NoToken /\ C!FirstOnItsWay(b)
                      THEN raced \cup {b} ELSE raced
  <2>1. CASE C!Get(c, b)
    <3> DEFINE q == [window |-> b, method |-> "GET", cookie |-> tokenJar[b],
                     given |-> NoToken, size |-> 0, got |-> 0, state |-> "received"]
    <3>1. q \in C!Request
      BY CsrfAssumption DEF CsrfInv, C!CsrfTypeOK, C!Request
    <3> QED
      BY <2>1, <3>1 DEF C!Get, C!Carry
  <2>2. ASSUME C!Post(c, b), NEW size \in 0 .. FormSize,
               NEW s \in {"receiving", "received"}, s = "receiving" => size > 0,
               C!Carry(c, b, "POST", page[b], size, s)
        PROVE  \E q \in C!Request :
                  /\ carried' = [carried EXCEPT ![c] = q] /\ q.window = b
                  /\ q.cookie = tokenJar[b] /\ q.method = "POST"
                  /\ q.state = "receiving" => q.got < q.size
    <3> DEFINE q == [window |-> b, method |-> "POST", cookie |-> tokenJar[b],
                     given |-> page[b], size |-> size, got |-> 0, state |-> s]
    <3>1. q \in C!Request
      BY CsrfAssumption DEF CsrfInv, C!CsrfTypeOK, C!Request
    <3> QED
      BY <2>2, <3>1 DEF C!Carry
  <2>3. ASSUME C!Post(c, b)
        PROVE  \E q \in C!Request :
                  /\ carried' = [carried EXCEPT ![c] = q] /\ q.window = b
                  /\ q.cookie = tokenJar[b] /\ q.method = "POST"
                  /\ q.state = "receiving" => q.got < q.size
    <3>1. CASE \E size \in 1 .. FormSize :
                  C!Carry(c, b, "POST", page[b], size, "receiving")
      BY <2>2, <2>3, <3>1, CsrfAssumption
    <3>2. CASE C!Carry(c, b, "POST", page[b], 0, "received")
      BY <2>2, <2>3, <3>2, CsrfAssumption
    <3> QED
      BY <2>3, <3>1, <3>2 DEF C!Post
  <2> QED
    BY <2>1, <2>3 DEF C!Post
<1>2. UNCHANGED <<tokenJar, page, tokenAge, made, reply>> /\ C!Free(c)
  BY DEF C!Get, C!Post
<1>3. C!CsrfTypeOK'
  BY <1>1, <1>2 DEF CsrfInv, C!CsrfTypeOK, C!Request
<1>4. raced \subseteq raced' /\ (raced' = raced \/ raced' = raced \cup {b})
  BY <1>1 DEF C!Request
<1>5. ASSUME NEW d \in Connections PROVE CarriedOK(d)' /\ RepliedOK(d)'
  BY <1>1, <1>2, <1>4 DEF CsrfInv, C!CsrfTypeOK, CarriedOK, RepliedOK
<1>6. \A d \in Connections, w \in Windows :
          FirstAt(d, w)' =>
              \/ FirstAt(d, w)
              \/ /\ d = c /\ w = b /\ tokenJar[b] = NoToken
                 /\ C!FirstOnItsWay(b) => b \in raced'
  BY <1>1, <1>2 DEF CsrfInv, C!CsrfTypeOK, FirstAt
<1>7. \A d \in Connections : FirstAt(d, b) => C!FirstOnItsWay(b)
  BY DEF FirstAt, C!FirstOnItsWay
<1>8. ~FirstAt(c, b)
  BY <1>2 DEF FirstAt, C!Free
<1>9. ASSUME NEW w \in Windows PROVE WindowOK(w)'
  <2>1. CASE w # b \/ tokenJar[b] # NoToken \/ C!FirstOnItsWay(b)
    <3>1. \/ w \in raced'
          \/ \A d \in Connections : FirstAt(d, w)' => FirstAt(d, w)
      BY <1>6, <2>1
    <3> QED
      BY <1>2, <1>4, <3>1 DEF WindowOK, CsrfInv
  <2>2. CASE w = b /\ tokenJar[b] = NoToken /\ ~C!FirstOnItsWay(b)
    <3>1. \A d \in Connections : FirstAt(d, w)' => d = c
      BY <1>6, <1>7, <2>2
    <3> QED
      BY <1>2, <1>4, <2>2, <3>1 DEF WindowOK, CsrfInv
  <2> QED
    BY <2>1, <2>2
<1>10. \A d \in Connections : carried'[d] = NoRequest \/ reply'[d] = NoRequest
  BY <1>1, <1>2 DEF CsrfInv, C!CsrfTypeOK, C!Free
<1> QED
  BY <1>3, <1>5, <1>9, <1>10 DEF CsrfInv

\* The middleware reads on, breaks off, refuses, or calls the handler; or an answer
\* is lost: no request is first that was not.
LEMMA PassStep ==
    ASSUME CsrfInv, NEW c \in Connections,
           \/ C!Chunk(c) \/ C!TooLarge(c) \/ C!Disconnect(c) \/ C!Refuse(c)
           \/ C!Handle(c) \/ C!Lost(c)
    PROVE  CsrfInv'
<1>0. UNCHANGED <<tokenJar, page, raced, tokenAge, made>>
  BY DEF C!Chunk, C!TooLarge, C!Disconnect, C!Refuse, C!Handle, C!Lost
<1>1. C!CsrfTypeOK' /\ \A d \in Connections : CarriedOK(d)'
  <2>1. CASE C!Chunk(c)
    <3>1. carried[c] \in C!Request /\ carried[c].got + 1 \in 0 .. FormSize
      BY <2>1, CsrfAssumption DEF C!Chunk, C!Receiving, CsrfInv, C!CsrfTypeOK, CarriedOK,
         C!Request
    <3> DEFINE q == [carried[c] EXCEPT !.got = carried[c].got + 1,
                                       !.state = IF carried[c].got + 1 = carried[c].size
                                                 THEN "received" ELSE @]
    <3>2. q \in C!Request
      BY <3>1 DEF C!Request
    <3>3. carried' = [carried EXCEPT ![c] = q]
      BY <2>1, <3>1 DEF C!Chunk, CsrfInv, C!CsrfTypeOK, C!Request
    <3>4. C!CsrfTypeOK'
      BY <1>0, <2>1, <3>2, <3>3 DEF C!Chunk, CsrfInv, C!CsrfTypeOK
    <3>5. /\ q.window = carried[c].window /\ q.cookie = carried[c].cookie
          /\ q.method = carried[c].method
          /\ q.state = "receiving" => q.got < q.size
      BY <2>1, <3>1 DEF C!Chunk, C!Receiving, CsrfInv, CarriedOK, C!Request
    <3>6. \A d \in Connections : CarriedOK(d)'
      BY <1>0, <2>1, <3>3, <3>5 DEF C!Chunk, C!Receiving, CsrfInv, C!CsrfTypeOK, CarriedOK
    <3> QED
      BY <3>4, <3>6
  <2>2. CASE C!TooLarge(c) \/ C!Refuse(c)
    BY <1>0, <2>2 DEF C!TooLarge, C!Refuse, CsrfInv, C!CsrfTypeOK, CarriedOK
  <2>3. CASE C!Disconnect(c) \/ C!Handle(c)
    BY <1>0, <2>3 DEF C!Disconnect, C!Handle, C!Receiving, C!Received, CsrfInv,
       C!CsrfTypeOK, CarriedOK, C!Request
  <2>4. CASE C!Lost(c)
    BY <1>0, <2>4 DEF C!Lost, CsrfInv, C!CsrfTypeOK, CarriedOK
  <2> QED
    BY <2>1, <2>2, <2>3, <2>4
<1>2. \A d \in Connections :
        /\ carried'[d] # NoRequest =>
             /\ carried[d] # NoRequest /\ carried'[d].window = carried[d].window
             /\ carried'[d].method = carried[d].method
             /\ carried'[d].cookie = carried[d].cookie
        /\ reply'[d] # NoRequest => reply'[d] = reply[d]
  BY DEF C!Chunk, C!TooLarge, C!Disconnect, C!Refuse, C!Handle, C!Lost, C!Receiving,
     C!Received, CsrfInv, C!CsrfTypeOK, C!Request
<1>3. \A d \in Connections, w \in Windows : FirstAt(d, w)' => FirstAt(d, w)
  BY <1>2 DEF FirstAt
<1>4. \A w \in Windows : WindowOK(w)'
  BY <1>0, <1>3 DEF CsrfInv, WindowOK
<1>5. \A d \in Connections :
        RepliedOK(d)' /\ (carried'[d] = NoRequest \/ reply'[d] = NoRequest)
  BY <1>0, <1>2 DEF CsrfInv, RepliedOK
<1> QED
  BY <1>1, <1>4, <1>5 DEF CsrfInv

\* The answer goes back where the request came from.
LEMMA AnswerStep ==
    ASSUME CsrfInv, NEW c \in Connections, C!Answer(c)
    PROVE  CsrfInv'
<1> DEFINE q == carried[c]
<1>0. /\ q \in C!Request /\ reply[c] = NoRequest
      /\ UNCHANGED <<tokenJar, page, raced>>
      /\ carried' = [carried EXCEPT ![c] = NoRequest]
  BY DEF C!Answer, CsrfInv, C!CsrfTypeOK
<1>1. PICK a \in C!Reply :
        /\ reply' = [reply EXCEPT ![c] = a] /\ a.window = q.window /\ a.page = q.cookie
        /\ a.cookie # NoToken => q.method = "GET" /\ q.cookie = NoToken
        /\ tokenAge' \in [Tokens -> 0 .. MaxTokenAge + 1] /\ made' \subseteq Tokens
  <2>1. CASE C!NeedsToken(q)
    <3>1. PICK k \in Tokens \ made :
            /\ made' = made \cup {k}
            /\ tokenAge' = [tokenAge EXCEPT ![k] = 0]
            /\ reply' = [reply EXCEPT ![c] =
                            [window |-> q.window, cookie |-> k, page |-> q.cookie]]
      BY <2>1 DEF C!Answer
    <3>2. [window |-> q.window, cookie |-> k, page |-> q.cookie] \in C!Reply
      BY <1>0 DEF C!Reply, C!Request
    <3>3. tokenAge' \in [Tokens -> 0 .. MaxTokenAge + 1] /\ made' \subseteq Tokens
      BY <3>1, CsrfAssumption DEF CsrfInv, C!CsrfTypeOK
    <3> QED
      BY <2>1, <3>1, <3>2, <3>3 DEF C!NeedsToken
  <2>2. CASE ~C!NeedsToken(q)
    <3>1. [window |-> q.window, cookie |-> NoToken, page |-> q.cookie] \in C!Reply
      BY <1>0 DEF C!Reply, C!Request
    <3> QED
      BY <2>2, <3>1 DEF C!Answer, CsrfInv, C!CsrfTypeOK
  <2> QED
    BY <2>1, <2>2
<1>2. C!CsrfTypeOK'
  BY <1>0, <1>1 DEF CsrfInv, C!CsrfTypeOK
<1>3. \A d \in Connections, w \in Windows : FirstAt(d, w)' => FirstAt(d, w)
  BY <1>0, <1>1 DEF FirstAt, CsrfInv, C!CsrfTypeOK, C!Answer
<1>4. \A w \in Windows : WindowOK(w)'
  BY <1>0, <1>3 DEF CsrfInv, WindowOK
<1>5. \A d \in Connections : CarriedOK(d)' /\ RepliedOK(d)'
  BY <1>0, <1>1 DEF CsrfInv, C!CsrfTypeOK, C!Answer, CarriedOK, RepliedOK
<1>6. \A d \in Connections : carried'[d] = NoRequest \/ reply'[d] = NoRequest
  BY <1>0, <1>1 DEF CsrfInv, C!CsrfTypeOK
<1> QED
  BY <1>2, <1>4, <1>5, <1>6 DEF CsrfInv

\* An answer arrives.  If it brings a cookie to a window that did not race, the window
\* had none, and all that was sent or answered to it was without a token.
LEMMA ArriveStep ==
    ASSUME CsrfInv, NEW c \in Connections, C!Arrive(c)
    PROVE  CsrfInv'
<1> DEFINE a == reply[c]
<1>0. /\ a \in C!Reply /\ carried[c] = NoRequest
      /\ UNCHANGED <<raced, tokenAge, made, carried>>
      /\ reply' = [reply EXCEPT ![c] = NoRequest]
      /\ tokenJar' = IF a.cookie = NoToken THEN tokenJar
                     ELSE [tokenJar EXCEPT ![a.window] = a.cookie]
      /\ page' = [page EXCEPT ![a.window] = a.page]
  BY DEF C!Arrive, CsrfInv, C!CsrfTypeOK
<1>1. C!CsrfTypeOK'
  BY <1>0 DEF CsrfInv, C!CsrfTypeOK, C!Reply
<1>2. \A d \in Connections, w \in Windows : FirstAt(d, w)' => FirstAt(d, w) /\ d # c
  BY <1>0 DEF FirstAt, CsrfInv, C!CsrfTypeOK
<1>3. \A w \in Windows : tokenJar'[w] # tokenJar[w] =>
          w = a.window /\ FirstAt(c, w) /\ (w \notin raced => tokenJar[w] = NoToken)
  BY <1>0 DEF FirstAt, CsrfInv, WindowOK, C!CsrfTypeOK, C!Arrive
<1>4. \A w \in Windows : w \notin raced =>
          {NoToken, tokenJar[w]} \subseteq {NoToken, tokenJar'[w]}
  BY <1>3
<1>5. \A d \in Connections : CarriedOK(d)' /\ RepliedOK(d)'
  <2> SUFFICES ASSUME NEW d \in Connections PROVE CarriedOK(d)' /\ RepliedOK(d)'
    OBVIOUS
  <2>1. carried[d] # NoRequest => carried[d].window \in Windows
    BY DEF CsrfInv, C!CsrfTypeOK, C!Request
  <2>2. reply[d] # NoRequest => reply[d].window \in Windows
    BY DEF CsrfInv, C!CsrfTypeOK, C!Reply
  <2>3. CarriedOK(d)'
    BY <1>0, <1>4, <2>1 DEF CsrfInv, CarriedOK
  <2>4. RepliedOK(d)'
    BY <1>0, <1>4, <2>2 DEF CsrfInv, RepliedOK, C!CsrfTypeOK
  <2> QED
    BY <2>3, <2>4
<1>6. ASSUME NEW w \in Windows PROVE WindowOK(w)'
  <2>1. w \notin raced => page'[w] \in {NoToken, tokenJar'[w]}
    <3>1. CASE w = a.window
      BY <1>0, <1>4, <3>1 DEF CsrfInv, RepliedOK, C!CsrfTypeOK, C!Arrive
    <3>2. CASE w # a.window
      BY <1>0, <1>4, <3>2 DEF CsrfInv, WindowOK, C!CsrfTypeOK
    <3> QED
      BY <3>1, <3>2
  <2>2. w \notin raced /\ tokenJar'[w] # NoToken => \A d \in Connections : ~FirstAt(d, w)'
    BY <1>2, <1>3 DEF CsrfInv, WindowOK
  <2> QED
    BY <1>0, <1>2, <2>1, <2>2 DEF CsrfInv, WindowOK
<1>7. \A d \in Connections : carried'[d] = NoRequest \/ reply'[d] = NoRequest
  BY <1>0 DEF CsrfInv, C!CsrfTypeOK
<1> QED
  BY <1>1, <1>5, <1>6, <1>7 DEF CsrfInv

LEMMA CsrfStep == CsrfInv /\ [C!Next]_(C!csrfVars) => CsrfInv'
<1> SUFFICES ASSUME CsrfInv, [C!Next]_(C!csrfVars) PROVE CsrfInv'
  OBVIOUS
<1>1. CASE UNCHANGED <<tokenJar, page, raced, made, carried, reply>>
           /\ tokenAge' \in [Tokens -> 0 .. MaxTokenAge + 1]
  BY <1>1 DEF CsrfInv, C!CsrfTypeOK, CarriedOK, RepliedOK, WindowOK, FirstAt
<1>2. CASE C!Tick
  BY <1>1, <1>2, CsrfAssumption DEF C!Tick, CsrfInv, C!CsrfTypeOK
<1>3. CASE UNCHANGED C!csrfVars
  BY <1>1, <1>3 DEF C!csrfVars, CsrfInv, C!CsrfTypeOK
<1> QED
  BY <1>2, <1>3, CarryStep, PassStep, AnswerStep, ArriveStep DEF C!Next, C!RequestStep

\* The form that a window shows has the token of its cookie, or none, unless two first
\* requests of the window were on their way at once (csrf_mw.py:266-276).
THEOREM PagesAlwaysAgree == C!Spec => []PagesAgree
<1>1. CsrfInv => PagesAgree
  BY DEF CsrfInv, WindowOK, PagesAgree, C!PagesAgree
<1> QED
  BY <1>1, CsrfInit, CsrfStep, PTL DEF C!Spec

-----------------------------------------------------------------------------
(* Documents as PDF: the inductive invariant. *)

\* The PDF of an entry is of the document and bears the mark its key names.
Stamped(e) ==
    /\ e.pdf.document = e.key.document
    /\ e.pdf.mark = e.key.mark

\* No part was superseded more than n ticks ago.
Within(d, parts, n) ==
    \A i \in 1 .. Len(parts) : parts[i] # NoVersion => stale[d][parts[i]] <= n

\* A clock runs while a document is read, and from nought while it is rendered.
JobOK(j) ==
    /\ Len(j.parts) <= Reads(j.document)
    /\ j.age <= IF j.rendering THEN RenderTimeout ELSE ReadTimeout
    /\ Within(j.document, j.parts, IF j.rendering THEN ReadTimeout + j.age ELSE j.age)

EntryOK(e) ==
    /\ e.age < Ttl
    /\ Stamped(e)
    /\ Within(e.pdf.document, e.pdf.parts, ReadTimeout + RenderTimeout + e.age)

AnswerOK(a) ==
    /\ a.pdf.document = a.job.document
    /\ a.pdf.mark = MarkOf(a.job.caller)
    /\ \A i \in 1 .. Len(a.pdf.parts) : a.pdf.parts[i] # NoVersion =>
         stale[a.pdf.document][a.pdf.parts[i]] < Ttl + RenderTimeout + ReadTimeout

Entry == [key : Keys, pdf : Pdf, age : Nat]
Answer == [job : Job, pdf : Pdf]

PdfTyped ==
    /\ component \in [Documents -> Exported]
    /\ version \in [Documents -> Version]
    /\ stale \in [Documents -> [Version -> 0 .. MaxStale]]
    /\ job \in [Exporters -> Job \cup {NoRequest}]
    /\ store \subseteq Entry
    /\ answer \in Answer \cup {NoRequest}

\* A version that is no older than the document's own is not stale.
CurrentIsFresh ==
    \A d \in Documents, v \in Version : v >= version[d] => stale[d][v] = 0

PdfInv ==
    /\ PdfTyped
    /\ IsFiniteSet(store) /\ Cardinality(store) <= MaxEntries
    /\ CurrentIsFresh
    /\ \A x \in Exporters : job[x] # NoRequest => JobOK(job[x])
    /\ \A e \in store : EntryOK(e)
    /\ answer # NoRequest => AnswerOK(answer)

LEMMA PdfInvImplies == PdfInv => PdfTypeOK /\ Watermarked /\ StaleIsBounded
<1> SUFFICES ASSUME PdfInv PROVE PdfTypeOK /\ Watermarked /\ StaleIsBounded
  OBVIOUS
<1>1. PdfTypeOK
  BY DEF PdfInv, PdfTyped, PdfTypeOK, JobOK, EntryOK, Entry, Answer
<1>2. Watermarked /\ StaleIsBounded
  BY DEF PdfInv, AnswerOK, Watermarked, StaleIsBounded
<1> QED
  BY <1>1, <1>2

LEMMA PdfInitInv == PdfInit => PdfInv
<1> SUFFICES ASSUME PdfInit PROVE PdfInv
  OBVIOUS
<1>1. PdfTyped /\ CurrentIsFresh
  BY PdfAssumption DEF PdfInit, PdfTyped, CurrentIsFresh, Version, MaxStale
<1>2. IsFiniteSet(store) /\ Cardinality(store) <= MaxEntries
  BY FS_EmptySet, PdfAssumption DEF PdfInit
<1> QED
  BY <1>1, <1>2 DEF PdfInit, PdfInv

-----------------------------------------------------------------------------
(* Documents as PDF: lemmas about parts, and about the cache. *)

LEMMA NoParts == <<>> \in Parts /\ Len(<<>>) = 0
<1>1. <<>> \in [1 .. 0 -> Version \cup {NoVersion}]
  OBVIOUS
<1> QED
  BY <1>1 DEF Parts

\* Another part fits while there are fewer than three.
LEMMA AnotherPart ==
    ASSUME NEW ps \in Parts, NEW v \in Version \cup {NoVersion}, Len(ps) < 3
    PROVE  /\ Append(ps, v) \in Parts
           /\ Len(ps) \in Nat /\ Len(Append(ps, v)) = Len(ps) + 1
           /\ \A i \in 1 .. Len(ps) : Append(ps, v)[i] = ps[i]
           /\ Append(ps, v)[Len(ps) + 1] = v
<1>1. PICK n \in 0 .. 3 : ps \in [1 .. n -> Version \cup {NoVersion}]
  BY DEF Parts
<1>2. ps \in Seq(Version \cup {NoVersion}) /\ Len(ps) = n
  BY <1>1
<1>3. /\ Append(ps, v) \in [1 .. n + 1 -> Version \cup {NoVersion}]
      /\ Len(Append(ps, v)) = n + 1
      /\ \A i \in 1 .. n : Append(ps, v)[i] = ps[i]
      /\ Append(ps, v)[n + 1] = v
  <2>1. /\ Append(ps, v) \in Seq(Version \cup {NoVersion})
        /\ Len(Append(ps, v)) = n + 1
        /\ \A i \in 1 .. n : Append(ps, v)[i] = ps[i]
        /\ Append(ps, v)[n + 1] = v
    BY <1>2, AppendProperties
  <2> QED
    BY <2>1, LenProperties
<1>4. n + 1 \in 0 .. 3
  BY <1>2
<1> QED
  BY <1>2, <1>3, <1>4 DEF Parts

\* A document is read in three calls at most.
LEMMA ReadsAreFew ==
    ASSUME PdfTyped, NEW d \in Documents
    PROVE  Reads(d) \in 1 .. 3
<1>1. component[d] \in DOMAIN Registry
  BY PdfAssumption DEF PdfTyped
<1>2. \A k \in DOMAIN Registry : Registry[k].reads \in 1 .. 3
  BY DEF Registry, Registered, AuditEvent, SessionTimeline, DsrRecord, RegulatoryReport,
     IncidentReport, ProcessKnowledge, ModelCard, OutcomeSummary, EvidencePackage,
     GateReceipt, DashboardSnapshot, ProjectDoc
<1> QED
  BY <1>1, <1>2 DEF Reads

\* A put leaves the others, one fewer when there is no room, and the new entry.
LEMMA PutStep ==
    ASSUME PdfTyped, IsFiniteSet(store), Cardinality(store) <= MaxEntries,
           \A e \in store : EntryOK(e),
           NEW k \in Keys, NEW pdf \in Pdf, Put(k, pdf),
           stale' = stale, EntryOK([key |-> k, pdf |-> pdf, age |-> 0])
    PROVE  /\ store' \subseteq Entry
           /\ IsFiniteSet(store') /\ Cardinality(store') <= MaxEntries
           /\ \A e \in store' : EntryOK(e)'
<1> DEFINE others == store \ Cached(k)
           entry == [key |-> k, pdf |-> pdf, age |-> 0]
<1>1. PICK kept \in SUBSET others :
        store' = kept \cup {entry} /\ Cardinality(kept) < MaxEntries
  <2>1. CASE Cardinality(others) < MaxEntries
    BY <2>1 DEF Put
  <2>2. ASSUME ~(Cardinality(others) < MaxEntries)
        PROVE  \E e \in others : store' = (others \ {e}) \cup {entry}
    BY <2>2, Zenon DEF Put
  <2>3. ASSUME ~(Cardinality(others) < MaxEntries), NEW e \in others
        PROVE  Cardinality(others \ {e}) < MaxEntries
    <3>1. IsFiniteSet(others) /\ Cardinality(others) <= Cardinality(store)
      BY FS_Subset
    <3>2. Cardinality(others \ {e}) = Cardinality(others) - 1
      BY <3>1, FS_RemoveElement
    <3> QED
      BY <3>1, <3>2, FS_CardinalityType, PdfAssumption
  <2> QED
    BY <2>1, <2>2, <2>3
<1>2. IsFiniteSet(kept) /\ kept \subseteq store
  BY FS_Subset
<1>3. IsFiniteSet(store') /\ Cardinality(store') <= MaxEntries
  <2>1. /\ IsFiniteSet(kept \cup {entry})
        /\ Cardinality(kept \cup {entry}) \in {Cardinality(kept), Cardinality(kept) + 1}
    BY <1>2, FS_AddElement
  <2>2. Cardinality(kept) \in Nat
    BY <1>2, FS_CardinalityType
  <2> QED
    BY <1>1, <2>1, <2>2, PdfAssumption
<1>4. entry \in Entry
  BY DEF Entry
<1>5. \A e \in store' : EntryOK(e)
  BY <1>1, <1>2
<1>6. \A e : EntryOK(e)' <=> EntryOK(e)
  BY DEF EntryOK, Stamped, Within
<1> QED
  BY <1>1, <1>2, <1>3, <1>4, <1>5, <1>6 DEF PdfTyped

-----------------------------------------------------------------------------
(* Documents as PDF: what a step does. *)

\* A step of one request that keeps the cache and answers nobody.
LEMMA JobStep ==
    ASSUME PdfInv, NEW x \in Exporters, NEW j \in Job \cup {NoRequest},
           job' = [job EXCEPT ![x] = j], j # NoRequest => JobOK(j),
           UNCHANGED <<component, version, stale, store>>, NoAnswer
    PROVE  PdfInv'
<1>1. PdfTyped'
  BY DEF PdfInv, PdfTyped, NoAnswer
<1>2. \A i : JobOK(i)' <=> JobOK(i)
  BY DEF JobOK, Within, Reads
<1>3. \A e : EntryOK(e)' <=> EntryOK(e)
  BY DEF EntryOK, Stamped, Within
<1>4. \A y \in Exporters : job'[y] # NoRequest => JobOK(job'[y])
  BY DEF PdfInv, PdfTyped
<1> QED
  BY <1>1, <1>2, <1>3, <1>4 DEF PdfInv, CurrentIsFresh, NoAnswer

LEMMA BeginStep ==
    ASSUME PdfInv, NEW x \in Exporters, NEW c \in Callers, NEW d \in Documents,
           Refused(x, c, d) \/ Begin(x, c, d)
    PROVE  PdfInv'
<1>1. CASE Refused(x, c, d)
  <2>1. job' = [job EXCEPT ![x] = NoRequest]
    BY <1>1 DEF Refused, PdfInv, PdfTyped
  <2> QED
    BY <1>1, <2>1, JobStep DEF Refused
<1>2. CASE Begin(x, c, d)
  <2> DEFINE j == [caller |-> c, document |-> d, parts |-> <<>>,
                   rendering |-> FALSE, age |-> 0]
  <2>1. j \in Job
    BY NoParts DEF Job
  <2>2. JobOK(j)
    BY NoParts, ReadsAreFew, PdfAssumption DEF JobOK, Within, PdfInv
  <2> QED
    BY <1>2, <2>1, <2>2, JobStep DEF Begin
<1> QED
  BY <1>1, <1>2

\* A part is of the version the document is at, or could not be read.
LEMMA ReadPartStep ==
    ASSUME PdfInv, NEW x \in Exporters, ReadPart(x) \/ Unverified(x)
    PROVE  PdfInv'
<1> DEFINE i == job[x]
<1>1. i \in Job /\ JobOK(i) /\ Len(i.parts) < Reads(i.document)
  BY DEF ReadPart, Unverified, Reading, PdfInv, PdfTyped
<1>2. i.document \in Documents /\ i.parts \in Parts /\ i.age \in Nat
  BY <1>1 DEF Job
<1>3. PICK v \in Version \cup {NoVersion} :
        /\ job' = [job EXCEPT ![x] = [i EXCEPT !.parts = Append(i.parts, v)]]
        /\ v # NoVersion => v = version[i.document]
  BY <1>2 DEF ReadPart, Unverified, PdfInv, PdfTyped
<1> DEFINE ps == Append(i.parts, v)
           j == [i EXCEPT !.parts = ps]
<1>4. /\ ps \in Parts /\ Len(ps) = Len(i.parts) + 1 /\ Len(i.parts) \in Nat
      /\ \A n \in 1 .. Len(i.parts) : ps[n] = i.parts[n]
      /\ ps[Len(i.parts) + 1] = v
  BY <1>1, <1>2, AnotherPart, ReadsAreFew DEF PdfInv
<1>5. j \in Job
  BY <1>1, <1>4 DEF Job
<1>6. v # NoVersion => stale[i.document][v] = 0
  BY <1>2, <1>3, PdfAssumption DEF PdfInv, PdfTyped, CurrentIsFresh, Version
<1>7. JobOK(j)
  <2>1. /\ j.parts = ps /\ j.document = i.document /\ j.rendering = i.rendering
        /\ j.age = i.age
    BY <1>1 DEF Job
  <2>2. Len(ps) <= Reads(i.document)
    BY <1>1, <1>2, <1>4, ReadsAreFew DEF PdfInv
  <2>3. ASSUME NEW n \in Nat, Within(i.document, i.parts, n)
        PROVE  Within(i.document, ps, n)
    BY <1>4, <1>6, <2>3 DEF Within
  <2> QED
    BY <1>1, <1>2, <2>1, <2>2, <2>3, PdfAssumption DEF JobOK
<1> QED
  BY <1>3, <1>5, <1>7, JobStep DEF ReadPart, Unverified

LEMMA DropStep ==
    ASSUME PdfInv, NEW x \in Exporters,
           ResolverFails(x) \/ NotStamped(x) \/ RenderFails(x)
    PROVE  PdfInv'
BY JobStep DEF ResolverFails, NotStamped, RenderFails, DropJob

\* What was read in time is rendered on a clock of its own.
LEMMA MissStep ==
    ASSUME PdfInv, NEW x \in Exporters, Miss(x)
    PROVE  PdfInv'
<1> DEFINE i == job[x]
           j == [i EXCEPT !.rendering = TRUE, !.age = 0]
<1>1. i \in Job /\ JobOK(i) /\ ~i.rendering
  BY DEF Miss, Resolved, PdfInv, PdfTyped
<1>2. j \in Job
  BY <1>1 DEF Job
<1>3. /\ j.parts = i.parts /\ j.document = i.document /\ j.rendering = TRUE
      /\ j.age = 0 /\ i.age \in Nat /\ i.document \in Documents /\ i.parts \in Parts
  BY <1>1 DEF Job
<1>4. Within(i.document, i.parts, ReadTimeout)
  <2>1. \A n \in 1 .. Len(i.parts) : i.parts[n] # NoVersion =>
            stale[i.document][i.parts[n]] \in Nat
    <3>1. \A n \in 1 .. Len(i.parts) : i.parts[n] \in Version \cup {NoVersion}
      BY <1>3 DEF Parts
    <3> QED
      BY <1>3, <3>1, PdfAssumption DEF PdfInv, PdfTyped, MaxStale
  <2> QED
    BY <1>1, <1>3, <2>1, PdfAssumption DEF JobOK, Within
<1>5. JobOK(j)
  BY <1>1, <1>3, <1>4, PdfAssumption DEF JobOK
<1> QED
  BY <1>2, <1>5, JobStep DEF Miss

\* A bound below the one that is promised.
LEMMA WithinIsShort ==
    ASSUME PdfTyped, NEW pdf \in Pdf, NEW n \in Nat,
           n < Ttl + RenderTimeout + ReadTimeout, Within(pdf.document, pdf.parts, n)
    PROVE  \A i \in 1 .. Len(pdf.parts) : pdf.parts[i] # NoVersion =>
             stale[pdf.document][pdf.parts[i]] < Ttl + RenderTimeout + ReadTimeout
<1> SUFFICES ASSUME NEW i \in 1 .. Len(pdf.parts), pdf.parts[i] # NoVersion
             PROVE  stale[pdf.document][pdf.parts[i]]
                        < Ttl + RenderTimeout + ReadTimeout
  OBVIOUS
<1>1. pdf.document \in Documents /\ pdf.parts[i] \in Version
  BY DEF Pdf, Parts
<1>2. stale[pdf.document][pdf.parts[i]] \in Nat
  BY <1>1, PdfAssumption DEF PdfTyped, MaxStale
<1>3. stale[pdf.document][pdf.parts[i]] <= n
  BY DEF Within
<1> QED
  BY <1>2, <1>3, PdfAssumption

\* A request is answered, and is over.
LEMMA AnsweredStep ==
    ASSUME PdfInv, NEW x \in Exporters, job' = [job EXCEPT ![x] = NoRequest],
           UNCHANGED <<component, version, stale>>,
           answer' \in Answer, AnswerOK(answer'),
           store' \subseteq Entry, IsFiniteSet(store'),
           Cardinality(store') <= MaxEntries, \A e \in store' : EntryOK(e)'
    PROVE  PdfInv'
<1>1. PdfTyped'
  BY DEF PdfInv, PdfTyped
<1>2. \A i : JobOK(i)' <=> JobOK(i)
  BY DEF JobOK, Within, Reads
<1>3. \A y \in Exporters : job'[y] # NoRequest => JobOK(job'[y])
  BY DEF PdfInv, PdfTyped
<1>4. AnswerOK(answer)'
  BY DEF AnswerOK, MarkOf, IsAuditor
<1> QED
  BY <1>1, <1>2, <1>3, <1>4 DEF PdfInv, CurrentIsFresh

\* What an entry has bounds what is answered from it.
LEMMA HitStep ==
    ASSUME PdfInv, NEW x \in Exporters, Hit(x)
    PROVE  PdfInv'
<1> DEFINE j == job[x]
<1>1. j \in Job
  BY DEF Hit, Resolved, PdfInv, PdfTyped
<1>2. PICK e \in store : e.key = KeyFor(j) /\ answer' = [job |-> j, pdf |-> e.pdf]
  BY DEF Hit, Cached, Serve
<1>3. /\ e.pdf \in Pdf /\ e.age \in Nat /\ e.age < Ttl
      /\ e.pdf.document = j.document /\ e.pdf.mark = MarkOf(j.caller)
      /\ Within(e.pdf.document, e.pdf.parts, ReadTimeout + RenderTimeout + e.age)
  BY <1>2 DEF PdfInv, PdfTyped, Entry, EntryOK, Stamped, KeyFor, KeyOf
<1>4. AnswerOK(answer')
  <2>1. /\ ReadTimeout + RenderTimeout + e.age \in Nat
        /\ ReadTimeout + RenderTimeout + e.age < Ttl + RenderTimeout + ReadTimeout
    BY <1>3, PdfAssumption
  <2> QED
    BY <1>2, <1>3, <2>1, WithinIsShort DEF AnswerOK, PdfInv
<1>5. /\ job' = [job EXCEPT ![x] = NoRequest]
      /\ UNCHANGED <<component, version, stale, store>>
  BY DEF Hit, DropJob
<1>6. answer' \in Answer
  BY <1>1, <1>2, <1>3 DEF Answer
<1>7. \A f \in store' : EntryOK(f)'
  BY <1>5 DEF PdfInv, EntryOK, Stamped, Within
<1> QED
  BY <1>4, <1>5, <1>6, <1>7, AnsweredStep DEF PdfInv, PdfTyped

\* What is rendered in time is put in the cache, and answered.
LEMMA RenderedStep ==
    ASSUME PdfInv, NEW x \in Exporters, Rendered(x)
    PROVE  PdfInv'
<1> DEFINE j == job[x]
           pdf == PdfOf(j)
           k == KeyFor(j)
           e == [key |-> k, pdf |-> pdf, age |-> 0]
           n == ReadTimeout + RenderTimeout
<1>1. /\ j \in Job /\ JobOK(j) /\ j.rendering
      /\ j.caller \in Callers /\ j.document \in Documents /\ j.parts \in Parts
      /\ j.age \in Nat
  BY DEF Rendered, Rendering, PdfInv, PdfTyped, Job
<1>2. /\ k \in Keys /\ k.document = j.document /\ k.mark = MarkOf(j.caller)
      /\ pdf \in Pdf /\ pdf.document = j.document /\ pdf.mark = MarkOf(j.caller)
      /\ pdf.parts = j.parts
  BY <1>1 DEF KeyFor, KeyOf, PdfOf, Keys, Pdf, Marks
<1>3. Within(pdf.document, pdf.parts, n)
  <2>1. \A i \in 1 .. Len(j.parts) : j.parts[i] # NoVersion =>
            stale[j.document][j.parts[i]] \in Nat
    <3>1. \A i \in 1 .. Len(j.parts) : j.parts[i] \in Version \cup {NoVersion}
      BY <1>1 DEF Parts
    <3> QED
      BY <1>1, <3>1, PdfAssumption DEF PdfInv, PdfTyped, MaxStale
  <2> QED
    BY <1>1, <1>2, <2>1, PdfAssumption DEF JobOK, Within
<1>4. EntryOK(e)
  BY <1>2, <1>3, PdfAssumption DEF EntryOK, Stamped
<1>5. answer' = [job |-> j, pdf |-> pdf] /\ answer' \in Answer
  BY <1>1, <1>2 DEF Rendered, Serve, Answer
<1>6. AnswerOK(answer')
  <2>1. n \in Nat /\ n < Ttl + RenderTimeout + ReadTimeout
    BY PdfAssumption
  <2> QED
    BY <1>2, <1>3, <1>5, <2>1, WithinIsShort DEF AnswerOK, PdfInv
<1>7. /\ job' = [job EXCEPT ![x] = NoRequest]
      /\ UNCHANGED <<component, version, stale>> /\ Put(k, pdf)
  BY DEF Rendered, DropJob
<1>8. /\ store' \subseteq Entry
      /\ IsFiniteSet(store') /\ Cardinality(store') <= MaxEntries
      /\ \A f \in store' : EntryOK(f)'
  BY <1>2, <1>4, <1>7, PutStep DEF PdfInv
<1> QED
  BY <1>5, <1>6, <1>7, <1>8, AnsweredStep

\* A change leaves the version there was, as fresh as it is.
LEMMA ChangeStep ==
    ASSUME PdfInv, NEW d \in Documents, Change(d)
    PROVE  PdfInv'
<1>1. PdfTyped'
  BY PdfAssumption DEF Change, NoAnswer, PdfInv, PdfTyped, Version
<1>2. CurrentIsFresh'
  BY PdfAssumption DEF Change, PdfInv, PdfTyped, CurrentIsFresh, Version
<1>3. \A i : JobOK(i)' <=> JobOK(i)
  BY DEF Change, JobOK, Within, Reads
<1>4. \A e : EntryOK(e)' <=> EntryOK(e)
  BY DEF Change, EntryOK, Stamped, Within
<1> QED
  BY <1>1, <1>2, <1>3, <1>4 DEF Change, NoAnswer, PdfInv

\* Nothing grows older by more than time passes.
LEMMA Ageing ==
    ASSUME PdfTyped, Tick, NEW d \in Documents, NEW ps \in Parts, NEW n \in Nat,
           Within(d, ps, n)
    PROVE  \A i \in 1 .. Len(ps) : ps[i] # NoVersion => stale'[d][ps[i]] <= n + 1
<1> SUFFICES ASSUME NEW i \in 1 .. Len(ps), ps[i] # NoVersion
             PROVE  stale'[d][ps[i]] <= n + 1
  OBVIOUS
<1>1. ps[i] \in Version
  BY DEF Parts
<1>2. stale[d][ps[i]] \in Nat /\ stale[d][ps[i]] <= n
  BY <1>1, PdfAssumption DEF PdfTyped, MaxStale, Within
<1>3. stale'[d][ps[i]] \in {0, stale[d][ps[i]], stale[d][ps[i]] + 1}
  BY <1>1 DEF Tick, Later
<1> QED
  BY <1>2, <1>3

LEMMA TickKeepsStore ==
    ASSUME PdfInv, Tick
    PROVE  /\ store' \subseteq Entry
           /\ IsFiniteSet(store') /\ Cardinality(store') <= MaxEntries
           /\ \A f \in store' : EntryOK(f)'
<1> DEFINE older(e) == [e EXCEPT !.age = e.age + 1]
           lasting == {e \in store : e.age + 1 < Ttl}
<1>1. store' = {older(e) : e \in lasting}
  BY DEF Tick, Outlasting
<1>2. \A e \in lasting :
        /\ older(e) \in Entry /\ older(e).key = e.key /\ older(e).pdf = e.pdf
        /\ older(e).age = e.age + 1
        /\ e \in Entry /\ EntryOK(e) /\ e.age \in Nat
  BY DEF PdfInv, PdfTyped, Entry
<1>3. IsFiniteSet(store') /\ Cardinality(store') <= MaxEntries
  <2> DEFINE f == [e \in lasting |-> older(e)]
  <2>1. f \in Surjection(lasting, store')
    BY <1>1 DEF Surjection
  <2>2. IsFiniteSet(lasting) /\ Cardinality(lasting) <= Cardinality(store)
    BY FS_Subset DEF PdfInv
  <2>3. IsFiniteSet(store') /\ Cardinality(store') <= Cardinality(lasting)
    BY <2>1, <2>2, FS_Surjection
  <2>4. /\ Cardinality(store') \in Nat /\ Cardinality(lasting) \in Nat
        /\ Cardinality(store) \in Nat
    BY <2>2, <2>3, FS_CardinalityType DEF PdfInv
  <2> QED
    BY <2>2, <2>3, <2>4, PdfAssumption DEF PdfInv
<1>4. ASSUME NEW e \in lasting PROVE EntryOK(older(e))'
  <2> DEFINE n == ReadTimeout + RenderTimeout + e.age
             ps == e.pdf.parts
             d == e.pdf.document
  <2>1. d \in Documents /\ ps \in Parts /\ e.age \in Nat
    BY <1>2 DEF Entry, Pdf
  <2>2. n \in Nat /\ n + 1 = ReadTimeout + RenderTimeout + (e.age + 1)
    BY <2>1, PdfAssumption
  <2>3. Within(d, ps, n)
    BY <1>2 DEF EntryOK
  <2>4. \A i \in 1 .. Len(ps) : ps[i] # NoVersion => stale'[d][ps[i]] <= n + 1
    BY <2>1, <2>2, <2>3, Ageing DEF PdfInv
  <2> QED
    BY <1>2, <2>2, <2>4 DEF EntryOK, Stamped, Within
<1> QED
  BY <1>1, <1>2, <1>3, <1>4

LEMMA PdfTickStep ==
    ASSUME PdfInv, Tick
    PROVE  PdfInv'
<1>1. ASSUME NEW x \in Exporters, job'[x] # NoRequest
      PROVE  job'[x] \in Job /\ JobOK(job[x])'
  <2> DEFINE i == job[x]
             j == [i EXCEPT !.age = i.age + 1]
             d == i.document
             ps == i.parts
             n == IF i.rendering THEN ReadTimeout + i.age ELSE i.age
  <2>1. i # NoRequest /\ job'[x] = j
    BY <1>1 DEF Tick
  <2>2. i \in Job /\ JobOK(i) /\ TimeLeft(i)
    BY <2>1 DEF Tick, PdfInv, PdfTyped
  <2>3. /\ j \in Job /\ i.age \in Nat /\ d \in Documents /\ ps \in Parts
        /\ j.parts = ps /\ j.document = d /\ j.rendering = i.rendering
        /\ i.rendering \in BOOLEAN /\ j.age = i.age + 1
    BY <2>2 DEF Job
  <2>4. n \in Nat /\ n + 1 = IF i.rendering THEN ReadTimeout + j.age ELSE j.age
    BY <2>3, PdfAssumption
  <2>5. \A k \in 1 .. Len(ps) : ps[k] # NoVersion => stale'[d][ps[k]] <= n + 1
    <3>1. Within(d, ps, n)
      BY <2>2 DEF JobOK
    <3> QED
      BY <2>3, <2>4, <3>1, Ageing DEF PdfInv
  <2>6. Len(ps) <= Registry[component'[d]].reads
    BY <2>2 DEF Tick, JobOK, Reads
  <2>7. j.age <= IF i.rendering THEN RenderTimeout ELSE ReadTimeout
    BY <2>2, <2>3, PdfAssumption DEF TimeLeft
  <2> QED
    BY <2>1, <2>3, <2>4, <2>5, <2>6, <2>7 DEF JobOK, Within, Reads
<1>2. stale' \in [Documents -> [Version -> 0 .. MaxStale]] /\ CurrentIsFresh'
  <2>1. \A d \in Documents, v \in Version :
          /\ Later(stale[d][v], MaxStale) \in 0 .. MaxStale
          /\ stale'[d][v] \in 0 .. MaxStale
          /\ v >= version[d] => stale'[d][v] = 0
    BY PdfAssumption DEF Tick, Later, PdfInv, PdfTyped, Version, MaxStale
  <2> QED
    BY <2>1 DEF Tick, CurrentIsFresh
<1>3. job' \in [Exporters -> Job \cup {NoRequest}]
  BY <1>1 DEF Tick
<1>4. UNCHANGED <<component, version>> /\ answer' = NoRequest
  BY DEF Tick, NoAnswer
<1> QED
  BY <1>1, <1>2, <1>3, <1>4, TickKeepsStore DEF PdfInv, PdfTyped

LEMMA PdfStep == PdfInv /\ [PdfNext]_exportVars => PdfInv'
<1> SUFFICES ASSUME PdfInv, [PdfNext]_exportVars PROVE PdfInv'
  OBVIOUS
<1>1. CASE UNCHANGED exportVars
  BY <1>1 DEF exportVars, PdfInv, PdfTyped, CurrentIsFresh, JobOK, EntryOK, AnswerOK,
     Within, Stamped, Reads, MarkOf, IsAuditor
<1> QED
  BY <1>1, ChangeStep, BeginStep, ReadPartStep, DropStep, MissStep, HitStep, RenderedStep,
     PdfTickStep DEF PdfNext, ExportStep

\* AMD-06, AMD-13: whoever rendered a PDF and whatever the cache evicts, a caller
\* is answered with the document asked for under the caller's own mark.
THEOREM EveryAnswerIsWatermarked == PdfSpec => []Watermarked
BY PdfInitInv, PdfStep, PdfInvImplies, PTL DEF PdfSpec

\* No part of a PDF was superseded longer ago than the timeouts and the TTL add up to,
\* in whatever order renderings end and replace each other (service.py:177-262).
THEOREM StaleIsAlwaysBounded == PdfSpec => []StaleIsBounded
BY PdfInitInv, PdfStep, PdfInvImplies, PTL DEF PdfSpec

-----------------------------------------------------------------------------
(* Long exports and the pages of projects. *)

\* An export that is under way has no end in the trail yet, and has been handed no
\* more than was read; it completes with all of it, and is aborted with less.
ExportOK(x) ==
    /\ sent[x] <= read[x] /\ skipped[x] <= read[x]
    /\ phase[x] # "idle" => trail[x] \subseteq {"initiated"}
    /\ phase[x] = "reading" => read[x] < Pages
    /\ phase[x] = "completing" => sent[x] = Pages
    /\ phase[x] = "aborting" => sent[x] < Pages

StreamInv ==
    /\ S!StreamTypeOK
    /\ \A x \in Readers : ExportOK(x)
    /\ TrailIsTrue /\ FiltersAgree

LEMMA StreamInit == S!Init => StreamInv
BY StreamAssumption DEF S!Init, StreamInv, S!StreamTypeOK, S!Phase, S!Event, S!Scope,
   ExportOK,
   TrailIsTrue, S!TrailIsTrue, FiltersAgree, S!FiltersAgree

\* What a page shows, its filter lets its caller open.
LEMMA ShowStep ==
    ASSUME StreamInv, NEW s \in S!Scope, NEW ps \in SUBSET Projects, S!Show(s, ps),
           s # NoScope => \A p \in ps : S!InScope(s, p)
    PROVE  StreamInv'
BY DEF StreamInv, S!Show, S!StreamTypeOK, ExportOK, TrailIsTrue, S!TrailIsTrue,
   FiltersAgree, S!FiltersAgree, S!InScope

LEMMA PageStep ==
    ASSUME StreamInv, NEW s \in S!Scope, NEW p \in Projects,
           S!Index(s) \/ S!View(s, p) \/ S!Search(s, p)
    PROVE  StreamInv'
<1>1. CASE S!Index(s)
  <2>1. PICK ps \in SUBSET Projects : S!Show(s, S!Intersect(s, ps))
    BY <1>1 DEF S!Index
  <2>2. /\ S!Intersect(s, ps) \in SUBSET Projects
        /\ s # NoScope => \A q \in S!Intersect(s, ps) : S!InScope(s, q)
    BY DEF S!Intersect, S!InScope
  <2> QED
    BY <2>1, <2>2, ShowStep
<1>2. CASE S!View(s, p)
  BY <1>2, ShowStep DEF S!View
<1>3. CASE S!Search(s, p)
  <2>1. PICK ps \in SUBSET Projects : S!Show(s, S!FilterHits(s, ps))
    BY <1>3 DEF S!Search
  <2>2. /\ S!FilterHits(s, ps) \in SUBSET Projects
        /\ s # NoScope => \A q \in S!FilterHits(s, ps) : S!InScope(s, q)
    BY DEF S!FilterHits, S!InScope
  <2> QED
    BY <2>1, <2>2, ShowStep
<1> QED
  BY <1>1, <1>2, <1>3

\* A step of one export: the others stay as they are, and so does what is shown.
LEMMA StreamStepOf ==
    ASSUME StreamInv, NEW x \in Readers,
           \/ \E k \in {"jsonl", "zip"}, s \in S!Scope, p \in Projects : S!Start(x, k, s, p)
           \/ S!ExportStep(x)
    PROVE  StreamInv'
<1> USE DEF StreamInv, S!StreamTypeOK, ExportOK, TrailIsTrue, S!TrailIsTrue, S!Phase,
            S!Event, S!Goto, S!Record
<1>1. shown' = shown
  BY DEF S!Start, S!ExportStep, S!ReadPage, S!SkipDocument, S!HandOut, S!Complete,
     S!Fails, S!Abort, S!GoesAway
<1>2. FiltersAgree'
  BY <1>1 DEF FiltersAgree, S!FiltersAgree, S!InScope
<1>3. CASE \E k \in {"jsonl", "zip"}, s \in S!Scope, p \in Projects : S!Start(x, k, s, p)
  <2>1. PICK k \in {"jsonl", "zip"}, recorded \in SUBSET {"initiated"} :
          /\ phase' = [phase EXCEPT ![x] = "reading"]
          /\ kind' = [kind EXCEPT ![x] = k]
          /\ trail' = [trail EXCEPT ![x] = recorded]
          /\ read' = [read EXCEPT ![x] = 0]
          /\ sent' = [sent EXCEPT ![x] = 0]
          /\ skipped' = [skipped EXCEPT ![x] = 0]
    BY <1>3 DEF S!Start
  <2>2. recorded \subseteq S!Event /\ 0 \in 0 .. Pages
    BY StreamAssumption
  <2>3. S!StreamTypeOK'
    <3>1. phase' \in [Readers -> S!Phase] /\ kind' \in [Readers -> {"jsonl", "zip"}]
      BY <2>1
    <3>2. trail' \in [Readers -> SUBSET S!Event]
      BY <2>1, <2>2
    <3>3. /\ read' \in [Readers -> 0 .. Pages] /\ sent' \in [Readers -> 0 .. Pages]
          /\ skipped' \in [Readers -> 0 .. Pages]
      BY <2>1, <2>2
    <3> QED
      BY <1>1, <3>1, <3>2, <3>3
  <2>4. /\ read'[x] = 0 /\ sent'[x] = 0 /\ skipped'[x] = 0 /\ phase'[x] = "reading"
        /\ trail'[x] = recorded
    BY <2>1
  <2>5. \A y \in Readers \ {x} : ExportOK(y)'
    BY <2>1
  <2>6. ExportOK(x)'
    BY <2>4, StreamAssumption
  <2>7. TrailIsTrue'
    BY <2>1
  <2> QED
    BY <1>2, <2>3, <2>5, <2>6, <2>7
<1>4. CASE S!ReadPage(x)
  BY <1>1, <1>2, <1>4, StreamAssumption DEF S!ReadPage
<1>5. CASE S!SkipDocument(x)
  BY <1>1, <1>2, <1>5, StreamAssumption DEF S!SkipDocument
<1>6. CASE S!HandOut(x)
  BY <1>1, <1>2, <1>6, StreamAssumption DEF S!HandOut
<1>7. CASE S!Complete(x)
  BY <1>1, <1>2, <1>7, StreamAssumption DEF S!Complete
<1>8. CASE S!Fails(x)
  BY <1>1, <1>2, <1>8, StreamAssumption DEF S!Fails
<1>9. CASE S!Abort(x)
  BY <1>1, <1>2, <1>9, StreamAssumption DEF S!Abort
<1>10. CASE S!GoesAway(x)
  BY <1>1, <1>2, <1>10, StreamAssumption DEF S!GoesAway
<1> QED
  BY <1>3, <1>4, <1>5, <1>6, <1>7, <1>8, <1>9, <1>10 DEF S!ExportStep

LEMMA StreamStep == StreamInv /\ [S!Next]_(S!streamVars) => StreamInv'
<1> SUFFICES ASSUME StreamInv, [S!Next]_(S!streamVars) PROVE StreamInv'
  OBVIOUS
<1>1. CASE UNCHANGED S!streamVars
  BY <1>1 DEF S!streamVars, StreamInv, S!StreamTypeOK, ExportOK, TrailIsTrue,
     S!TrailIsTrue, FiltersAgree, S!FiltersAgree, S!InScope
<1>2. ASSUME NEW s \in S!Scope, S!Index(s) PROVE StreamInv'
  <2>1. PICK ps \in SUBSET Projects : S!Show(s, S!Intersect(s, ps))
    BY <1>2 DEF S!Index
  <2>2. /\ S!Intersect(s, ps) \in SUBSET Projects
        /\ s # NoScope => \A q \in S!Intersect(s, ps) : S!InScope(s, q)
    BY DEF S!Intersect, S!InScope
  <2> QED
    BY <2>1, <2>2, ShowStep
<1> QED
  BY <1>1, <1>2, PageStep, StreamStepOf DEF S!Next

THEOREM TrailAlwaysTrue == S!Spec => []TrailIsTrue
<1>1. StreamInv => TrailIsTrue
  BY DEF StreamInv
<1> QED
  BY <1>1, StreamInit, StreamStep, PTL DEF S!Spec

THEOREM FiltersAlwaysAgree == S!Spec => []FiltersAgree
<1>1. StreamInv => FiltersAgree
  BY DEF StreamInv
<1> QED
  BY <1>1, StreamInit, StreamStep, PTL DEF S!Spec

-----------------------------------------------------------------------------
(* Deadlines. *)

LastRun == clock - sinceRun

\* What the last run did not find due was not due yet when it ran.
DeadlineInv ==
    /\ clock \in Nat /\ sinceRun \in 0 .. Day
    /\ escalated \subseteq D!Threshold /\ listed \in BOOLEAN
    /\ \A t \in D!Threshold \ escalated : LastRun < 30 * Day - t * Day
    /\ ~listed => LastRun < 23 * Day
    /\ \A w \in D!Window \ reminded : LastRun <= 0 \/ LastRun < D!FiresAt[w] - Day

LEMMA DeadlineInit == D!Init => DeadlineInv
<1> SUFFICES ASSUME D!Init PROVE DeadlineInv
  OBVIOUS
<1>1. clock \in Nat /\ sinceRun \in 0 .. Day /\ LastRun <= 0
  BY DeadlineAssumption DEF D!Init, LastRun
<1>2. escalated \subseteq D!Threshold /\ listed \in BOOLEAN
  BY DEF D!Init
<1>3. \A t \in D!Threshold : LastRun < 30 * Day - t * Day
  BY <1>1, DeadlineAssumption DEF D!Threshold, LastRun
<1>4. LastRun < 23 * Day
  BY <1>1, DeadlineAssumption DEF LastRun
<1> QED
  BY <1>1, <1>2, <1>3, <1>4 DEF DeadlineInv

LEMMA FiresAtDomain ==
    ASSUME NEW w \in D!Window PROVE D!FiresAt[w] \in Nat
BY DeadlineAssumption DEF D!Window, D!FiresAt

LEMMA DeadlineStep == DeadlineInv /\ [D!Next]_(D!deadlineVars) => DeadlineInv'
<1> SUFFICES ASSUME DeadlineInv, [D!Next]_(D!deadlineVars) PROVE DeadlineInv'
  OBVIOUS
<1> USE DeadlineAssumption DEF DeadlineInv, LastRun
<1>1. CASE D!Run
  <2>1. ASSUME NEW t \in D!Threshold, t \notin escalated'
        PROVE  clock < 30 * Day - t * Day
    BY <1>1, <2>1 DEF D!Run, D!Threshold, D!EscalationDue, D!RemainingDays
  <2>2. ~listed' => clock < 23 * Day
    <3>1. ~listed' => ~listed /\ ~D!InEscalationQueue
      BY <1>1, Zenon DEF D!Run
    <3>2. LastRun < 23 * Day /\ ~D!InEscalationQueue => clock < 23 * Day
      BY DEF D!InEscalationQueue, D!RemainingDays
    <3> QED
      BY <3>1, <3>2
  <2>3. ASSUME NEW w \in D!Window, w \notin reminded'
        PROVE  clock < D!FiresAt[w] - Day
    <3>1. w \notin reminded /\ D!FiresAt[w] - clock \notin -Day .. Day
      BY <1>1, <2>3 DEF D!Run, D!RemindersDue
    <3>2. clock <= D!FiresAt[w] + Day
      BY <3>1, FiresAtDomain
    <3> QED
      BY <3>1, <3>2, FiresAtDomain
  <2> QED
    BY <1>1, <2>1, <2>2, <2>3 DEF D!Run, D!InEscalationQueue
<1>2. CASE D!Tick
  BY <1>2, FiresAtDomain DEF D!Tick
<1>3. CASE UNCHANGED D!deadlineVars
  BY <1>3 DEF D!deadlineVars
<1> QED
  BY <1>1, <1>2, <1>3 DEF D!Next

LEMMA Missed == DeadlineInv => D!NothingIsMissed
<1> SUFFICES ASSUME DeadlineInv PROVE D!NothingIsMissed
  OBVIOUS
<1>1. ASSUME D!RemainingDays <= 0 PROVE escalated = D!Threshold /\ listed
  <2>1. LastRun >= 29 * Day
    BY <1>1, DeadlineAssumption DEF DeadlineInv, LastRun, D!RemainingDays
  <2>2. \A t \in D!Threshold : 29 * Day >= 30 * Day - t * Day
    BY DeadlineAssumption DEF D!Threshold
  <2>3. \A t \in D!Threshold : t \in escalated
    BY <2>1, <2>2, DeadlineAssumption DEF DeadlineInv, LastRun, D!Threshold
  <2>4. listed
    BY <2>1, DeadlineAssumption DEF DeadlineInv, LastRun
  <2> QED
    BY <2>3, <2>4 DEF DeadlineInv
<1>2. ASSUME NEW w \in D!Window, clock > D!FiresAt[w] + Day PROVE w \in reminded
  BY <1>2, DeadlineAssumption, FiresAtDomain DEF DeadlineInv, LastRun
<1> QED
  BY <1>1, <1>2 DEF D!NothingIsMissed

LEMMA Badges == clock \in Nat => D!BadgesAgree
<1> SUFFICES ASSUME clock \in Nat PROVE D!BadgesAgree
  OBVIOUS
<1> USE DeadlineAssumption
<1>1. /\ D!EscalationDue(7) => D!SlaBand \in {"yellow", "amber", "red"}
      /\ D!EscalationDue(3) => D!SlaBand \in {"amber", "red"}
      /\ D!EscalationDue(1) => D!SlaBand = "red"
      /\ D!InEscalationQueue <=> D!SlaBand \in {"yellow", "amber", "red"}
  BY DEF D!EscalationDue, D!SlaBand, D!InEscalationQueue, D!RemainingDays
<1>2. D!IncidentBand = "overdue" <=> D!RemainingToDeadline <= 0
  BY DEF D!IncidentBand, D!RemainingToDeadline
<1>3. "0d" \in D!RemindersDue => D!ReviewBand \in {"red", "overdue"}
  BY DEF D!RemindersDue, D!ReviewBand, D!FiresAt, D!Window
<1>4. "7d" \in D!RemindersDue => D!ReviewBand \in {"amber", "red"}
  BY DEF D!RemindersDue, D!ReviewBand, D!FiresAt, D!Window
<1> QED
  BY <1>1, <1>2, <1>3, <1>4 DEF D!BadgesAgree

THEOREM DeadlinesAlwaysKept == D!Spec => []DeadlinesKept
<1>1. DeadlineInv => DeadlinesKept
  BY Missed, Badges DEF DeadlineInv, DeadlinesKept, D!DeadlinesKept
<1> QED
  BY <1>1, DeadlineInit, DeadlineStep, PTL DEF D!Spec

-----------------------------------------------------------------------------
(* The parts together. *)

\* No part touches what another one keeps, so all their invariants hold at once.
PortalInv ==
    /\ part \in PartsRun
    /\ IInv /\ CsrfInv /\ PdfInv /\ StreamInv /\ DeadlineInv

LEMMA PortalStep == PortalInv /\ [MCNext]_mcVars => PortalInv'
<1> SUFFICES ASSUME PortalInv, [MCNext]_mcVars PROVE PortalInv'
  OBVIOUS
<1>1. /\ [Next]_vars
      /\ [C!Next]_(C!csrfVars)
      /\ [PdfNext]_exportVars
      /\ [S!Next]_(S!streamVars)
      /\ [D!Next]_(D!deadlineVars)
  BY DEF MCNext, mcVars, csrfVars, streamVars, deadlineVars, C!csrfVars, S!streamVars,
     D!deadlineVars
<1>2. part' = part
  BY DEF MCNext, mcVars
<1> QED
  BY <1>1, <1>2, NextKeepsIInv, CsrfStep, PdfStep, StreamStep, DeadlineStep DEF PortalInv

\* Whichever part works, every variable of its module keeps its type.
THEOREM PortalTypeCorrect == MCSpec => []PortalTypeOK
<1>1. MCInit => PortalInv
  BY InitIInv, CsrfInit, PdfInitInv, StreamInit, DeadlineInit DEF MCInit, PortalInv
<1>2. PortalInv => PortalTypeOK
  BY PdfInvImplies, PartsAssumption
     DEF PortalInv, PortalTypeOK, IInv, CsrfInv, StreamInv, DeadlineInv
<1> QED
  BY <1>1, <1>2, PortalStep, PTL DEF MCSpec
=============================================================================
