----------------------------- MODULE PublicDsr ------------------------------
(***************************************************************************)
(* The public portal, where a data subject submits a request, looks up its *)
(* status, uploads a proof of identity again and fetches a receipt:        *)
(* src/dsr_portal/.  A submission is answered with three tokens, one for   *)
(* each thing that can be done with it afterwards.                         *)
(*                                                                         *)
(* The calls are those of ServiceCall; what a handler awaits first is the  *)
(* captcha's verdict, and what it reads is that.                           *)
(***************************************************************************)
EXTENDS ServiceCall

CONSTANTS
    Requests,       \* references of requests
    Emails,         \* addresses people give
    Files,          \* the files they upload
    NoReference,    \* "pending": a proof is uploaded before there is a request
    Nobody,         \* no address
    NoFile          \* no proof in the form

VARIABLES
    email,          \* service: address each request was submitted with, or Nobody
    cited,          \* service: verdict on the proof each request was submitted with
    proofs,         \* service: proofs of identity it was sent
    bundle          \* tokens of each reference: "none", "good" or "expired"

vars == <<callVars, email, cited, proofs, bundle>>

Capability == {"submit", "status_check", "identity_upload", "receipt_download"}

\* A token is signed, so one that is shown was issued.
Token == [reference : Requests, capability : Capability]

Submission == [kind : {"submit"}, email : Emails, file : Files \cup {NoFile}]

Upload == [kind : {"identity_upload"}, token : Token, reference : Requests,
           email : Emails, file : Files]

Form ==
    Submission \cup Upload
        \cup [kind : {"status_check"}, token : Token, reference : Requests, email : Emails]
        \cup [kind : {"receipt_download"}, token : Token]

Verdict == {"clean", "pending", "infected"}

\* The captcha's answer, then the scan's, then the reference of the new request.
View == {"passed", "failed"} \cup Verdict \cup Requests

Op == {"submit", "identity_upload"}

\* A file: within 5 MiB or not, what its content type says, what its bytes are.
FileType == [fits : BOOLEAN,
             type : {"image/png", "image/jpeg", "image/jpg", "text/plain"},
             bytes : {"image/png", "image/jpeg", "other", "empty"}]

TypeOK ==
    /\ CallTypeOK(Form, View, Op)
    /\ Files \subseteq FileType
    /\ email \in [Requests -> Emails \cup {Nobody}]
    /\ cited \in [Requests -> Verdict \cup {"none"}]
    /\ proofs \subseteq [reference : Requests \cup {NoReference}, email : Emails]
    /\ bundle \in [Requests -> {"none", "good", "expired"}]

Init ==
    /\ CallInit
    /\ email = [r \in Requests |-> Nobody]
    /\ cited = [r \in Requests |-> "none"]
    /\ proofs = {}
    /\ bundle = [r \in Requests |-> "none"]

serviceVars == <<email, cited, proofs>>

-----------------------------------------------------------------------------
\* The content types on the allowlist, two spellings of one of them among them.
IsAllowedContentType(f) == f.type \in {"image/jpeg", "image/jpg", "image/png"}

\* The first bytes against the content type, letter by letter.
ScanFile(f) ==
    CASE f.bytes = "empty" \/ ~f.fits -> "unscannable"
      [] f.bytes \notin {"image/png", "image/jpeg"} -> "suspicious"
      [] f.type # f.bytes -> "suspicious"
      [] OTHER -> "clean"

\* 413, 415 and 422: what the portal sends on to be scanned.
Plausible(f) == f.fits /\ IsAllowedContentType(f) /\ ScanFile(f) = "clean"

\* require_capability: the token is of this portal, not a week old, and for this.
MayUse(token, kind) == bundle[token.reference] = "good" /\ token.capability = kind

\* Mutant: the address is compared, the reference is not.
Matches_Email(f) == email[f.token.reference] = f.email

\* The form is about the request of the token: each token has the address its
\* request was submitted with.
Matches(f) == f.token.reference = f.reference /\ email[f.reference] = f.email

HasFile(f) == f.kind \in {"submit", "identity_upload"} /\ f.file # NoFile

-----------------------------------------------------------------------------
\* A request without a token that fits is refused before its handler is called.
Post(t, f) ==
    /\ f.kind # "submit" => MayUse(f.token, f.kind)
    /\ Arrive(t, f)
    /\ UNCHANGED <<serviceVars, bundle>>

\* Filled in by a robot: a receipt with a made-up reference, and nothing else.
Honeypot(t) ==
    /\ pc[t] = "fetching" /\ form[t].kind = "submit" /\ Finish(t)
    /\ UNCHANGED <<serviceVars, bundle>>

\* 403, before the captcha is looked at.
Mismatch(t) ==
    /\ pc[t] = "fetching" /\ form[t].kind = "identity_upload" /\ ~Matches(form[t])
    /\ Finish(t)
    /\ UNCHANGED <<serviceVars, bundle>>

\* Whoever answers for the captcha answers; an error there is a refusal.
VerifyCaptcha(t) ==
    /\ pc[t] = "fetching" /\ form[t].kind # "receipt_download"
    /\ form[t].kind = "identity_upload" => Matches(form[t])
    /\ \E answer \in {"passed", "failed"} : Read(t, answer)
    /\ UNCHANGED <<serviceVars, bundle>>

CaptchaFailed(t) ==
    /\ pc[t] = "fetched" /\ seen[t] = "failed" /\ Finish(t)
    /\ UNCHANGED <<serviceVars, bundle>>

ProofRefused(t) ==
    /\ pc[t] = "fetched" /\ seen[t] = "passed"
    /\ HasFile(form[t]) /\ ~Plausible(form[t].file)
    /\ Finish(t)
    /\ UNCHANGED <<serviceVars, bundle>>

UploadProof(t) ==
    /\ pc[t] = "fetched" /\ seen[t] = "passed"
    /\ HasFile(form[t]) /\ Plausible(form[t].file)
    /\ Send(t, "sending")
    /\ UNCHANGED <<serviceVars, bundle>>

\* The status or the receipt is asked for; any error of the first is a 404 page.
LookUp(t) ==
    /\ \/ pc[t] = "fetched" /\ seen[t] = "passed" /\ form[t].kind = "status_check"
       \/ pc[t] = "fetching" /\ form[t].kind = "receipt_download"
    /\ Finish(t)
    /\ UNCHANGED <<serviceVars, bundle>>

-----------------------------------------------------------------------------
ReferenceOf(f) == IF f.kind = "submit" THEN NoReference ELSE f.reference

\* The service keeps what it was sent, of this caller or of one that is gone.
TakeProof(f) ==
    proofs' = proofs \cup {[reference |-> ReferenceOf(f), email |-> f.email]}

ServiceScans(t) ==
    /\ pc[t] = "sending" /\ Pending(t)
    /\ TakeProof(form[t])
    /\ \E v \in Verdict : seen' = [seen EXCEPT ![t] = v]
    /\ taken' = [taken EXCEPT ![t] = TRUE]
    /\ UNCHANGED <<pc, form, late, email, cited, bundle>>

\* Mutant: the verdict is compared with one that only the portal's scan gives.
Passed_Suspicious(verdict) == verdict # "suspicious"

\* A proof is refused unless it is clean or still to be scanned.
Passed(verdict) == verdict \in {"clean", "pending"}

\* The verdict: an upload is answered, a submission is refused or goes on.
Scanned(t) ==
    /\ pc[t] = "sending" /\ taken[t]
    /\ IF form[t].kind = "submit" /\ Passed(seen[t])
       THEN Send(t, "advancing")
       ELSE Finish(t)
    /\ UNCHANGED <<serviceVars, bundle>>

\* submit_public_dsr, of a form without a proof.
SubmitBare(t) ==
    /\ pc[t] = "fetched" /\ seen[t] = "passed"
    /\ form[t].kind = "submit" /\ form[t].file = NoFile
    /\ Send(t, "advancing")
    /\ UNCHANGED <<serviceVars, bundle>>

\* The service makes request r of a submission.
TakeSubmission(f, r, verdict) ==
    /\ email[r] = Nobody
    /\ email' = [email EXCEPT ![r] = f.email]
    /\ cited' = [cited EXCEPT ![r] = verdict]
    /\ UNCHANGED proofs

\* What the scan of a submission's proof may have said.
Citable(f) == IF f.file = NoFile THEN {"none"} ELSE {v \in Verdict : Passed(v)}

ServiceSubmits(t) ==
    /\ pc[t] = "advancing" /\ Pending(t)
    /\ \E r \in Requests :
         /\ TakeSubmission(form[t], r, IF form[t].file = NoFile THEN "none" ELSE seen[t])
         /\ seen' = [seen EXCEPT ![t] = r]
    /\ taken' = [taken EXCEPT ![t] = TRUE]
    /\ UNCHANGED <<pc, form, late, bundle>>

ServiceTakesLate(m) ==
    /\ TakeLate(m)
    /\ \/ /\ m.op = "submit"
          /\ \E r \in Requests, v \in Citable(m.form) : TakeSubmission(m.form, r, v)
       \/ m.op = "identity_upload" /\ TakeProof(m.form) /\ UNCHANGED <<email, cited>>
    /\ UNCHANGED bundle

\* Three tokens for the reference the service gave.
IssueBundle(t) ==
    /\ pc[t] = "advancing" /\ taken[t]
    /\ bundle' = [bundle EXCEPT ![seen[t]] = "good"]
    /\ Finish(t)
    /\ UNCHANGED serviceVars

OpOf(t) == IF pc[t] = "advancing" THEN "submit" ELSE "identity_upload"

Fails(t) ==
    /\ CallFails(t, OpOf(t))
    /\ UNCHANGED <<serviceVars, bundle>>

\* Seven days after they were issued, all at once.
Expire(r) ==
    /\ bundle[r] = "good"
    /\ bundle' = [bundle EXCEPT ![r] = "expired"]
    /\ UNCHANGED <<callVars, serviceVars>>

TaskStep(t) ==
    \/ Honeypot(t) \/ Mismatch(t) \/ VerifyCaptcha(t) \/ CaptchaFailed(t)
    \/ ProofRefused(t) \/ UploadProof(t) \/ LookUp(t) \/ ServiceScans(t)
    \/ Scanned(t) \/ SubmitBare(t) \/ ServiceSubmits(t) \/ IssueBundle(t) \/ Fails(t)

Next ==
    \/ \E t \in Tasks, f \in Form : Post(t, f)
    \/ \E t \in Tasks : TaskStep(t)
    \/ \E m \in late : ServiceTakesLate(m)
    \/ \E r \in Requests : Expire(r)

Spec == Init /\ [][Next]_vars

-----------------------------------------------------------------------------
\* AMD-05: a proof of identity that bears the reference of a request was sent by
\* someone with the address the request was submitted with, though the reference
\* and the address are typed into the form (submit.py:359-371).
ProofsBelong ==
    \A p \in proofs : p.reference # NoReference => email[p.reference] = p.email

\* AMD-26: no request is submitted on the strength of a proof the service found
\* infected, however its scan and its submission fall (submit.py:186-200).
CitedProofsPassed == \A r \in Requests : cited[r] # "infected"
=============================================================================
