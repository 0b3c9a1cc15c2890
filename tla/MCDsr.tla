------------------------------- MODULE MCDsr --------------------------------
(***************************************************************************)
(* The two sides of the requests of data subjects, each in its own         *)
(* process: the officers' (DsrLifecycle) and the public one (PublicDsr).   *)
(* They share nothing but the compliance service, of which each side sees  *)
(* what the other cannot touch, so a behaviour is of one part or of the    *)
(* other.                                                                  *)
(***************************************************************************)
EXTENDS DsrLifecycle, TLC

CONSTANTS References, Emails, Files, NoReference, Nobody, NoFile

VARIABLES part, email, cited, proofs, bundle

P == INSTANCE PublicDsr WITH Requests <- References

\* What is no address and no reference is none, and a file has a type and bytes.
ASSUME PublicAssumption ==
    /\ Nobody \notin Emails /\ NoReference \notin References
    /\ Files \subseteq P!FileType

publicVars == <<email, cited, proofs, bundle>>
mcVars == <<part, vars, publicVars>>

\* A proof as it should be, one with the other name of its type, one too large.
MCFiles == {[fits |-> TRUE, type |-> "image/png", bytes |-> "image/png"],
            [fits |-> TRUE, type |-> "image/jpg", bytes |-> "image/jpeg"],
            [fits |-> FALSE, type |-> "image/png", bytes |-> "image/png"]}

MCSymmetry ==
    Permutations(Users) \cup Permutations(References) \cup Permutations(Emails)

\* Bound: a request leaves the straight way once, and one event about it is
\* recorded.
OneDetour ==
    \A r \in Requests :
        /\ Cardinality(reached[r] \cap
                {"rejected", "identity_rejected", "identity_insufficient"}) < 2
        /\ Cardinality({e \in audited : e.request = r}) < 2

MCInit ==
    /\ part \in {"officers", "public"} /\ Init /\ P!Init
    /\ part = "public" => \A r \in Requests : submittedBy[r] = Public

MCNext ==
    \/ part = "officers" /\ Next /\ UNCHANGED <<part, publicVars>>
    \/ part = "public" /\ P!Next /\ UNCHANGED <<part, serviceVars, audited>>

MCSpec == MCInit /\ [][MCNext]_mcVars

-----------------------------------------------------------------------------
\* Both modules' type invariants (DsrLifecycle, PublicDsr).
BothTypesOK == IF part = "officers" THEN TypeOK ELSE P!TypeOK

\* PublicDsr's ProofsBelong: AMD-05, the cross-check of submit.py:359-371.
ProofsBelong == P!ProofsBelong

\* PublicDsr's CitedProofsPassed: AMD-26, submit.py:186-200.
CitedProofsPassed == P!CitedProofsPassed
=============================================================================
