------------------------------- MODULE MfaNonce -------------------------------
(***************************************************************************)
(* The single-use nonces of src/portal/auth/mfa.py and the freshness of    *)
(* the step-up they go with.  A sign action of the portal (a gate          *)
(* decision, a report signature, a review sign-off) extends this module    *)
(* and composes its operations into its own handlers.                      *)
(*                                                                         *)
(* A nonce lives in the backend of the worker process that issued it:      *)
(* BackendOf maps every worker to one backend when the manager is given a  *)
(* Redis client, and to a backend of its own when it is not.               *)
(***************************************************************************)
EXTENDS Naturals

CONSTANTS
    Users,          \* user_sub of the users allowed to sign
    Actions,        \* what a nonce can be bound to
    Nonces,         \* tokens; secrets.token_urlsafe never repeats one
    Workers,        \* uvicorn worker processes
    BackendOf,      \* the backend each worker's manager uses
    NonceMaxAge,    \* max_age_s of the manager, in ticks
    MfaMaxAge,      \* max_age_s of require_mfa, in ticks
    Unissued        \* binding of a token nobody has drawn yet

ASSUME NonceAssumption ==
    /\ NonceMaxAge \in Nat
    /\ MfaMaxAge \in Nat
    /\ DOMAIN BackendOf = Workers

Binding ==
    [sub : Users, action : Actions, backend : {BackendOf[w] : w \in Workers}]

ASSUME UnissuedAssumption == Unissued \notin Binding

VARIABLES
    binding,        \* what each nonce was issued for, and in which backend
    stored,         \* nonces whose record is still in its backend
    nonceAge,       \* ticks since issued_at of a stored record, up to NonceMaxAge + 1
    mfaAge          \* ticks since mfa_at of each user, up to MfaMaxAge + 1

nonceVars == <<binding, stored, nonceAge>>
mfaVars == <<nonceVars, mfaAge>>

NonceTypeOK ==
    /\ binding \in [Nonces -> Binding \cup {Unissued}]
    /\ stored \subseteq Nonces
    /\ nonceAge \in [Nonces -> 0 .. NonceMaxAge + 1]
    /\ mfaAge \in [Users -> 0 .. MfaMaxAge + 1]

\* mfa_at is None or too old at first: the two are refused alike.
NonceInit ==
    /\ binding = [n \in Nonces |-> Unissued]
    /\ stored = {}
    /\ nonceAge = [n \in Nonces |-> 0]
    /\ mfaAge = [u \in Users |-> MfaMaxAge + 1]

-----------------------------------------------------------------------------
\* MfaNonceManager.issue on worker w.
Issue(w, n, u, a) ==
    /\ binding[n] = Unissued
    /\ binding' = [binding EXCEPT ![n] = [sub |-> u, action |-> a,
                                          backend |-> BackendOf[w]]]
    /\ stored' = stored \cup {n}
    /\ nonceAge' = [nonceAge EXCEPT ![n] = 0]

\* getdel on worker w finds the record ...
Found(w, n) == n \in stored /\ binding[n].backend = BackendOf[w]

\* Mutants: the action is not compared; the last second is not granted.
Valid_AnyAction(n, u, a) ==
    /\ nonceAge[n] <= NonceMaxAge
    /\ binding[n].sub = u

Valid_Strict(n, u, a) ==
    /\ nonceAge[n] < NonceMaxAge
    /\ binding[n].sub = u
    /\ binding[n].action = a

\* ... which is still young enough, and bound to this user and action.
Valid(n, u, a) ==
    /\ nonceAge[n] <= NonceMaxAge
    /\ binding[n].sub = u
    /\ binding[n].action = a

Accepts(w, n, u, a) == Found(w, n) /\ Valid(n, u, a)

\* Mutant: the record is read and left there.
Consume_Keeps(w, n) == UNCHANGED nonceVars

\* MfaNonceManager.consume: the record is gone before it is looked at.
Consume(w, n) ==
    /\ stored' = IF Found(w, n) THEN stored \ {n} ELSE stored
    /\ UNCHANGED <<binding, nonceAge>>

\* require_mfa(max_age_s) lets through a User whose mfa_at is that old.
MfaFresh(age) == age <= MfaMaxAge

\* The user completes a step-up at the identity provider.
StepUp(u) ==
    /\ mfaAge' = [mfaAge EXCEPT ![u] = 0]
    /\ UNCHANGED nonceVars

Later(age, bound) == IF age < bound THEN age + 1 ELSE bound

NonceTick ==
    /\ nonceAge' = [n \in Nonces |-> IF n \in stored
                                      THEN Later(nonceAge[n], NonceMaxAge + 1)
                                      ELSE nonceAge[n]]
    /\ mfaAge' = [u \in Users |-> Later(mfaAge[u], MfaMaxAge + 1)]
    /\ UNCHANGED <<binding, stored>>
=============================================================================
