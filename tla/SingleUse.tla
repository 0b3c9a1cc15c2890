------------------------------ MODULE SingleUse ------------------------------
(***************************************************************************)
(* What the nonce manager promises its callers: a token is issued once to  *)
(* one holder, and is used at most once, by a request of that holder, or   *)
(* is burnt.  Which process holds it, how old it may be and how a request  *)
(* proceeds are left to the implementation.                                *)
(***************************************************************************)
CONSTANTS Tokens, Holders, NoHolder, Requests

VARIABLES holder, live, usedBy

TypeOK ==
    /\ holder \in [Tokens -> Holders \cup {NoHolder}]
    /\ live \subseteq Tokens
    /\ usedBy \in [Tokens -> SUBSET Requests]

Init ==
    /\ holder = [n \in Tokens |-> NoHolder]
    /\ live = {}
    /\ usedBy = [n \in Tokens |-> {}]

IssueTo(n, h) ==
    /\ holder[n] = NoHolder
    /\ holder' = [holder EXCEPT ![n] = h]
    /\ live' = live \cup {n}
    /\ UNCHANGED usedBy

Use(n, r) ==
    /\ n \in live
    /\ live' = live \ {n}
    /\ usedBy' = [usedBy EXCEPT ![n] = {r}]
    /\ UNCHANGED holder

Burn(n) ==
    /\ n \in live
    /\ live' = live \ {n}
    /\ UNCHANGED <<holder, usedBy>>

Next ==
    \E n \in Tokens :
        \/ \E h \in Holders : IssueTo(n, h)
        \/ \E r \in Requests : Use(n, r)
        \/ Burn(n)

Spec == Init /\ [][Next]_<<holder, live, usedBy>>
=============================================================================
