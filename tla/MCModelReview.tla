---------------------------- MODULE MCModelReview ----------------------------
(***************************************************************************)
(* ModelReview for officers on one worker.                                 *)
(***************************************************************************)
EXTENDS ModelReview, TLC

MCBackendOf == [w \in Workers |-> "redis"]

MCSymmetry ==
    Permutations(Tasks) \cup Permutations(Nonces) \cup Permutations(Actions)
        \cup Permutations(Users)
=============================================================================
