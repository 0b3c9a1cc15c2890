---------------------------- MODULE MCGateDecision ----------------------------
(***************************************************************************)
(* GateDecision with two officers, two workers, two sensitive gates (one   *)
(* the first officer triggered, one nobody did), and a gate of low         *)
(* classification the second officer triggered.  Workers that share one    *)
(* backend are indistinguishable, so one stands for all of them there.     *)
(***************************************************************************)
EXTENDS GateDecision, TLC

CONSTANTS alice, bob, secret, sealed, plain, w1, w2

MCTriggeredBy == secret :> alice @@ sealed :> NoOne @@ plain :> bob
MCSharedBackend == [w \in Workers |-> "redis"]
MCOwnBackend == [w \in Workers |-> w]

MCSymmetry == Permutations(Nonces) \cup Permutations(Tasks)
=============================================================================
