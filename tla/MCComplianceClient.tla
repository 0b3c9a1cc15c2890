------------------------- MODULE MCComplianceClient -------------------------
(***************************************************************************)
(* ComplianceClient on a small instance: a GET, a write and an upload,     *)
(* one of each at a time, share the breaker.                               *)
(***************************************************************************)
EXTENDS ComplianceClient

\* Every way an attempt may end, and those record_* is told about.
MCAllOutcomes == AllOutcomes
MCRecordedOutcomes == {"ok", "redirect", "unavailable"}
=============================================================================
