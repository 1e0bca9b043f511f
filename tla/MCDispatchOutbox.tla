-------------------------- MODULE MCDispatchOutbox --------------------------
(***************************************************************************)
(* Instances of DispatchOutbox for TLC.                                    *)
(***************************************************************************)
EXTENDS DispatchOutbox

(* What the other callers do while the worker runs: approve, fail, repeat  *)
(* the worker's own transition, move on.                                   *)
CallerTargets == {"CONTEXT", "POLICY_CHECK", "EXECUTION", "FAILED"}

(* Enough to open a gate. *)
GateTargets == {"EXECUTION"}
=============================================================================
