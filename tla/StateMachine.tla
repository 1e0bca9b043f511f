---------------------------- MODULE StateMachine ----------------------------
(***************************************************************************)
(* The status vocabulary of an execution and the table of permitted        *)
(* transitions (src/kernel/state-machine.ts, src/kernel/types.ts).  The    *)
(* module has no state: every kernel module extends it.                    *)
(***************************************************************************)
EXTENDS Naturals, Sequences

ExecutionStatus ==
  {"INTAKE", "CONTEXT", "POLICY_CHECK", "PLANNING", "TOOL_PERMISSION_CHECK",
   "ACTION", "VALIDATION", "APPROVAL", "EXECUTION", "EVIDENCE", "OUTCOME",
   "EVALUATION", "LEARNING", "FAILED", "REJECTED"}

transitions ==
  [s \in ExecutionStatus |->
     CASE s = "INTAKE"                -> {"CONTEXT", "FAILED"}
       [] s = "CONTEXT"               -> {"POLICY_CHECK", "FAILED"}
       [] s = "POLICY_CHECK"          -> {"PLANNING", "REJECTED", "FAILED"}
       [] s = "PLANNING"              -> {"TOOL_PERMISSION_CHECK", "FAILED"}
       [] s = "TOOL_PERMISSION_CHECK" -> {"ACTION", "APPROVAL", "REJECTED", "FAILED"}
       [] s = "ACTION"                -> {"VALIDATION", "FAILED"}
       [] s = "VALIDATION"            -> {"APPROVAL", "EXECUTION", "FAILED"}
       [] s = "APPROVAL"              -> {"EXECUTION", "REJECTED", "FAILED"}
       [] s = "EXECUTION"             -> {"EVIDENCE", "FAILED"}
       [] s = "EVIDENCE"              -> {"OUTCOME", "FAILED"}
       [] s = "OUTCOME"               -> {"EVALUATION", "FAILED"}
       [] s = "EVALUATION"            -> {"LEARNING", "FAILED"}
       [] OTHER                       -> {}]

CanTransition(from, to) == to \in transitions[from]

(* The statuses fail() refuses to leave. *)
FaultyTerminalStatus == {"FAILED", "LEARNING"}
TerminalStatus == {"FAILED", "REJECTED", "LEARNING"}

(* What evaluateExecutionPolicy may answer: refuse, ask a human, let run. *)
Decisions == {"DENIED", "GATED", "OPEN"}

(* The status start() gives an execution for each policy decision. *)
StartStatus(decision) ==
  IF decision = "DENIED" THEN "REJECTED"
  ELSE IF decision = "GATED" THEN "APPROVAL" ELSE "INTAKE"

StartStatuses == {"REJECTED", "APPROVAL", "INTAKE"}

(* A legal history: it opens with a start status and follows the table. *)
Legal(history) ==
  history # <<>> =>
    /\ history[1] \in StartStatuses
    /\ \A i \in 1..(Len(history) - 1) : CanTransition(history[i], history[i + 1])
=============================================================================
