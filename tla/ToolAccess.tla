------------------------------- MODULE ToolAccess -------------------------------
(***************************************************************************)
(* Whether an agent may use a tool: evaluateToolPolicy (policy.ts) and     *)
(* checkToolPermission (permissions.ts), two independent decisions, as     *)
(* functions of the request, the tool, the permission and the time.        *)
(*                                                                         *)
(* A permission's expiresAt is None when it is absent or does not parse:   *)
(* Date.parse gives NaN, and no comparison with NaN is true.               *)
(***************************************************************************)
EXTENDS Integers

CONSTANT None

highImpact == {"TRANSACTION", "DESTRUCTIVE"}

(* evaluateExecutionPolicy: an objective is blank or not. *)
evaluateExecutionPolicy(request) ==
  [allowed |-> ~request.blank, requiresApproval |-> ~request.blank /\ request.requiresApproval]

evaluateToolPolicy(request, tool) ==
  LET listed == request.agentId \in tool.allowedAgents IN
  [allowed |-> listed,
   requiresApproval |-> listed /\ (request.requiresApproval \/ tool.sideEffect \in highImpact)]

Expired(permission, now) == permission.expiresAt # None /\ permission.expiresAt <= now

checkToolPermission(request, tool, permission, now) ==
  /\ permission # None
  /\ permission.tenantId = request.tenantId
  /\ permission.agentId = request.agentId
  /\ permission.toolId = tool.toolId
  /\ permission.allowed
  /\ permission.permission = tool.requiredPermission
  /\ ~Expired(permission, now)
=============================================================================
