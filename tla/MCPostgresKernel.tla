--------------------------- MODULE MCPostgresKernel ---------------------------
(***************************************************************************)
(* Instances of PostgresKernel for TLC.  Each Calls value makes one kind   *)
(* of conflict happen often while it keeps the state space small.          *)
(***************************************************************************)
EXTENDS PostgresKernel

CONSTANTS e1, e2, t1, t2, k1

Start(e, t, d, k) ==
  [op |-> "start", execution |-> e, tenant |-> t, decision |-> d, key |-> k]
Decide(e, a, v) == [op |-> "decide", execution |-> e, ticket |-> a, verdict |-> v]
Transition(e, s) == [op |-> "transition", execution |-> e, target |-> s]
Fail(e) == [op |-> "fail", execution |-> e]

(* Two gated executions; deciders that agree, disagree and mix up the      *)
(* approvals; a failure that leaves its approval behind.                   *)
RaceCalls ==
  {Start(e1, t1, "GATED", None), Start(e2, t1, "GATED", None),
   Decide(e1, e1, "APPROVED"), Decide(e1, e1, "REJECTED"),
   Decide(e2, e2, "APPROVED"), Decide(e1, e2, "APPROVED"),
   Decide(e2, e1, "REJECTED"), Fail(e1), Transition(e1, "EVIDENCE")}

(* One key, reused for the same request, for another request of the tenant *)
(* and by another tenant; the same execution id claimed twice.             *)
KeyCalls ==
  {Start(e1, t1, "OPEN", k1), Start(e2, t1, "DENIED", k1),
   Start(e2, t2, "GATED", k1), Start(e1, t1, "OPEN", None)}

(* One gated execution, decided, failed or left alone. *)
GateCalls ==
  {Start(e1, t1, "GATED", None), Decide(e1, e1, "APPROVED"), Fail(e1)}

(* The same, or an execution that reaches its gate by transition() and has *)
(* no approval there.                                                      *)
LateGateCalls ==
  GateCalls \cup {Start(e1, t1, "OPEN", None)} \cup
  {Transition(e1, s) : s \in {"CONTEXT", "POLICY_CHECK", "PLANNING",
                              "TOOL_PERMISSION_CHECK", "APPROVAL"}}

(* Every step of the table on one execution, by competing callers, with    *)
(* the gates reached by transition() as well as by start().                *)
TableCalls ==
  {Start(e1, t1, d, None) : d \in Decisions} \cup {Fail(e1), Decide(e1, e1, "APPROVED")}
  \cup {Transition(e1, s) : s \in ExecutionStatus}

(* The whole table on one of the two gated executions that others race.    *)
TableRaceCalls == RaceCalls \cup TableCalls
=============================================================================
