-------------------------- MODULE ExecutionLifecycle --------------------------
(***************************************************************************)
(* What the execution kernel promises, without transactions, locks,        *)
(* approvals or clocks: every execution has an append-only history that    *)
(* obeys the state machine, and the outbox holds exactly the executions    *)
(* that a caller or an approver released for work.  Several executions may *)
(* move in one step, because one transaction of the expiry sweep rejects a *)
(* whole batch.  PostgresKernel implements this specification.             *)
(***************************************************************************)
EXTENDS StateMachine

CONSTANT Executions     \* the execution ids

VARIABLES history,      \* [Executions -> Seq(ExecutionStatus)]: the event log
          outbox        \* the executions with a row in the dispatch outbox

vars == <<history, outbox>>

Init == /\ history = [e \in Executions |-> <<>>]
        /\ outbox = {}

(* An execution starts; it is released at once only if nothing gates it. *)
Begin(e) == /\ history[e] = <<>>
            /\ \E s \in StartStatuses : history'[e] = <<s>>
            /\ e \in outbox' <=> history'[e] = <<"INTAKE">>

(* An execution moves along the table; only leaving an approval gate for   *)
(* EXECUTION may release it.                                               *)
Advance(e) ==
  /\ history[e] # <<>>
  /\ \E s \in ExecutionStatus :
       /\ CanTransition(history[e][Len(history[e])], s)
       /\ history'[e] = Append(history[e], s)
       /\ e \in outbox' =>
            \/ e \in outbox
            \/ history[e][Len(history[e])] = "APPROVAL" /\ s = "EXECUTION"
  /\ e \in outbox => e \in outbox'

Rest(e) == /\ history'[e] = history[e]
           /\ e \in outbox' <=> e \in outbox

Next == /\ history' \in [Executions -> Seq(ExecutionStatus)]
        /\ outbox' \in SUBSET Executions
        /\ \A e \in Executions : Begin(e) \/ Advance(e) \/ Rest(e)

Spec == Init /\ [][Next]_vars
=============================================================================
