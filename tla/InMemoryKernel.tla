---------------------------- MODULE InMemoryKernel ----------------------------
(***************************************************************************)
(* ExecutionKernel over InMemoryEventLog: the facade the domain tests use. *)
(* It is synchronous, so each call is one step.                            *)
(***************************************************************************)
EXTENDS StateMachine

CONSTANTS Executions,
          MaxEvents        \* bound on the length of a history

VARIABLES events,          \* InMemoryEventLog.events: execution id -> statuses
          audit            \* InMemoryAuditLog: the policy checks made, per execution

vars == <<events, audit>>

Init == /\ events = [e \in Executions |-> <<>>]
        /\ audit = [e \in Executions |-> 0]

append(e, status) == /\ Len(events[e]) < MaxEvents
                     /\ events' = [events EXCEPT ![e] = Append(@, status)]

latestStatus(e) == events[e][Len(events[e])]

(* assertTransition guards a known execution only. *)
Permitted(e, status) == events[e] # <<>> => CanTransition(latestStatus(e), status)

start(e, decision) ==
  /\ IF decision = "DENIED"
       THEN /\ Permitted(e, "REJECTED")
            /\ append(e, "REJECTED")
       ELSE append(e, "INTAKE")
  /\ audit' = [audit EXCEPT ![e] = @ + 1]

(* The policy check is audited before assertTransition throws. *)
startRefused(e) ==
  /\ ~Permitted(e, "REJECTED")
  /\ audit[e] < MaxEvents
  /\ audit' = [audit EXCEPT ![e] = @ + 1]
  /\ UNCHANGED events

transition(e, status) == Permitted(e, status) /\ append(e, status) /\ UNCHANGED audit

(* Both branches of fail() append FAILED; the second without a check. *)
fail(e) == append(e, "FAILED") /\ UNCHANGED audit

Next == \E e \in Executions :
          \/ \E d \in Decisions : start(e, d)
          \/ startRefused(e)
          \/ \E s \in ExecutionStatus : transition(e, s)
          \/ fail(e)

Spec == Init /\ [][Next]_vars

-----------------------------------------------------------------------------
(* "Invalid state transitions are rejected." (docs/SYSTEM_0_IMPLEMENTATION.md:42): *)
(* every status of a history is reached from the one before it by the table.       *)
InvalidTransitionsRejected ==
  \A e \in Executions : \A i \in 1..(Len(events[e]) - 1) :
    CanTransition(events[e][i], events[e][i + 1])
=============================================================================
