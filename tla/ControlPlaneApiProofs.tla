-------------------------- MODULE ControlPlaneApiProofs --------------------------
(***************************************************************************)
(* Who decides and what is answered, for any executions, tenants, headers, *)
(* environment and number of connections of ControlPlaneApi.               *)
(***************************************************************************)
EXTENDS ControlPlaneApi, StateMachineProofs, TLAPS

Shape ==
  /\ DOMAIN principal = Connections /\ DOMAIN request = Connections
  /\ DOMAIN detail = Connections /\ DOMAIN response = Connections

(* What the checks made so far let a request go on with. *)
Serving ==
  \A c \in Connections :
    /\ pc[c] # "idle" => principal[c] \in Callers
    /\ pc[c] \in {"get", "parts", "post", "decide"} => request[c].execution \in Executions
    /\ pc[c] \in {"post", "decide"} => canDecide(principal[c]) /\ request[c].verdict \in Verdicts
    /\ pc[c] \in {"parts", "decide"} => TenantOf[request[c].execution] = Tenant(c)

Reached(s, history) == \E i \in DOMAIN history : history[i] = s

(* The status read first is in the log, and in whatever was read of it. *)
Reading ==
  \A c \in Connections :
    /\ pc[c] # "parts" => detail[c] = NoDetail
    /\ pc[c] = "parts" =>
         /\ detail[c] = [status |-> detail[c].status, events |-> detail[c].events,
                         approval |-> detail[c].approval]
         /\ Reached(detail[c].status, events[request[c].execution])
         /\ detail[c].events # Absent => Reached(detail[c].status, detail[c].events)

(* An execution that somebody was told to have decided has been decided. *)
Settled ==
  \A c \in Connections :
    /\ Decided(c) => /\ response[c].execution \in Executions
                     /\ approval[response[c].execution] # "PENDING"
    /\ response[c].code = 409 => response[c].execution \in Executions

(* A gate that the audit log calls settled will not be waited at again. *)
Audited ==
  \A e \in Executions : audit[e] # <<>> => events[e] # <<>> /\ Status(e) \in AfterGate

IInv ==
  /\ TypeOK /\ Shape /\ Serving /\ Reading /\ Settled /\ Audited
  /\ DecisionAuthorized /\ AnswersAreTrue /\ ActiveIsReached /\ ReadsAreScoped
-----------------------------------------------------------------------------
(* What a step may do to the rows of an execution. *)

EventsGrow ==
  \A e \in Executions :
    \/ events'[e] = events[e]
    \/ \E s \in ExecutionStatus :
         /\ events'[e] = Append(events[e], s)
         /\ events[e] = <<>> \/ CanTransition(Status(e), s)

PendingOnlyAtStart ==
  \A e \in Executions : approval'[e] = "PENDING" => approval[e] = "PENDING" \/ events[e] = <<>>

Unaudited(e) ==
  /\ audit'[e] = audit[e]
  /\ approval'[e] \in Verdicts => approval'[e] = approval[e] /\ decidedBy'[e] = decidedBy[e]

Entry(actor, verdict) == [actor |-> actor, verdict |-> verdict]

AuditsExpiry(e) ==
  /\ audit'[e] = Append(audit[e], Entry(ExpiryActor, "EXPIRED"))
  /\ approval'[e] = "EXPIRED"

AuditsDecision(e) ==
  \E c \in Connections :
    /\ pc[c] = "decide" /\ request[c].execution = e
    /\ audit'[e] = Append(audit[e], Entry(principal[c].subject, request[c].verdict))
    /\ approval'[e] = request[c].verdict /\ decidedBy'[e] = principal[c].subject

(* An entry is added when the execution leaves its gate, by an expiry or   *)
(* by a request that has passed its checks.                                *)
AuditSteps ==
  \A e \in Executions :
    \/ Unaudited(e)
    \/ /\ Waiting(e) /\ events'[e] # events[e]
       /\ AuditsExpiry(e) \/ AuditsDecision(e)

RowsTyped ==
  /\ events' \in [Executions -> Seq(ExecutionStatus)]
  /\ approval' \in [Executions -> ApprovalStatus]
  /\ decidedBy' \in [Executions -> Actors \cup {Absent}]
  /\ audit' \in [Executions -> Seq(AuditEntries)]

RowsStep == EventsGrow /\ PendingOnlyAtStart /\ AuditSteps /\ RowsTyped

(* What a step may do to a connection. *)

Same(c) ==
  /\ pc'[c] = pc[c] /\ principal'[c] = principal[c] /\ request'[c] = request[c]
  /\ detail'[c] = detail[c] /\ response'[c] = response[c]

Accepts(c) ==
  \E r \in Requests, h \in Headers :
    /\ Resolved(resolvePrincipal(h, Env)) /\ Permitted(resolvePrincipal(h, Env), r)
    /\ r.kind # "unreadable" /\ WellFormed(r)
    /\ pc[c] = "idle" /\ pc'[c] = r.kind
    /\ principal'[c] = resolvePrincipal(h, Env) /\ request'[c] = r
    /\ detail'[c] = detail[c] /\ response'[c] = [code |-> Absent]

GoesOn(c) ==
  principal'[c] = principal[c] /\ request'[c] = request[c] /\ response'[c] = response[c]

Finds(c) ==
  /\ pc[c] = "get" /\ request[c].execution \in Visible(c)
  /\ pc'[c] = "parts" /\ GoesOn(c)
  /\ detail'[c] = [detail[c] EXCEPT !.status = Status(request[c].execution)]

ReadsPart(c) ==
  /\ pc[c] = "parts" /\ pc'[c] = "parts" /\ GoesOn(c)
  /\ \/ detail'[c] = [detail[c] EXCEPT !.events = events[request[c].execution]]
     \/ detail'[c] = [detail[c] EXCEPT !.approval = approval[request[c].execution]]

Owns(c) ==
  /\ pc[c] = "post" /\ Owned(c)
  /\ pc'[c] = "decide" /\ GoesOn(c) /\ detail'[c] = detail[c]

Refusals == {400, 401, 403, 404, 413, 422, 500}

Decides(c) ==
  /\ pc[c] = "decide" /\ pc'[c] = "idle" /\ Decidable(request[c].execution)
  /\ events' = [events EXCEPT ![request[c].execution] = Append(@, Outcome(request[c].verdict))]
  /\ approval' = [approval EXCEPT ![request[c].execution] = request[c].verdict]
  /\ response'[c] = [code |-> 200, execution |-> request[c].execution, verdict |-> request[c].verdict]

Expires(c) ==
  /\ pc[c] = "decide" /\ Decidable(request[c].execution)
  /\ events' = [events EXCEPT ![request[c].execution] = Append(@, "REJECTED")]
  /\ response'[c] = [code |-> 409, execution |-> request[c].execution]

Refused(c) == \E code \in Refusals : response'[c] = [code |-> code]

Listed(c) ==
  /\ pc[c] = "list"
  /\ response'[c] = [code |-> 200, tenant |-> Tenant(c), executions |-> Visible(c)]

Detailed(c) ==
  /\ pc[c] = "parts" /\ detail[c].events # Absent
  /\ response'[c] = [code |-> 200, tenant |-> Tenant(c),
                     execution |-> request[c].execution, detail |-> detail[c]]

Replies(c) ==
  /\ pc'[c] = "idle" /\ detail'[c] = NoDetail
  /\ Refused(c) \/ Listed(c) \/ Detailed(c) \/ Decides(c) \/ Expires(c)

ConnectionStep(c) ==
  Same(c) \/ Accepts(c) \/ Finds(c) \/ ReadsPart(c) \/ Owns(c) \/ Replies(c)

(* A step of one connection leaves the others alone. *)
Steps ==
  /\ pc' = pc \/ \E c \in Connections : \E label : pc' = [pc EXCEPT ![c] = label]
  /\ DOMAIN principal' = Connections /\ DOMAIN request' = Connections
  /\ DOMAIN detail' = Connections /\ DOMAIN response' = Connections
  /\ \A c \in Connections : ConnectionStep(c)
  /\ \A c, d \in Connections : Same(c) \/ Same(d) \/ c = d

LEMMA AppendGrows ==
  ASSUME TypeOK, NEW e \in Executions, NEW s \in ExecutionStatus,
         events[e] = <<>> \/ CanTransition(Status(e), s),
         events' = events \/ events' = [events EXCEPT ![e] = Append(@, s)]
  PROVE  EventsGrow /\ events' \in [Executions -> Seq(ExecutionStatus)]
<1>1. events \in [Executions -> Seq(ExecutionStatus)]
  BY DEF TypeOK
<1>2. CASE events' = events
  BY <1>1, <1>2 DEF EventsGrow
<1>3. CASE events' = [events EXCEPT ![e] = Append(@, s)]
  <2>1. Append(events[e], s) \in Seq(ExecutionStatus)
    BY <1>1
  <2>2. events' \in [Executions -> Seq(ExecutionStatus)]
    BY <1>1, <1>3, <2>1
  <2>3. ASSUME NEW x \in Executions
        PROVE  \/ events'[x] = events[x]
               \/ \E t \in ExecutionStatus :
                    /\ events'[x] = Append(events[x], t)
                    /\ events[x] = <<>> \/ CanTransition(Status(x), t)
    <3>1. CASE x = e
      BY <1>1, <1>3, <3>1
    <3>2. CASE x # e
      BY <1>1, <1>3, <3>2
    <3> QED
      BY <3>1, <3>2
  <2> QED
    BY <2>2, <2>3 DEF EventsGrow
<1> QED
  BY <1>2, <1>3

LEMMA GateLeads ==
  ASSUME NEW e, Waiting(e), NEW s \in {"EXECUTION", "REJECTED"}
  PROVE  s \in ExecutionStatus /\ CanTransition(Status(e), s)
BY DEF Waiting, CanTransition, transitions, ExecutionStatus

LEMMA ApprovalTyped ==
  ASSUME TypeOK, NEW e \in Executions, NEW x \in ApprovalStatus, NEW by \in Actors \cup {Absent},
         events' \in [Executions -> Seq(ExecutionStatus)],
         audit' \in [Executions -> Seq(AuditEntries)],
         approval' = [approval EXCEPT ![e] = x], decidedBy' = [decidedBy EXCEPT ![e] = by]
  PROVE  RowsTyped
<1>1. /\ approval \in [Executions -> ApprovalStatus]
      /\ decidedBy \in [Executions -> Actors \cup {Absent}]
  BY DEF TypeOK
<1>2. approval' \in [Executions -> ApprovalStatus]
  BY <1>1
<1>3. decidedBy' \in [Executions -> Actors \cup {Absent}]
  BY <1>1
<1> QED
  BY <1>2, <1>3 DEF RowsTyped

LEMMA AuditTyped ==
  ASSUME TypeOK, NEW e \in Executions, NEW actor \in Actors,
         NEW verdict \in Verdicts \cup {"EXPIRED"}, Audit(e, actor, verdict)
  PROVE  /\ audit' \in [Executions -> Seq(AuditEntries)]
         /\ audit'[e] = Append(audit[e], Entry(actor, verdict))
         /\ \A x \in Executions \ {e} : audit'[x] = audit[x]
<1>1. audit \in [Executions -> Seq(AuditEntries)]
  BY DEF TypeOK
<1>2. Entry(actor, verdict) \in AuditEntries
  BY DEF Entry, AuditEntries
<1>3. audit' = [audit EXCEPT ![e] = Append(@, Entry(actor, verdict))]
  BY DEF Audit, Entry
<1>4. Append(audit[e], Entry(actor, verdict)) \in Seq(AuditEntries)
  BY <1>1, <1>2
<1> QED
  BY <1>1, <1>3, <1>4

(* A step that leaves the audit log alone and records no verdict. *)
LEMMA NoVerdict ==
  ASSUME TypeOK, UNCHANGED audit, NEW e \in Executions, NEW x, x \notin Verdicts, NEW by,
         \/ UNCHANGED <<approval, decidedBy>>
         \/ /\ approval' = [approval EXCEPT ![e] = x]
            /\ decidedBy' = [decidedBy EXCEPT ![e] = by]
  PROVE  AuditSteps /\ audit' \in [Executions -> Seq(AuditEntries)]
<1>1. audit' \in [Executions -> Seq(AuditEntries)]
  BY DEF TypeOK
<1>2. ASSUME NEW y \in Executions PROVE Unaudited(y)
  BY DEF Unaudited, TypeOK
<1> QED
  BY <1>1, <1>2 DEF AuditSteps

(* An execution that waits for its approval is rejected by an expiry. *)
LEMMA ExpirySteps ==
  ASSUME TypeOK, NEW e \in Executions, Waiting(e), Expiry(e)
  PROVE  RowsStep
<1>1. /\ events' = [events EXCEPT ![e] = Append(@, "REJECTED")]
      /\ approval' = [approval EXCEPT ![e] = "EXPIRED"]
      /\ decidedBy' = [decidedBy EXCEPT ![e] = ExpiryActor]
      /\ Audit(e, ExpiryActor, "EXPIRED")
  BY DEF Expiry, Record, SetApproval
<1>2. "REJECTED" \in ExecutionStatus /\ CanTransition(Status(e), "REJECTED")
  BY GateLeads
<1>3. EventsGrow /\ events' \in [Executions -> Seq(ExecutionStatus)]
  BY <1>1, <1>2, AppendGrows
<1>4. /\ audit' \in [Executions -> Seq(AuditEntries)]
      /\ audit'[e] = Append(audit[e], Entry(ExpiryActor, "EXPIRED"))
      /\ \A x \in Executions \ {e} : audit'[x] = audit[x]
  BY <1>1, AuditTyped DEF Actors
<1>5. RowsTyped
  BY <1>1, <1>3, <1>4, ApprovalTyped DEF ApprovalStatus, Actors
<1>6. PendingOnlyAtStart
  BY <1>1 DEF PendingOnlyAtStart, TypeOK
<1>7. AuditSteps
  <2>1. AuditsExpiry(e)
    BY <1>1, <1>4 DEF AuditsExpiry, TypeOK
  <2>2. events'[e] # events[e]
    BY <1>1 DEF TypeOK
  <2>3. ASSUME NEW x \in Executions \ {e} PROVE Unaudited(x)
    BY <1>1, <1>4 DEF Unaudited, TypeOK
  <2> QED
    BY <2>1, <2>2, <2>3 DEF AuditSteps
<1> QED
  BY <1>3, <1>5, <1>6, <1>7 DEF RowsStep

(* Every action does no more than that. *)
LEMMA RowsSteps == IInv /\ [Next]_vars => RowsStep
<1> SUFFICES ASSUME IInv, [Next]_vars PROVE RowsStep
  OBVIOUS
<1>0. TypeOK
  BY DEF IInv
<1>1. ASSUME UNCHANGED database PROVE RowsStep
  <2>1. EventsGrow /\ PendingOnlyAtStart /\ RowsTyped
    BY <1>0, <1>1 DEF TypeOK, database, EventsGrow, PendingOnlyAtStart, RowsTyped
  <2>2. AuditSteps
    BY <1>1 DEF database, AuditSteps, Unaudited
  <2> QED
    BY <2>1, <2>2 DEF RowsStep
<1>2. ASSUME NEW e \in Executions, NEW s \in StartStatuses, KernelStart(e, s)
      PROVE  RowsStep
  <2>1. s \in ExecutionStatus
    BY DEF StartStatuses, ExecutionStatus
  <2>2. /\ events[e] = <<>> /\ UNCHANGED audit
        /\ events' = [events EXCEPT ![e] = Append(@, s)]
    BY <1>2 DEF KernelStart, Record
  <2>3. \/ approval' = approval /\ decidedBy' = decidedBy
        \/ /\ approval' = [approval EXCEPT ![e] = "PENDING"]
           /\ decidedBy' = [decidedBy EXCEPT ![e] = Absent]
    BY <1>2 DEF KernelStart, SetApproval
  <2>4. EventsGrow /\ events' \in [Executions -> Seq(ExecutionStatus)]
    BY <1>0, <2>1, <2>2, AppendGrows
  <2>5. AuditSteps /\ audit' \in [Executions -> Seq(AuditEntries)]
    BY <1>0, <2>2, <2>3, NoVerdict DEF Verdicts
  <2>6. RowsTyped
    <3>1. CASE approval' = approval /\ decidedBy' = decidedBy
      BY <1>0, <2>4, <2>5, <3>1 DEF RowsTyped, TypeOK
    <3>2. CASE /\ approval' = [approval EXCEPT ![e] = "PENDING"]
               /\ decidedBy' = [decidedBy EXCEPT ![e] = Absent]
      BY <1>0, <2>4, <2>5, <3>2, ApprovalTyped DEF ApprovalStatus
    <3> QED
      BY <2>3, <3>1, <3>2
  <2>7. PendingOnlyAtStart
    BY <1>0, <2>2, <2>3 DEF PendingOnlyAtStart, TypeOK
  <2> QED
    BY <2>4, <2>5, <2>6, <2>7 DEF RowsStep
<1>3. ASSUME NEW e \in Executions, NEW s \in ExecutionStatus, KernelMove(e, s)
      PROVE  RowsStep
  <2>1. /\ CanTransition(Status(e), s) /\ UNCHANGED <<approval, decidedBy, audit>>
        /\ events' = [events EXCEPT ![e] = Append(@, s)]
    BY <1>3 DEF KernelMove, Record
  <2>2. EventsGrow /\ events' \in [Executions -> Seq(ExecutionStatus)]
    BY <1>0, <2>1, AppendGrows
  <2>3. RowsTyped /\ PendingOnlyAtStart
    BY <1>0, <2>1, <2>2 DEF RowsTyped, PendingOnlyAtStart, TypeOK
  <2>4. AuditSteps
    BY <2>1 DEF AuditSteps, Unaudited
  <2> QED
    BY <2>2, <2>3, <2>4 DEF RowsStep
<1>4. ASSUME NEW e \in Executions, KernelExpire(e) PROVE RowsStep
  <2>1. CASE Waiting(e)
    BY <1>0, <1>4, <2>1, ExpirySteps DEF KernelExpire
  <2>2. CASE ~Waiting(e)
    <3>1. /\ UNCHANGED <<events, audit>>
          /\ approval' = [approval EXCEPT ![e] = "EXPIRED"]
          /\ decidedBy' = [decidedBy EXCEPT ![e] = ExpiryActor]
      BY <1>4, <2>2 DEF KernelExpire, SetApproval
    <3>2. EventsGrow /\ events' \in [Executions -> Seq(ExecutionStatus)]
      BY <1>0, <3>1 DEF EventsGrow, TypeOK
    <3>3. AuditSteps /\ audit' \in [Executions -> Seq(AuditEntries)]
      BY <1>0, <3>1, NoVerdict DEF Verdicts
    <3>4. RowsTyped
      BY <1>0, <3>1, <3>2, <3>3, ApprovalTyped DEF ApprovalStatus, Actors
    <3>5. PendingOnlyAtStart
      BY <1>0, <3>1 DEF PendingOnlyAtStart, TypeOK
    <3> QED
      BY <3>2, <3>3, <3>4, <3>5 DEF RowsStep
  <2> QED
    BY <2>1, <2>2
<1>5. ASSUME NEW c \in Connections, Decide(c) PROVE RowsStep
  <2> DEFINE e == request[c].execution
             v == request[c].verdict
             s == Outcome(v)
             by == principal[c].subject
  <2>1. /\ pc[c] = "decide" /\ e \in Executions /\ Waiting(e)
        /\ v \in Verdicts /\ principal[c] \in Callers
    BY <1>5 DEF Decide, Decidable, IInv, Serving
  <2>2. s \in {"EXECUTION", "REJECTED"}
    BY DEF Outcome
  <2>3. /\ events' = [events EXCEPT ![e] = Append(@, s)]
        /\ approval' = [approval EXCEPT ![e] = v]
        /\ decidedBy' = [decidedBy EXCEPT ![e] = by]
        /\ Audit(e, by, v)
    BY <1>5 DEF Decide, Record, SetApproval
  <2>4. by \in Actors
    BY <2>1 DEF Actors
  <2> HIDE DEF e, v, s, by
  <2>5. v \in ApprovalStatus
    BY <2>1 DEF ApprovalStatus
  <2>6. s \in ExecutionStatus /\ CanTransition(Status(e), s)
    BY <2>1, <2>2, GateLeads
  <2>7. EventsGrow /\ events' \in [Executions -> Seq(ExecutionStatus)]
    BY <1>0, <2>1, <2>3, <2>6, AppendGrows
  <2>8. /\ audit' \in [Executions -> Seq(AuditEntries)]
        /\ audit'[e] = Append(audit[e], Entry(by, v))
        /\ \A x \in Executions \ {e} : audit'[x] = audit[x]
    BY <1>0, <2>1, <2>3, <2>4, AuditTyped
  <2>9. RowsTyped
    BY <1>0, <2>1, <2>3, <2>4, <2>5, <2>7, <2>8, ApprovalTyped
  <2>10. PendingOnlyAtStart
    BY <1>0, <2>1, <2>3 DEF PendingOnlyAtStart, Verdicts, TypeOK
  <2>11. AuditSteps
    <3>1. approval'[e] = v /\ decidedBy'[e] = by /\ events'[e] # events[e]
      BY <1>0, <2>1, <2>3, <2>6 DEF TypeOK
    <3>2. AuditsDecision(e)
      BY <2>1, <2>8, <3>1 DEF AuditsDecision, e, v, by
    <3>3. ASSUME NEW x \in Executions \ {e} PROVE Unaudited(x)
      BY <1>0, <2>3, <2>8 DEF Unaudited, TypeOK
    <3> QED
      BY <2>1, <3>1, <3>2, <3>3 DEF AuditSteps
  <2> QED
    BY <2>7, <2>9, <2>10, <2>11 DEF RowsStep
<1>6. ASSUME NEW c \in Connections, DecideExpired(c) PROVE RowsStep
  <2>1. pc[c] = "decide" /\ Waiting(request[c].execution) /\ Expiry(request[c].execution)
    BY <1>6 DEF DecideExpired, Decidable
  <2>2. request[c].execution \in Executions
    BY <2>1 DEF IInv, Serving
  <2> QED
    BY <1>0, <2>1, <2>2, ExpirySteps
<1>7. ASSUME NEW c \in Connections, Handler(c), ~Decide(c), ~DecideExpired(c)
      PROVE  UNCHANGED database
  BY <1>7 DEF Handler, ListExecutions, GetExecution, ReadEvents, ReadApprovals, GetReturns,
              CheckOwnership, DecideFails, QueryFails
<1>8. ASSUME NEW c \in Connections, NEW r \in Requests, NEW h \in Headers, Receive(c, r, h)
      PROVE  UNCHANGED database
  BY <1>8 DEF Receive
<1>9. ASSUME Kernel PROVE RowsStep
  <2>1. PICK e \in Executions :
          \/ \E s \in StartStatuses : KernelStart(e, s)
          \/ \E s \in ExecutionStatus : <<e, s>> \in Moves /\ KernelMove(e, s)
          \/ KernelExpire(e)
    BY <1>9 DEF Kernel
  <2>2. CASE \E s \in StartStatuses : KernelStart(e, s)
    BY <1>2, <2>2
  <2>3. CASE \E s \in ExecutionStatus : <<e, s>> \in Moves /\ KernelMove(e, s)
    BY <1>3, <2>3
  <2>4. CASE KernelExpire(e)
    BY <1>4, <2>4
  <2> QED
    BY <2>1, <2>2, <2>3, <2>4
<1>10. ASSUME NEW c \in Connections, Handler(c) PROVE RowsStep
  BY <1>1, <1>5, <1>6, <1>7, <1>10
<1>11. ASSUME UNCHANGED vars PROVE UNCHANGED database
  BY <1>11 DEF vars
<1> QED
  BY <1>1, <1>8, <1>9, <1>10, <1>11 DEF Next

(* A connection that changes while no other does. *)
Only(c) ==
  /\ pc' = pc \/ \E label : pc' = [pc EXCEPT ![c] = label]
  /\ DOMAIN principal' = Connections /\ DOMAIN request' = Connections
  /\ DOMAIN detail' = Connections /\ DOMAIN response' = Connections
  /\ \A d \in Connections \ {c} : Same(d)

LEMMA OnlySteps ==
  ASSUME NEW c \in Connections, Only(c), ConnectionStep(c)
  PROVE  Steps
BY DEF Only, Steps, ConnectionStep

LEMMA TouchesOnly ==
  ASSUME IInv, NEW c \in Connections,
         pc' = pc \/ \E x : pc' = [pc EXCEPT ![c] = x],
         principal' = principal \/ \E x : principal' = [principal EXCEPT ![c] = x],
         request' = request \/ \E x : request' = [request EXCEPT ![c] = x],
         detail' = detail \/ \E x : detail' = [detail EXCEPT ![c] = x],
         response' = response \/ \E x : response' = [response EXCEPT ![c] = x]
  PROVE  Only(c)
<1> USE DEF IInv, TypeOK, Shape
<1>1. pc' = pc \/ \E label : pc' = [pc EXCEPT ![c] = label]
  OBVIOUS
<1>2. /\ DOMAIN principal' = Connections /\ DOMAIN request' = Connections
      /\ DOMAIN detail' = Connections /\ DOMAIN response' = Connections
  OBVIOUS
<1>3. ASSUME NEW d \in Connections \ {c} PROVE Same(d)
  BY DEF Same
<1> QED
  BY <1>1, <1>2, <1>3 DEF Only

LEMMA LabelChanges ==
  ASSUME NEW c, NEW label, pc' = [pc EXCEPT ![c] = label]
  PROVE  \E x : pc' = [pc EXCEPT ![c] = x]
OBVIOUS

LEMMA RespondSteps ==
  ASSUME IInv, NEW c \in Connections, NEW answer, Respond(c, answer)
  PROVE  /\ Only(c) /\ pc'[c] = "idle" /\ detail'[c] = NoDetail
         /\ response'[c] = answer
<1> USE DEF IInv, TypeOK, Shape, Respond
<1>1. \E label : pc' = [pc EXCEPT ![c] = label]
  OBVIOUS
<1>2. /\ DOMAIN principal' = Connections /\ DOMAIN request' = Connections
      /\ DOMAIN detail' = Connections /\ DOMAIN response' = Connections
  OBVIOUS
<1>3. \A d \in Connections \ {c} : Same(d)
  BY DEF Same
<1>4. pc'[c] = "idle" /\ detail'[c] = NoDetail /\ response'[c] = answer
  OBVIOUS
<1> QED
  BY <1>1, <1>2, <1>3, <1>4 DEF Only

LEMMA RefuseSteps ==
  ASSUME IInv, NEW c \in Connections, NEW code \in Refusals, Refuse(c, code)
  PROVE  Steps
<1>1. Respond(c, [code |-> code])
  BY DEF Refuse
<1>2. Only(c) /\ pc'[c] = "idle" /\ detail'[c] = NoDetail /\ response'[c] = [code |-> code]
  BY <1>1, RespondSteps
<1>3. Replies(c)
  BY <1>2 DEF Replies, Refused
<1> QED
  BY <1>2, <1>3, OnlySteps DEF ConnectionStep

LEMMA ConnectionSteps == IInv /\ [Next]_vars => Steps
<1> SUFFICES ASSUME IInv, [Next]_vars PROVE Steps
  OBVIOUS
<1>0. Shape /\ DOMAIN pc = Connections
  BY DEF IInv, TypeOK
<1>1. ASSUME UNCHANGED <<pc, principal, request, detail, response>> PROVE Steps
  BY <1>0, <1>1 DEF Shape, Steps, ConnectionStep, Same
<1>2. ASSUME Kernel PROVE UNCHANGED <<pc, principal, request, detail, response>>
  BY <1>2 DEF Kernel, KernelStart, KernelMove, KernelExpire
<1>3. ASSUME NEW c \in Connections, NEW r \in Requests, NEW h \in Headers, Receive(c, r, h)
      PROVE  Steps
  <2> DEFINE p == resolvePrincipal(h, Env)
  <2>1. CASE /\ Resolved(p) /\ r.kind # "unreadable" /\ Permitted(p, r) /\ WellFormed(r)
    <3>1. /\ pc[c] = "idle"
          /\ pc' = [pc EXCEPT ![c] = r.kind]
          /\ principal' = [principal EXCEPT ![c] = p]
          /\ request' = [request EXCEPT ![c] = r]
          /\ response' = [response EXCEPT ![c] = [code |-> Absent]]
          /\ detail' = detail
      BY <1>3, <2>1 DEF Receive
    <3> HIDE DEF p
    <3>2. Only(c)
      <4>1. \E x : pc' = [pc EXCEPT ![c] = x]
        <5>1. pc' = [pc EXCEPT ![c] = r.kind]
          BY <3>1
        <5> QED
          BY <5>1, LabelChanges
      <4>2. \E x : principal' = [principal EXCEPT ![c] = x]
        BY <3>1
      <4>3. \E x : request' = [request EXCEPT ![c] = x]
        BY <3>1
      <4>4. \E x : response' = [response EXCEPT ![c] = x]
        BY <3>1
      <4> QED
        BY <3>1, <4>1, <4>2, <4>3, <4>4, TouchesOnly
    <3>3. /\ pc[c] = "idle" /\ pc'[c] = r.kind /\ principal'[c] = p /\ request'[c] = r
          /\ detail'[c] = detail[c] /\ response'[c] = [code |-> Absent]
      BY <1>0, <3>1 DEF Shape
    <3>4. Accepts(c)
      BY <2>1, <3>3 DEF Accepts, p
    <3> QED
      BY <3>2, <3>4, OnlySteps DEF ConnectionStep
  <2>2. CASE ~(Resolved(p) /\ r.kind # "unreadable" /\ Permitted(p, r) /\ WellFormed(r))
    <3>1. r.kind = "unreadable" => r.code \in {400, 413}
      BY DEF Requests, Unreadable
    <3>2. \E code \in Refusals : Refuse(c, code)
      BY <1>3, <2>2, <3>1 DEF Receive, Refusals
    <3> QED
      BY <3>2, RefuseSteps
  <2> QED
    BY <2>1, <2>2
<1>4. ASSUME NEW c \in Connections, ListExecutions(c) PROVE Steps
  <2>1. pc[c] = "list" /\ Respond(c, [code |-> 200, tenant |-> Tenant(c), executions |-> Visible(c)])
    BY <1>4 DEF ListExecutions
  <2>2. Only(c) /\ Replies(c)
    BY <2>1, RespondSteps DEF Replies, Listed, Detailed
  <2> QED
    BY <2>2, OnlySteps DEF ConnectionStep
<1>5. ASSUME NEW c \in Connections, GetExecution(c) PROVE Steps
  <2>1. CASE request[c].execution \in Visible(c)
    <3>1. /\ pc[c] = "get" /\ pc' = [pc EXCEPT ![c] = "parts"]
          /\ detail' = [detail EXCEPT ![c] = [@ EXCEPT !.status = Status(request[c].execution)]]
          /\ UNCHANGED <<principal, request, response>>
      BY <1>5, <2>1 DEF GetExecution
    <3>2. Only(c)
      BY <3>1, TouchesOnly
    <3>3. Finds(c)
      BY <1>0, <2>1, <3>1 DEF Shape, Finds, GoesOn
    <3> QED
      BY <3>2, <3>3, OnlySteps DEF ConnectionStep
  <2>2. CASE request[c].execution \notin Visible(c)
    BY <1>5, <2>2, RefuseSteps DEF GetExecution, Refusals
  <2> QED
    BY <2>1, <2>2
<1>6. ASSUME NEW c \in Connections, ReadEvents(c) PROVE Steps
  <2>1. Only(c)
    BY <1>0, <1>6 DEF Shape, ReadEvents, Only, Same
  <2>2. ReadsPart(c)
    BY <1>0, <1>6 DEF Shape, ReadEvents, ReadsPart, GoesOn
  <2> QED
    BY <2>1, <2>2, OnlySteps DEF ConnectionStep
<1>7. ASSUME NEW c \in Connections, ReadApprovals(c) PROVE Steps
  <2>1. Only(c)
    BY <1>0, <1>7 DEF Shape, ReadApprovals, Only, Same
  <2>2. ReadsPart(c)
    BY <1>0, <1>7 DEF Shape, ReadApprovals, ReadsPart, GoesOn
  <2> QED
    BY <2>1, <2>2, OnlySteps DEF ConnectionStep
<1>8. ASSUME NEW c \in Connections, GetReturns(c) PROVE Steps
  <2>1. /\ pc[c] = "parts" /\ detail[c].events # Absent
        /\ Respond(c, [code |-> 200, tenant |-> Tenant(c),
                       execution |-> request[c].execution, detail |-> detail[c]])
    BY <1>8 DEF GetReturns, Shown
  <2>2. Only(c) /\ Replies(c)
    BY <2>1, RespondSteps DEF Replies, Listed, Detailed
  <2> QED
    BY <2>2, OnlySteps DEF ConnectionStep
<1>9. ASSUME NEW c \in Connections, CheckOwnership(c) PROVE Steps
  <2>1. CASE Owned(c)
    <3>1. Only(c)
      BY <1>0, <1>9, <2>1 DEF Shape, CheckOwnership, Await, Only, Same
    <3>2. Owns(c)
      BY <1>0, <1>9, <2>1 DEF Shape, CheckOwnership, Await, Owns, GoesOn
    <3> QED
      BY <3>1, <3>2, OnlySteps DEF ConnectionStep
  <2>2. CASE ~Owned(c)
    BY <1>9, <2>2, RefuseSteps DEF CheckOwnership, Refusals
  <2> QED
    BY <2>1, <2>2
<1>10. ASSUME NEW c \in Connections, Decide(c) PROVE Steps
  <2> DEFINE e == request[c].execution
             answer == [code |-> 200, execution |-> e, verdict |-> request[c].verdict]
  <2>1. /\ pc[c] = "decide" /\ Decidable(e)
        /\ events' = [events EXCEPT ![e] = Append(@, Outcome(request[c].verdict))]
        /\ approval' = [approval EXCEPT ![e] = request[c].verdict]
        /\ Respond(c, answer) \/ Refuse(c, 422)
    BY <1>10 DEF Decide, Record, SetApproval
  <2>2. CASE Respond(c, answer)
    <3>1. Only(c) /\ Replies(c)
      BY <2>1, <2>2, RespondSteps DEF Replies, Decides, Expires
    <3> QED
      BY <3>1, OnlySteps DEF ConnectionStep
  <2>3. CASE Refuse(c, 422)
    BY <2>3, RefuseSteps DEF Refusals
  <2> QED
    BY <2>1, <2>2, <2>3
<1>11. ASSUME NEW c \in Connections, DecideExpired(c) PROVE Steps
  <2> DEFINE e == request[c].execution
  <2>1. /\ pc[c] = "decide" /\ Decidable(e)
        /\ events' = [events EXCEPT ![e] = Append(@, "REJECTED")]
        /\ Respond(c, [code |-> 409, execution |-> e]) \/ Refuse(c, 422)
    BY <1>11 DEF DecideExpired, Expiry, Record
  <2>2. CASE Respond(c, [code |-> 409, execution |-> e])
    <3>1. Only(c) /\ Replies(c)
      BY <2>1, <2>2, RespondSteps DEF Replies, Decides, Expires
    <3> QED
      BY <3>1, OnlySteps DEF ConnectionStep
  <2>3. CASE Refuse(c, 422)
    BY <2>3, RefuseSteps DEF Refusals
  <2> QED
    BY <2>1, <2>2, <2>3
<1>12. ASSUME NEW c \in Connections, DecideFails(c) \/ QueryFails(c) PROVE Steps
  BY <1>12, RefuseSteps DEF DecideFails, QueryFails, Refusals
<1> QED
  BY <1>1, <1>2, <1>3, <1>4, <1>5, <1>6, <1>7, <1>8, <1>9, <1>10, <1>11, <1>12
     DEF Next, Handler, vars

-----------------------------------------------------------------------------
(* What such steps do to the invariant. *)

(* A request that passed the first checks. *)
LEMMA RequestFits ==
  ASSUME NEW r \in Requests, r.kind # "unreadable", WellFormed(r)
  PROVE  /\ r.kind \in {"list", "get", "post"}
         /\ r.kind \in {"get", "post"} => r.execution \in Executions
         /\ r.kind = "post" => r.verdict \in Verdicts
BY NamesAssumption DEF Requests, Unreadable, WellFormed

(* A log that grows keeps what it has reached. *)
LEMMA ReachedKept ==
  ASSUME TypeOK, RowsStep, NEW e \in Executions, NEW s, Reached(s, events[e])
  PROVE  Reached(s, events'[e])
<1>1. events[e] \in Seq(ExecutionStatus)
  BY DEF TypeOK
<1>2. PICK i \in DOMAIN events[e] : events[e][i] = s
  BY DEF Reached
<1>3. CASE events'[e] = events[e]
  BY <1>2, <1>3 DEF Reached
<1>4. ASSUME NEW t \in ExecutionStatus, events'[e] = Append(events[e], t)
      PROVE  Reached(s, events'[e])
  <2>1. i \in 1..Len(events[e])
    BY <1>1, <1>2
  <2>2. i \in DOMAIN events'[e] /\ events'[e][i] = events[e][i]
    BY <1>1, <1>4, <2>1
  <2> QED
    BY <1>2, <2>2 DEF Reached
<1> QED
  BY <1>3, <1>4 DEF RowsStep, EventsGrow

LEMMA FollowsKept ==
  ASSUME TypeOK, RowsStep, NEW e \in Executions, NEW s, Follows(e, s)
  PROVE  Follows(e, s)'
<1>1. events[e] \in Seq(ExecutionStatus) /\ events'[e] \in Seq(ExecutionStatus)
  BY DEF TypeOK, RowsStep, RowsTyped
<1>2. PICK i \in 2..Len(events[e]) : events[e][i - 1] = "APPROVAL" /\ events[e][i] = s
  BY DEF Follows
<1>3. CASE events'[e] = events[e]
  BY <1>2, <1>3 DEF Follows
<1>4. ASSUME NEW t \in ExecutionStatus, events'[e] = Append(events[e], t)
      PROVE  Follows(e, s)'
  <2>1. i \in 2..Len(events'[e]) /\ events'[e][i] = events[e][i] /\ events'[e][i - 1] = events[e][i - 1]
    BY <1>1, <1>2, <1>4
  <2> QED
    BY <1>2, <2>1 DEF Follows
<1> QED
  BY <1>3, <1>4 DEF RowsStep, EventsGrow

(* An execution that waits and is moved has been moved out of APPROVAL. *)
LEMMA FollowsNow ==
  ASSUME TypeOK, NEW e \in Executions, NEW s, Waiting(e),
         events' = [events EXCEPT ![e] = Append(@, s)]
  PROVE  Follows(e, s)'
<1>1. events[e] \in Seq(ExecutionStatus) /\ events[e] # <<>>
  BY DEF TypeOK, Waiting
<1>2. Len(events[e]) \in Nat /\ Len(events[e]) # 0 /\ events[e][Len(events[e])] = "APPROVAL"
  BY <1>1 DEF Waiting, Status
<1>3. events'[e] = Append(events[e], s)
  BY DEF TypeOK
<1> DEFINE i == Len(events[e]) + 1
<1>4. i \in 2..Len(events'[e]) /\ events'[e][i - 1] = "APPROVAL" /\ events'[e][i] = s
  BY <1>1, <1>2, <1>3
<1> QED
  BY <1>4 DEF Follows

(* The fields of an answer tell where it comes from. *)
LEMMA AnswerFields ==
  ASSUME NEW c
  PROVE  /\ Refused(c) => /\ response'[c].code \in Refusals
                          /\ DOMAIN response'[c] = {"code"}
         /\ Listed(c) => /\ response'[c].code = 200
                         /\ DOMAIN response'[c] = {"code", "tenant", "executions"}
         /\ Detailed(c) => /\ response'[c].code = 200
                           /\ DOMAIN response'[c] = {"code", "tenant", "execution", "detail"}
         /\ Decides(c) => /\ response'[c].code = 200
                          /\ DOMAIN response'[c] = {"code", "execution", "verdict"}
         /\ Expires(c) => /\ response'[c].code = 409
                          /\ DOMAIN response'[c] = {"code", "execution"}
<1>1. ASSUME Refused(c) PROVE response'[c].code \in Refusals /\ DOMAIN response'[c] = {"code"}
  BY <1>1 DEF Refused
<1>2. ASSUME Listed(c)
      PROVE  response'[c].code = 200 /\ DOMAIN response'[c] = {"code", "tenant", "executions"}
  BY <1>2 DEF Listed
<1>3. ASSUME Detailed(c)
      PROVE  response'[c].code = 200 /\ DOMAIN response'[c] = {"code", "tenant", "execution", "detail"}
  BY <1>3 DEF Detailed
<1>4. ASSUME Decides(c)
      PROVE  response'[c].code = 200 /\ DOMAIN response'[c] = {"code", "execution", "verdict"}
  BY <1>4 DEF Decides
<1>5. ASSUME Expires(c)
      PROVE  response'[c].code = 409 /\ DOMAIN response'[c] = {"code", "execution"}
  BY <1>5 DEF Expires
<1> QED
  BY <1>1, <1>2, <1>3, <1>4, <1>5

LEMMA ServingNext ==
  ASSUME IInv, Steps
  PROVE  Serving'
<1> SUFFICES ASSUME NEW c \in Connections
             PROVE  /\ pc'[c] # "idle" => principal'[c] \in Callers
                    /\ pc'[c] \in {"get", "parts", "post", "decide"} => request'[c].execution \in Executions
                    /\ pc'[c] \in {"post", "decide"} => canDecide(principal'[c]) /\ request'[c].verdict \in Verdicts
                    /\ pc'[c] \in {"parts", "decide"} => TenantOf[request'[c].execution] = principal'[c].tenant
  BY DEF Serving, Tenant
<1> USE DEF IInv, Serving, Tenant
<1>1. CASE Same(c)
  BY <1>1 DEF Same
<1>2. CASE Accepts(c)
  <2>1. PICK r \in Requests, h \in Headers :
          /\ Resolved(resolvePrincipal(h, Env)) /\ Permitted(resolvePrincipal(h, Env), r)
          /\ r.kind # "unreadable" /\ WellFormed(r) /\ pc'[c] = r.kind
          /\ principal'[c] = resolvePrincipal(h, Env) /\ request'[c] = r
    BY <1>2 DEF Accepts
  <2>2. resolvePrincipal(h, Env) \in Callers
    BY <2>1 DEF Callers, Resolved
  <2>3. r.kind = "post" => canDecide(resolvePrincipal(h, Env))
    BY <2>1 DEF Permitted
  <2> QED
    BY <2>1, <2>2, <2>3, RequestFits
<1>3. CASE Finds(c)
  BY <1>3 DEF Finds, GoesOn, Visible
<1>4. CASE ReadsPart(c)
  BY <1>4 DEF ReadsPart, GoesOn
<1>5. CASE Owns(c)
  BY <1>5 DEF Owns, Owned, GoesOn
<1>6. CASE Replies(c)
  BY <1>6 DEF Replies
<1> QED
  BY <1>1, <1>2, <1>3, <1>4, <1>5, <1>6 DEF Steps, ConnectionStep

LEMMA TypeNext ==
  ASSUME IInv, RowsStep, Steps
  PROVE  TypeOK'
<1> DEFINE codes == {Absent, 200, 400, 401, 403, 404, 409, 413, 422, 500}
           labels == {"idle", "list", "get", "parts", "post", "decide"}
<1>1. ASSUME NEW c \in Connections PROVE pc'[c] \in labels /\ response'[c].code \in codes
  <2>0. pc[c] \in labels /\ response[c].code \in codes
    BY DEF IInv, TypeOK
  <2>1. CASE Same(c)
    BY <2>0, <2>1 DEF Same
  <2>2. CASE Accepts(c)
    <3>1. PICK r \in Requests : /\ r.kind # "unreadable" /\ WellFormed(r)
                                /\ pc'[c] = r.kind /\ response'[c] = [code |-> Absent]
      BY <2>2 DEF Accepts
    <3> QED
      BY <3>1, RequestFits
  <2>3. CASE Finds(c) \/ ReadsPart(c) \/ Owns(c)
    BY <2>0, <2>3 DEF Finds, ReadsPart, Owns, GoesOn
  <2>4. CASE Replies(c)
    BY <2>4, AnswerFields DEF Replies, Refusals
  <2> QED
    BY <2>1, <2>2, <2>3, <2>4 DEF Steps, ConnectionStep
<1>2. pc' \in [Connections -> labels]
  <2>1. pc \in [Connections -> labels]
    BY DEF IInv, TypeOK
  <2>2. ASSUME NEW c \in Connections, NEW label, pc' = [pc EXCEPT ![c] = label]
        PROVE  pc' \in [Connections -> labels]
    <3>1. label \in labels
      BY <1>1, <2>1, <2>2
    <3> QED
      BY <2>1, <2>2, <3>1
  <2> QED
    BY <2>1, <2>2 DEF Steps
<1>3. /\ events' \in [Executions -> Seq(ExecutionStatus)]
      /\ approval' \in [Executions -> ApprovalStatus]
      /\ decidedBy' \in [Executions -> Actors \cup {Absent}]
      /\ audit' \in [Executions -> Seq(AuditEntries)]
  BY DEF RowsStep, RowsTyped
<1> QED
  BY <1>1, <1>2, <1>3 DEF TypeOK

LEMMA ReadingNext ==
  ASSUME IInv, RowsStep, Steps
  PROVE  Reading'
<1> SUFFICES ASSUME NEW c \in Connections
             PROVE  /\ pc'[c] # "parts" => detail'[c] = NoDetail
                    /\ pc'[c] = "parts" =>
                         /\ detail'[c] = [status |-> detail'[c].status, events |-> detail'[c].events,
                                          approval |-> detail'[c].approval]
                         /\ Reached(detail'[c].status, events'[request'[c].execution])
                         /\ detail'[c].events # Absent => Reached(detail'[c].status, detail'[c].events)
  BY DEF Reading, Reached, NoDetail
<1> DEFINE e == request[c].execution
           d == detail[c]
<1>0. /\ pc[c] # "parts" => d = NoDetail
      /\ pc[c] = "parts" =>
           /\ d = [status |-> d.status, events |-> d.events, approval |-> d.approval]
           /\ Reached(d.status, events[e])
           /\ d.events # Absent => Reached(d.status, d.events)
      /\ pc[c] \in {"get", "parts"} => e \in Executions
  BY DEF IInv, Reading, Serving
<1>1. pc[c] = "parts" => Reached(d.status, events'[e])
  BY <1>0, ReachedKept DEF IInv
<1> HIDE DEF e, d
<1>2. CASE Same(c)
  BY <1>0, <1>1, <1>2 DEF Same, e, d
<1>3. CASE Accepts(c)
  <2>1. PICK r \in Requests : /\ r.kind # "unreadable" /\ WellFormed(r) /\ pc[c] = "idle"
                              /\ pc'[c] = r.kind /\ detail'[c] = detail[c]
    BY <1>3 DEF Accepts
  <2>2. pc'[c] # "parts"
    BY <2>1, RequestFits
  <2> QED
    BY <1>0, <2>1, <2>2 DEF d
<1>4. CASE Finds(c)
  <2>1. /\ pc[c] = "get" /\ pc'[c] = "parts" /\ e \in Visible(c) /\ request'[c] = request[c]
        /\ detail'[c] = [d EXCEPT !.status = Status(e)]
    BY <1>4 DEF Finds, GoesOn, e, d
  <2>2. d = NoDetail /\ e \in Executions /\ events[e] # <<>>
    BY <1>0, <2>1 DEF Visible
  <2>3. detail'[c] = [status |-> Status(e), events |-> Absent, approval |-> Absent]
    BY <2>1, <2>2 DEF NoDetail
  <2>4. Reached(Status(e), events[e])
    <3>1. events[e] \in Seq(ExecutionStatus)
      BY <2>2 DEF IInv, TypeOK
    <3>2. Len(events[e]) \in DOMAIN events[e]
      BY <2>2, <3>1
    <3> QED
      BY <3>2 DEF Reached, Status
  <2>5. Reached(Status(e), events'[e])
    BY <2>2, <2>4, ReachedKept DEF IInv
  <2> QED
    BY <2>1, <2>3, <2>5 DEF e
<1>5. CASE ReadsPart(c)
  <2>1. /\ pc[c] = "parts" /\ pc'[c] = "parts" /\ request'[c] = request[c]
        /\ \/ detail'[c] = [d EXCEPT !.events = events[e]]
           \/ detail'[c] = [d EXCEPT !.approval = approval[e]]
    BY <1>5 DEF ReadsPart, GoesOn, e, d
  <2>2. d = [status |-> d.status, events |-> d.events, approval |-> d.approval]
    BY <1>0, <2>1
  <2>3. CASE detail'[c] = [d EXCEPT !.events = events[e]]
    <3>1. detail'[c] = [status |-> d.status, events |-> events[e], approval |-> d.approval]
      BY <2>2, <2>3
    <3> QED
      BY <1>0, <1>1, <2>1, <3>1 DEF e
  <2>4. CASE detail'[c] = [d EXCEPT !.approval = approval[e]]
    <3>1. detail'[c] = [status |-> d.status, events |-> d.events, approval |-> approval[e]]
      BY <2>2, <2>4
    <3> QED
      BY <1>0, <1>1, <2>1, <3>1 DEF e
  <2> QED
    BY <2>1, <2>3, <2>4
<1>6. CASE Owns(c) \/ Replies(c)
  BY <1>0, <1>6 DEF Owns, Replies, GoesOn, d
<1> QED
  BY <1>2, <1>3, <1>4, <1>5, <1>6 DEF Steps, ConnectionStep

(* The table leads from the gate and beyond it only to statuses beyond it. *)
LEMMA AuditedNext ==
  ASSUME IInv, RowsStep
  PROVE  Audited'
<1> SUFFICES ASSUME NEW e \in Executions, audit'[e] # <<>>
             PROVE  events'[e] # <<>> /\ events'[e][Len(events'[e])] \in AfterGate
  BY DEF Audited, Status
<1>1. /\ events[e] \in Seq(ExecutionStatus)
      /\ audit[e] # <<>> => events[e] # <<>> /\ Status(e) \in AfterGate
  BY DEF IInv, TypeOK, Audited
<1>2. CASE audit'[e] = audit[e] /\ events'[e] = events[e]
  BY <1>1, <1>2 DEF Status
<1>3. ASSUME NEW s \in ExecutionStatus, events'[e] = Append(events[e], s),
             events[e] # <<>> /\ CanTransition(Status(e), s),
             Status(e) \in AfterGate \cup {"APPROVAL"}
      PROVE  events'[e] # <<>> /\ events'[e][Len(events'[e])] \in AfterGate
  <2>1. s \in AfterGate
    BY <1>3, GateTable DEF CanTransition
  <2> QED
    BY <1>1, <1>3, <2>1
<1>4. CASE audit'[e] = audit[e]
  BY <1>1, <1>2, <1>3, <1>4 DEF RowsStep, EventsGrow
<1>5. CASE Waiting(e) /\ events'[e] # events[e]
  BY <1>3, <1>5 DEF RowsStep, EventsGrow, Waiting
<1> QED
  BY <1>4, <1>5 DEF RowsStep, AuditSteps, Unaudited

(* An entry is the first of its execution and comes from the expiry or     *)
(* from a request in "decide", which is reached as an approver of the      *)
(* execution's tenant.                                                     *)
LEMMA AuthorizedNext ==
  ASSUME IInv, RowsStep
  PROVE  DecisionAuthorized'
<1> SUFFICES ASSUME NEW e \in Executions
             PROVE  /\ Len(audit'[e]) <= 1
                    /\ \A i \in DOMAIN audit'[e] :
                         audit'[e][i].verdict \in Verdicts => MayDecide(audit'[e][i].actor, e)
                    /\ approval'[e] \in Verdicts =>
                         audit'[e] = <<[actor |-> decidedBy'[e], verdict |-> approval'[e]]>>
  BY DEF DecisionAuthorized, MayDecide, Callers
<1>1. CASE Unaudited(e)
  BY <1>1 DEF Unaudited, IInv, DecisionAuthorized
<1>2. ASSUME Waiting(e), NEW actor, NEW verdict,
             audit'[e] = Append(audit[e], Entry(actor, verdict)),
             verdict \in Verdicts => MayDecide(actor, e),
             approval'[e] \in Verdicts => approval'[e] = verdict /\ decidedBy'[e] = actor
      PROVE  /\ Len(audit'[e]) <= 1
             /\ \A i \in DOMAIN audit'[e] :
                  audit'[e][i].verdict \in Verdicts => MayDecide(audit'[e][i].actor, e)
             /\ approval'[e] \in Verdicts =>
                  audit'[e] = <<[actor |-> decidedBy'[e], verdict |-> approval'[e]]>>
  <2>1. audit[e] = <<>>
    <3>1. "APPROVAL" \notin AfterGate
      BY DEF AfterGate
    <3> QED
      BY <1>2, <3>1 DEF IInv, Audited, Waiting
  <2>2. audit'[e] = <<[actor |-> actor, verdict |-> verdict]>>
    BY <1>2, <2>1 DEF Entry
  <2> QED
    BY <1>2, <2>2
<1>3. CASE Waiting(e) /\ AuditsExpiry(e)
  <2>1. "EXPIRED" \notin Verdicts
    BY DEF Verdicts
  <2> QED
    BY <1>2, <1>3, <2>1 DEF AuditsExpiry
<1>4. CASE Waiting(e) /\ AuditsDecision(e)
  <2>1. PICK c \in Connections :
          /\ pc[c] = "decide" /\ request[c].execution = e
          /\ audit'[e] = Append(audit[e], Entry(principal[c].subject, request[c].verdict))
          /\ approval'[e] = request[c].verdict /\ decidedBy'[e] = principal[c].subject
    BY <1>4 DEF AuditsDecision
  <2>2. MayDecide(principal[c].subject, e)
    BY <2>1 DEF IInv, Serving, Tenant, MayDecide
  <2> QED
    BY <1>2, <1>4, <2>1, <2>2
<1> QED
  BY <1>1, <1>3, <1>4 DEF RowsStep, AuditSteps

(* What a connection that has been answered was answered: as before, or by *)
(* the transaction of this step.                                           *)
Kept(c) == response'[c] = response[c]

LEMMA Keeps ==
  ASSUME NEW c, Same(c) \/ Finds(c) \/ ReadsPart(c) \/ Owns(c)
  PROVE  Kept(c)
BY DEF Same, Finds, ReadsPart, Owns, GoesOn, Kept

LEMMA DecidedNow ==
  ASSUME Steps, NEW c \in Connections, Decided(c)'
  PROVE  (Kept(c) /\ Decided(c)) \/ Decides(c)
<1>1. response'[c].code = 200 /\ "verdict" \in DOMAIN response'[c]
  BY DEF Decided
<1>2. CASE Kept(c)
  BY <1>1, <1>2 DEF Kept, Decided
<1>3. CASE Accepts(c)
  BY <1>1, <1>3 DEF Accepts
<1>4. CASE Replies(c)
  BY <1>1, <1>4, AnswerFields DEF Replies, Refusals
<1>5. ConnectionStep(c)
  BY DEF Steps
<1> QED
  BY <1>2, <1>3, <1>4, <1>5, Keeps DEF ConnectionStep

LEMMA ExpiredNow ==
  ASSUME Steps, NEW c \in Connections, response'[c].code = 409
  PROVE  (Kept(c) /\ response[c].code = 409) \/ Expires(c)
<1>1. CASE Kept(c)
  BY <1>1 DEF Kept
<1>2. CASE Accepts(c)
  BY <1>2, NamesAssumption DEF Accepts
<1>3. CASE Replies(c)
  BY <1>3, AnswerFields DEF Replies, Refusals
<1>4. ConnectionStep(c)
  BY DEF Steps
<1> QED
  BY <1>1, <1>2, <1>3, <1>4, Keeps DEF ConnectionStep

LEMMA SettledNext ==
  ASSUME IInv, RowsStep, Steps
  PROVE  Settled'
<1>1. ASSUME NEW c \in Connections, Decided(c)'
      PROVE  response'[c].execution \in Executions /\ approval'[response'[c].execution] # "PENDING"
  <2>1. CASE Kept(c) /\ Decided(c)
    <3> DEFINE e == response[c].execution
    <3>1. e \in Executions /\ approval[e] # "PENDING" /\ Follows(e, Outcome(response[c].verdict))
      BY <2>1 DEF IInv, Settled, AnswersAreTrue
    <3>2. events[e] # <<>>
      BY <3>1 DEF Follows
    <3>3. approval'[e] # "PENDING"
      BY <3>1, <3>2 DEF RowsStep, PendingOnlyAtStart
    <3> QED
      BY <2>1, <3>1, <3>3 DEF Kept
  <2>2. CASE Decides(c)
    <3>1. request[c].execution \in Executions /\ request[c].verdict \in Verdicts
      BY <2>2 DEF Decides, IInv, Serving
    <3>2. approval'[request[c].execution] = request[c].verdict
      BY <2>2, <3>1 DEF Decides, IInv, TypeOK
    <3> QED
      BY <2>2, <3>1, <3>2 DEF Decides, Verdicts
  <2> QED
    BY <1>1, <2>1, <2>2, DecidedNow
<1>2. ASSUME NEW c \in Connections, response'[c].code = 409
      PROVE  response'[c].execution \in Executions
  <2>1. CASE Kept(c) /\ response[c].code = 409
    BY <2>1 DEF Kept, IInv, Settled
  <2>2. CASE Expires(c)
    BY <2>2 DEF Expires, IInv, Serving
  <2> QED
    BY <1>2, <2>1, <2>2, ExpiredNow
<1> QED
  BY <1>1, <1>2 DEF Settled

LEMMA AnswersNext ==
  ASSUME IInv, RowsStep, Steps
  PROVE  AnswersAreTrue'
<1>0. TypeOK
  BY DEF IInv
<1>1. ASSUME NEW c \in Connections, Decided(c)'
      PROVE  Follows(response[c].execution, Outcome(response[c].verdict))'
  <2>1. CASE Kept(c) /\ Decided(c)
    <3>1. /\ response[c].execution \in Executions
          /\ Follows(response[c].execution, Outcome(response[c].verdict))
      BY <2>1 DEF IInv, Settled, AnswersAreTrue
    <3>2. \E i \in 2..Len(events'[response[c].execution]) :
            /\ events'[response[c].execution][i - 1] = "APPROVAL"
            /\ events'[response[c].execution][i] = Outcome(response[c].verdict)
      BY <1>0, <3>1, FollowsKept DEF Follows
    <3> QED
      BY <2>1, <3>2 DEF Kept, Follows, Outcome
  <2>2. CASE Decides(c)
    <3> DEFINE e == request[c].execution
               t == Outcome(request[c].verdict)
    <3>1. e \in Executions /\ Waiting(e)
      BY <2>2 DEF Decides, Decidable, IInv, Serving
    <3>2. events' = [events EXCEPT ![e] = Append(@, t)]
      BY <2>2 DEF Decides
    <3>3. \E i \in 2..Len(events'[e]) : events'[e][i - 1] = "APPROVAL" /\ events'[e][i] = t
      BY <1>0, <3>1, <3>2, FollowsNow DEF Follows
    <3> QED
      BY <2>2, <3>3 DEF Decides, Follows, Outcome
  <2> QED
    BY <1>1, <2>1, <2>2, DecidedNow
<1>2. ASSUME NEW c \in Connections, response'[c].code = 409
      PROVE  Follows(response[c].execution, "REJECTED")'
  <2>1. CASE Kept(c) /\ response[c].code = 409
    <3>1. response[c].execution \in Executions /\ Follows(response[c].execution, "REJECTED")
      BY <2>1 DEF IInv, Settled, AnswersAreTrue
    <3>2. \E i \in 2..Len(events'[response[c].execution]) :
            /\ events'[response[c].execution][i - 1] = "APPROVAL"
            /\ events'[response[c].execution][i] = "REJECTED"
      BY <1>0, <3>1, FollowsKept DEF Follows
    <3> QED
      BY <2>1, <3>2 DEF Kept, Follows
  <2>2. CASE Expires(c)
    <3> DEFINE e == request[c].execution
    <3>1. e \in Executions /\ Waiting(e)
      BY <2>2 DEF Expires, Decidable, IInv, Serving
    <3>2. events' = [events EXCEPT ![e] = Append(@, "REJECTED")]
      BY <2>2 DEF Expires
    <3>3. \E i \in 2..Len(events'[e]) : events'[e][i - 1] = "APPROVAL" /\ events'[e][i] = "REJECTED"
      BY <1>0, <3>1, <3>2, FollowsNow DEF Follows
    <3> QED
      BY <2>2, <3>3 DEF Expires, Follows
  <2> QED
    BY <1>2, <2>1, <2>2, ExpiredNow
<1>3. ASSUME NEW c \in Connections, NEW d \in Connections \ {c}, Decided(c)', Decided(d)'
      PROVE  response'[d].execution # response'[c].execution
  <2>1. ASSUME NEW a \in Connections, NEW b \in Connections, a # b, Decided(a)', Decided(b)',
               Decides(a)
        PROVE  response'[b].execution # response'[a].execution
    <3>1. Same(b)
      <4>1. pc'[a] = "idle" /\ pc[a] = "decide"
        BY <2>1 DEF Decides
      <4> QED
        BY <2>1, <4>1 DEF Steps, Same
    <3>2. Decided(b) /\ response'[b] = response[b]
      BY <2>1, <3>1 DEF Same, Decided
    <3>3. approval[response[b].execution] # "PENDING"
      BY <3>2 DEF IInv, Settled
    <3>4. approval[request[a].execution] = "PENDING" /\ response'[a].execution = request[a].execution
      BY <2>1 DEF Decides, Decidable
    <3> QED
      BY <3>2, <3>3, <3>4
  <2>2. CASE Kept(c) /\ Decided(c) /\ Kept(d) /\ Decided(d)
    BY <2>2 DEF Kept, IInv, AnswersAreTrue
  <2> QED
    BY <1>3, <2>1, <2>2, DecidedNow
<1> QED
  BY <1>1, <1>2, <1>3 DEF AnswersAreTrue

(* An answer without a list or a detail says nothing about either. *)
LEMMA ReadNow ==
  ASSUME Steps, NEW c \in Connections,
         "executions" \in DOMAIN response'[c] \/ "detail" \in DOMAIN response'[c]
  PROVE  Kept(c) \/ Listed(c) \/ Detailed(c)
<1>1. CASE Accepts(c)
  <2>1. response'[c] = [code |-> Absent]
    BY <1>1 DEF Accepts
  <2> QED
    BY <2>1
<1>2. CASE Replies(c)
  BY <1>2, AnswerFields DEF Replies
<1>3. ConnectionStep(c)
  BY DEF Steps
<1> QED
  BY <1>1, <1>2, <1>3, Keeps DEF ConnectionStep

LEMMA ActiveNext ==
  ASSUME IInv, Steps
  PROVE  ActiveIsReached'
<1> SUFFICES ASSUME NEW c \in Connections, "detail" \in DOMAIN response'[c]
             PROVE  Reached(response'[c].detail.status, response'[c].detail.events)
  BY DEF ActiveIsReached, Reached
<1>1. CASE Kept(c)
  BY <1>1 DEF Kept, IInv, ActiveIsReached, Reached
<1>2. CASE Listed(c)
  BY <1>2, AnswerFields
<1>3. CASE Detailed(c)
  <2>1. response'[c].detail = detail[c] /\ pc[c] = "parts" /\ detail[c].events # Absent
    BY <1>3 DEF Detailed
  <2> QED
    BY <2>1 DEF IInv, Reading
<1> QED
  BY <1>1, <1>2, <1>3, ReadNow

LEMMA ScopedNext ==
  ASSUME IInv, Steps
  PROVE  ReadsAreScoped'
<1>1. ASSUME NEW c \in Connections, "executions" \in DOMAIN response'[c],
             NEW e \in response'[c].executions
      PROVE  TenantOf[e] = response'[c].tenant
  <2>1. CASE Kept(c)
    BY <1>1, <2>1 DEF Kept, IInv, ReadsAreScoped
  <2>2. CASE Listed(c)
    <3>1. response'[c].executions = Visible(c) /\ response'[c].tenant = Tenant(c)
      BY <2>2 DEF Listed
    <3> QED
      BY <1>1, <3>1 DEF Visible
  <2>3. CASE Detailed(c)
    BY <1>1, <2>3, AnswerFields
  <2> QED
    BY <1>1, <2>1, <2>2, <2>3, ReadNow
<1>2. ASSUME NEW c \in Connections, "detail" \in DOMAIN response'[c]
      PROVE  TenantOf[response'[c].execution] = response'[c].tenant
  <2>1. CASE Kept(c)
    BY <1>2, <2>1 DEF Kept, IInv, ReadsAreScoped
  <2>2. CASE Listed(c)
    BY <1>2, <2>2, AnswerFields
  <2>3. CASE Detailed(c)
    <3>1. /\ response'[c].execution = request[c].execution /\ response'[c].tenant = Tenant(c)
          /\ pc[c] = "parts"
      BY <2>3 DEF Detailed
    <3> QED
      BY <3>1 DEF IInv, Serving
  <2> QED
    BY <1>2, <2>1, <2>2, <2>3, ReadNow
<1> QED
  BY <1>1, <1>2 DEF ReadsAreScoped

LEMMA ShapeNext == Steps => Shape'
BY DEF Steps, Shape

LEMMA IInvInit == Init => IInv
<1> SUFFICES ASSUME Init PROVE IInv
  OBVIOUS
<1>1. TypeOK
  <2>1. <<>> \in Seq(ExecutionStatus)
    OBVIOUS
  <2>2. events \in [Executions -> Seq(ExecutionStatus)]
    BY <2>1 DEF Init
  <2>3. approval \in [Executions -> ApprovalStatus]
    BY DEF Init, ApprovalStatus
  <2>4. /\ decidedBy \in [Executions -> Actors \cup {Absent}]
        /\ audit \in [Executions -> Seq(AuditEntries)]
    BY DEF Init
  <2>5. pc \in [Connections -> {"idle", "list", "get", "parts", "post", "decide"}]
    BY DEF Init
  <2>6. \A c \in Connections : response[c].code = Absent
    BY DEF Init
  <2> QED
    BY <2>2, <2>3, <2>4, <2>5, <2>6 DEF TypeOK
<1>2. Shape /\ Serving
  BY DEF Init, Shape, Serving
<1>3. Reading
  BY DEF Init, Reading
<1>4. DecisionAuthorized /\ Audited
  <2>1. ASSUME NEW e \in Executions
        PROVE  audit[e] = <<>> /\ approval[e] = Absent
    BY DEF Init
  <2>2. Absent \notin Verdicts
    BY NamesAssumption
  <2> QED
    BY <2>1, <2>2 DEF DecisionAuthorized, Audited
<1>5. ASSUME NEW c \in Connections
      PROVE  DOMAIN response[c] = {"code"} /\ response[c].code # 409
  <2>1. response[c] = [code |-> Absent]
    BY DEF Init
  <2> QED
    BY <2>1, NamesAssumption
<1>6. Settled /\ AnswersAreTrue /\ ActiveIsReached /\ ReadsAreScoped
  BY <1>5 DEF Settled, AnswersAreTrue, ActiveIsReached, ReadsAreScoped, Decided
<1> QED
  BY <1>1, <1>2, <1>3, <1>4, <1>6 DEF IInv

LEMMA IInvNext == IInv /\ [Next]_vars => IInv'
<1> SUFFICES ASSUME IInv, [Next]_vars PROVE IInv'
  OBVIOUS
<1>1. RowsStep /\ Steps
  BY RowsSteps, ConnectionSteps
<1> QED
  BY <1>1, TypeNext, ShapeNext, ServingNext, ReadingNext, SettledNext, AuthorizedNext,
     AuditedNext, AnswersNext, ActiveNext, ScopedNext DEF IInv

-----------------------------------------------------------------------------
(* Rows, program counters and responses keep their types.                  *)
THEOREM TypeCorrect == Spec => []TypeOK
BY IInvInit, IInvNext, PTL DEF Spec, IInv

(* The audit log names one settler of each gate, an expiry or somebody     *)
(* allowed to decide in the execution's tenant, although that was checked  *)
(* in another transaction; an approval with a verdict names the same.      *)
THEOREM DecisionAuthorizedTheorem == Spec => []DecisionAuthorized
BY IInvInit, IInvNext, PTL DEF Spec, IInv

(* 200 to a decision and 409 mean what they say, whatever runs beside.     *)
THEOREM AnswersAreTrueTheorem == Spec => []AnswersAreTrue
BY IInvInit, IInvNext, PTL DEF Spec, IInv

(* However torn a detail is, its events have reached its active stage.     *)
THEOREM ActiveIsReachedTheorem == Spec => []ActiveIsReached
BY IInvInit, IInvNext, PTL DEF Spec, IInv

(* Nobody is answered with an execution of another tenant.                 *)
THEOREM ReadsAreScopedTheorem == Spec => []ReadsAreScoped
BY IInvInit, IInvNext, PTL DEF Spec, IInv
=============================================================================
