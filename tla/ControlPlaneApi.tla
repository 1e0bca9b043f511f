---------------------------- MODULE ControlPlaneApi ----------------------------
(***************************************************************************)
(* The control plane's HTTP API (control-plane/main.ts): requests under    *)
(* way at once, each a sequence of queries on the pool that interleave     *)
(* with the other requests, the workers and the expiry sweep.              *)
(*                                                                         *)
(* A transaction of the kernel is a single step here; PostgresKernel has   *)
(* its statements.  An approval is named by its execution.                 *)
(***************************************************************************)
EXTENDS Principals, StateMachine

CONSTANTS
  Executions,
  Connections,  \* each has one request under way
  Headers,      \* the headers that requests carry
  Env,          \* the environment of the API process
  TenantOf,     \* the tenant that each execution is started for
  Moves         \* the executions others move, and the statuses they move to

ASSUME MovesAssumption == Moves \subseteq Executions \X ExecutionStatus

Verdicts == {"APPROVED", "REJECTED"}

ASSUME NamesAssumption ==
  /\ DOMAIN TenantOf = Executions
  /\ Absent \notin Executions /\ Absent \notin Verdicts /\ Absent # 409

VARIABLES
  events,      \* logon_execution_events of each execution
  approval,    \* logon_approvals.status
  decidedBy,   \* logon_approvals.decided_by
  audit,       \* what logon_audit says of the decision or expiry of each gate
  pc,          \* the await that each request is at
  principal, request,
  detail,      \* what getExecution has read so far
  response     \* the last response on each connection

database == <<events, approval, decidedBy, audit>>
vars == <<database, pc, principal, request, detail, response>>

ApprovalStatus == Verdicts \cup {"PENDING", "EXPIRED", Absent}

(* The name that the expiry signs with. *)
ExpiryActor == "logon.approval.expiry"

(* Bodies that readJson() throws at: no JSON object, or too large. *)
Unreadable == [kind : {"unreadable"}, code : {400, 413}]

(* A body may name an approval of another execution, or nothing usable. *)
Requests ==
  [kind : {"list"}] \cup [kind : {"get"}, execution : Executions] \cup
  [kind : {"post"}, execution : Executions, approval : Executions, verdict : Verdicts] \cup
  [kind : {"post"}, execution : Executions, approval : {Absent}] \cup Unreadable

Status(e) == events[e][Len(events[e])]
Waiting(e) == events[e] # <<>> /\ Status(e) = "APPROVAL"

NoRequest == [kind |-> "none"]
NoDetail == [status |-> Absent, events |-> Absent, approval |-> Absent]

Init ==
  /\ events = [e \in Executions |-> <<>>]
  /\ approval = [e \in Executions |-> Absent]
  /\ decidedBy = [e \in Executions |-> Absent]
  /\ audit = [e \in Executions |-> <<>>]
  /\ pc = [c \in Connections |-> "idle"]
  /\ principal = [c \in Connections |-> Absent]
  /\ request = [c \in Connections |-> NoRequest]
  /\ detail = [c \in Connections |-> NoDetail]
  /\ response = [c \in Connections |-> [code |-> Absent]]

-----------------------------------------------------------------------------
(* Everybody else's transactions. *)

Record(e, s) == events' = [events EXCEPT ![e] = Append(@, s)]
SetApproval(e, s, by) ==
  /\ approval' = [approval EXCEPT ![e] = s]
  /\ decidedBy' = [decidedBy EXCEPT ![e] = by]

Audit(e, actor, verdict) ==
  audit' = [audit EXCEPT ![e] = Append(@, [actor |-> actor, verdict |-> verdict])]

KernelStart(e, s) ==
  /\ events[e] = <<>>
  /\ Record(e, s)
  /\ IF s = "APPROVAL" THEN SetApproval(e, "PENDING", Absent) ELSE UNCHANGED <<approval, decidedBy>>
  /\ UNCHANGED <<audit, pc, principal, request, detail, response>>

KernelMove(e, s) ==
  /\ events[e] # <<>> /\ CanTransition(Status(e), s)
  /\ Record(e, s)
  /\ UNCHANGED <<approval, decidedBy, audit, pc, principal, request, detail, response>>

(* What an expiry does to an execution that waits: rejectExpiredExecution() *)
(* and the approval's UPDATE, by the sweep as by a decision that is late.   *)
Expiry(e) ==
  /\ Record(e, "REJECTED")
  /\ SetApproval(e, "EXPIRED", ExpiryActor)
  /\ Audit(e, ExpiryActor, "EXPIRED")

(* The sweep, which may also overwrite a decision that its snapshot missed. *)
KernelExpire(e) ==
  /\ approval[e] \in Verdicts \cup {"PENDING"}
  /\ IF Waiting(e) THEN Expiry(e)
                   ELSE SetApproval(e, "EXPIRED", ExpiryActor) /\ UNCHANGED <<events, audit>>
  /\ UNCHANGED <<pc, principal, request, detail, response>>

-----------------------------------------------------------------------------
(* handler(). *)

Tenant(c) == principal[c].tenant

Respond(c, answer) ==
  /\ response' = [response EXCEPT ![c] = answer]
  /\ pc' = [pc EXCEPT ![c] = "idle"]
  /\ principal' = [principal EXCEPT ![c] = Absent]
  /\ request' = [request EXCEPT ![c] = NoRequest]
  /\ detail' = [detail EXCEPT ![c] = NoDetail]

Refuse(c, code) == Respond(c, [code |-> code])

Await(c, label) ==
  /\ pc' = [pc EXCEPT ![c] = label]
  /\ UNCHANGED <<principal, request, detail, response>>

FaultyPermitted(p, r) == canRead(p)
Permitted(p, r) == IF r.kind = "post" THEN canDecide(p) ELSE canRead(p)

WellFormed(r) == r.kind = "post" => r.approval # Absent

(* resolvePrincipal, readJson, requireRole, the checks of the body.        *)
Receive(c, r, headers) ==
  /\ pc[c] = "idle"
  /\ LET p == resolvePrincipal(headers, Env) IN
       IF ~Resolved(p) THEN Refuse(c, 401)
       ELSE IF r.kind = "unreadable" THEN Refuse(c, r.code)
       ELSE IF ~Permitted(p, r) THEN Refuse(c, 403)
       ELSE IF ~WellFormed(r) THEN Refuse(c, 400)
       ELSE /\ pc' = [pc EXCEPT ![c] = r.kind]
            /\ principal' = [principal EXCEPT ![c] = p]
            /\ request' = [request EXCEPT ![c] = r]
            /\ response' = [response EXCEPT ![c] = [code |-> Absent]]
            /\ UNCHANGED detail
  /\ UNCHANGED database

QueryFails(c) ==
  /\ pc[c] \in {"list", "get", "parts", "post"}
  /\ Refuse(c, 500)
  /\ UNCHANGED database

FaultyVisible(c) == {e \in Executions : events[e] # <<>>}
Visible(c) == {e \in Executions : events[e] # <<>> /\ TenantOf[e] = Tenant(c)}

ListExecutions(c) ==
  /\ pc[c] = "list"
  /\ Respond(c, [code |-> 200, tenant |-> Tenant(c), executions |-> Visible(c)])
  /\ UNCHANGED database

-----------------------------------------------------------------------------
(* getExecution(): the execution row, then the parts in parallel.          *)

GetExecution(c) ==
  /\ pc[c] = "get"
  /\ LET e == request[c].execution IN
       IF e \in Visible(c)
         THEN /\ detail' = [detail EXCEPT ![c] = [@ EXCEPT !.status = Status(e)]]
              /\ pc' = [pc EXCEPT ![c] = "parts"]
              /\ UNCHANGED <<principal, request, response>>
         ELSE Refuse(c, 404)
  /\ UNCHANGED database

ReadEvents(c) ==
  /\ pc[c] = "parts" /\ detail[c].events = Absent
  /\ detail' = [detail EXCEPT ![c] = [@ EXCEPT !.events = events[request[c].execution]]]
  /\ UNCHANGED <<database, pc, principal, request, response>>

ReadApprovals(c) ==
  /\ pc[c] = "parts" /\ detail[c].approval = Absent
  /\ approval[request[c].execution] # Absent
  /\ detail' = [detail EXCEPT ![c] = [@ EXCEPT !.approval = approval[request[c].execution]]]
  /\ UNCHANGED <<database, pc, principal, request, response>>

FaultyShown(c) == [detail[c] EXCEPT !.status = Status(request[c].execution)]
Shown(c) == detail[c]

GetReturns(c) ==
  /\ pc[c] = "parts"
  /\ detail[c].events # Absent
  /\ detail[c].approval # Absent \/ approval[request[c].execution] = Absent
  /\ Respond(c, [code |-> 200, tenant |-> Tenant(c),
                   execution |-> request[c].execution, detail |-> Shown(c)])
  /\ UNCHANGED database

-----------------------------------------------------------------------------
(* decideApproval(). *)

Owned(c) == /\ request[c].approval = request[c].execution
            /\ approval[request[c].approval] # Absent
            /\ TenantOf[request[c].approval] = Tenant(c)

CheckOwnership(c) ==
  /\ pc[c] = "post"
  /\ IF Owned(c) THEN Await(c, "decide") ELSE Refuse(c, 404)
  /\ UNCHANGED database

FaultyDecidable(e) == approval[e] = "PENDING"
Decidable(e) == Waiting(e) /\ approval[e] = "PENDING"

FaultyOutcome(verdict) == verdict
Outcome(verdict) == IF verdict = "APPROVED" THEN "EXECUTION" ELSE "REJECTED"

(* Every error but ApprovalExpiredError is a 422, that of a COMMIT whose   *)
(* answer was lost included.                                               *)
Decide(c) ==
  /\ pc[c] = "decide"
  /\ LET e == request[c].execution IN
       /\ Decidable(e)
       /\ Record(e, Outcome(request[c].verdict))
       /\ SetApproval(e, request[c].verdict, principal[c].subject)
       /\ Audit(e, principal[c].subject, request[c].verdict)
       /\ \/ Respond(c, [code |-> 200, execution |-> e, verdict |-> request[c].verdict])
          \/ Refuse(c, 422)

DecideExpired(c) ==
  /\ pc[c] = "decide"
  /\ LET e == request[c].execution IN
       /\ Decidable(e)
       /\ Expiry(e)
       /\ Respond(c, [code |-> 409, execution |-> e]) \/ Refuse(c, 422)

DecideFails(c) ==
  /\ pc[c] = "decide"
  /\ Refuse(c, 422)
  /\ UNCHANGED database

-----------------------------------------------------------------------------
Kernel ==
  \E e \in Executions :
    \/ \E s \in StartStatuses : KernelStart(e, s)
    \/ \E s \in ExecutionStatus : <<e, s>> \in Moves /\ KernelMove(e, s)
    \/ KernelExpire(e)

Handler(c) ==
  \/ ListExecutions(c) \/ GetExecution(c) \/ ReadEvents(c) \/ ReadApprovals(c)
  \/ GetReturns(c) \/ CheckOwnership(c) \/ Decide(c) \/ DecideExpired(c)
  \/ DecideFails(c) \/ QueryFails(c)

Next ==
  \/ Kernel
  \/ \E c \in Connections : Handler(c) \/ \E r \in Requests, h \in Headers : Receive(c, r, h)

Spec == Init /\ [][Next]_vars

-----------------------------------------------------------------------------
(* Properties. *)

(* The principals that requests can be made by. *)
Callers == {resolvePrincipal(h, Env) : h \in Headers} \ {Unauthenticated}

Actors == {p.subject : p \in Callers} \cup {ExpiryActor}
AuditEntries == [actor : Actors, verdict : Verdicts \cup {"EXPIRED"}]

(* Rows, program counters and responses hold values of their kind.         *)
TypeOK ==
  /\ events \in [Executions -> Seq(ExecutionStatus)]
  /\ approval \in [Executions -> ApprovalStatus]
  /\ decidedBy \in [Executions -> Actors \cup {Absent}]
  /\ audit \in [Executions -> Seq(AuditEntries)]
  /\ pc \in [Connections -> {"idle", "list", "get", "parts", "post", "decide"}]
  /\ \A c \in Connections : response[c].code \in {Absent, 200, 400, 401, 403, 404, 409, 413, 422, 500}

MayDecide(actor, e) ==
  \E p \in Callers : canDecide(p) /\ p.subject = actor /\ p.tenant = TenantOf[e]

(* A gate is settled once in the audit log, by an expiry or by an approver *)
(* or administrator of the execution's tenant, although tenant and role    *)
(* are checked before the deciding transaction begins ("the API verifies   *)
(* tenant ownership of the approval before calling decideApproval()").     *)
(* The approval names the same decider for as long as it holds a verdict;  *)
(* a sweep that overwrites both leaves the audit log to tell.              *)
DecisionAuthorized ==
  \A e \in Executions :
    /\ Len(audit[e]) <= 1
    /\ \A i \in DOMAIN audit[e] :
         audit[e][i].verdict \in Verdicts => MayDecide(audit[e][i].actor, e)
    /\ approval[e] \in Verdicts =>
         audit[e] = <<[actor |-> decidedBy[e], verdict |-> approval[e]]>>

Follows(e, s) == \E i \in 2..Len(events[e]) : events[e][i - 1] = "APPROVAL" /\ events[e][i] = s

Decided(c) == response[c].code = 200 /\ "verdict" \in DOMAIN response[c]

(* 200 to a decision means that this verdict released or rejected the      *)
(* execution, and only one request is told so; 409 means that the expiry    *)
(* has rejected it, although an error was raised.                          *)
AnswersAreTrue ==
  \A c \in Connections :
    /\ Decided(c) => /\ Follows(response[c].execution, Outcome(response[c].verdict))
                     /\ \A d \in Connections \ {c} :
                          Decided(d) => response[d].execution # response[c].execution
    /\ response[c].code = 409 => Follows(response[c].execution, "REJECTED")

(* A detail is put together from several moments; the stage it marks       *)
(* active is nevertheless one that its events have reached (page.tsx       *)
(* draws both).                                                            *)
ActiveIsReached ==
  \A c \in Connections :
    "detail" \in DOMAIN response[c] =>
      \E i \in DOMAIN response[c].detail.events :
        response[c].detail.events[i] = response[c].detail.status

(* "Every read is tenant-scoped", also where a query of its own has no     *)
(* tenant in it.                                                           *)
ReadsAreScoped ==
  \A c \in Connections :
    /\ "executions" \in DOMAIN response[c] => \A e \in response[c].executions : TenantOf[e] = response[c].tenant
    /\ "detail" \in DOMAIN response[c] => TenantOf[response[c].execution] = response[c].tenant
=============================================================================
