---------------------------- MODULE ControlPlaneUi ----------------------------
(***************************************************************************)
(* The operator's page (apps/control-plane/app/page.tsx): what it selects  *)
(* and shows, the requests it has under way, and the database they reach.  *)
(* Requests overtake each other, are answered late or fail; other          *)
(* approvers and the workers go on meanwhile.                              *)
(*                                                                         *)
(* The API is what ControlPlaneApi has: a detail is read at two moments, a *)
(* decision is checked for its tenant and recorded or refused.  React runs *)
(* the effects of a state change before the next event.                    *)
(***************************************************************************)
EXTENDS Integers, Bags

CONSTANTS
  Executions, Tenants,
  TenantOf,       \* the tenant of each execution
  Verdicts,       \* the decisions that are made
  MaxRequests,    \* bounds what page and operator have under way
  None

ASSUME BoundAssumption == MaxRequests \in Nat
ASSUME TenantsAssumption ==
  /\ TenantOf \in [Executions -> Tenants] /\ None \notin Executions
  /\ Verdicts \subseteq {"EXECUTION", "REJECTED"}

VARIABLES
  devMode,     \* NEXT_PUBLIC_LOGON_CONTROL_PLANE_DEV_MODE, fixed in the build
  status,      \* logon_executions.status
  inFlight,    \* the bag of requests under way
  principal,   \* /api/me has answered; of no consequence with devMode
  tenant,      \* the tenant the headers name, or the proxy's
  list,        \* executions
  selected,    \* selectedId
  detail,
  busy         \* approvalBusy

page == <<devMode, principal, tenant, list, selected, detail, busy>>
vars == <<status, inFlight, page>>

Rank(s) == CASE s = "APPROVAL" -> 0 [] s \in Verdicts -> 1 [] s = "OUTCOME" -> 2

Statuses == {"APPROVAL", "OUTCOME"} \cup Verdicts
Details  == [id : Executions, status : Statuses, pending : BOOLEAN]

(* Each request names the tenant of the headers it was sent with.  chained *)
(* marks the reloads that approve() awaits.                                *)
Request(kind, t, id, chained, body) ==
  [kind |-> kind, tenant |-> t, id |-> id, chained |-> chained, state |-> "sent", body |-> body]
LoadExecutions(t, chained) == Request("list", t, None, chained, None)
LoadDetail(t, id, chained) == Request("detail", t, id, chained, None)

(* What a request is at each moment of its way: sent, a detail whose row   *)
(* has been read, or answered or refused.  That a decision also remembers  *)
(* the tenant the page was connected to at the click is for the properties *)
(* alone; nothing reads it.                                                *)
ListRequests ==
  [kind : {"list"}, tenant : Tenants, id : {None}, chained : BOOLEAN, state : {"sent"},
   body : {None}]
SentDetails ==
  [kind : {"detail"}, tenant : Tenants, id : Executions, chained : BOOLEAN, state : {"sent"},
   body : {None}]
RowDetails ==
  [kind : {"detail"}, tenant : Tenants, id : Executions, chained : BOOLEAN, state : {"row"},
   body : [status : Statuses]]
AnsweredDetails ==
  [kind : {"detail"}, tenant : Tenants, id : Executions, chained : BOOLEAN,
   state : {"answered"}, body : Details]
Approvals ==
  [kind : {"approve"}, tenant : Tenants, id : Executions, chained : {FALSE},
   state : {"sent", "answered", "refused"}, body : [verdict : Verdicts, connected : Tenants]]

AllRequests == ListRequests \cup SentDetails \cup RowDetails \cup AnsweredDetails \cup Approvals

Bag(r) == SetToBag({r})
UnderWay == BagToSet(inFlight)
Waiting(kind, state) == {r \in UnderWay : r.kind = kind /\ r.state = state}

Send(requests) ==
  /\ BagCardinality(inFlight) + BagCardinality(requests) <= MaxRequests
  /\ inFlight' = inFlight (+) requests
Becomes(r, s) == inFlight' = (inFlight (-) Bag(r)) (+) Bag(s)

(* The detail that the effects load when `id' becomes the selection.       *)
Selecting(id) == IF id = None THEN EmptyBag ELSE Bag(LoadDetail(tenant, id, FALSE))

Init ==
  /\ status = [e \in Executions |-> "APPROVAL"]
  /\ tenant \in Tenants
  /\ devMode \in IF \A e \in Executions : TenantOf[e] = tenant THEN BOOLEAN ELSE {TRUE}
  /\ inFlight = Bag(LoadExecutions(tenant, FALSE))
  /\ principal = devMode
  /\ list = {} /\ selected = None /\ detail = None
  /\ busy = FALSE

-----------------------------------------------------------------------------
(* The database and the API. *)

OthersMove(e, s) ==
  /\ Rank(s) = Rank(status[e]) + 1 /\ status[e] # "REJECTED"
  /\ status' = [status EXCEPT ![e] = s]
  /\ UNCHANGED <<inFlight, page>>

RowRead(r) ==
  /\ r \in Waiting("detail", "sent") /\ TenantOf[r.id] = r.tenant
  /\ Becomes(r, [r EXCEPT !.state = "row", !.body = [status |-> status[r.id]]])
  /\ UNCHANGED <<status, page>>

DetailAnswered(r) ==
  /\ r \in Waiting("detail", "row")
  /\ Becomes(r, [r EXCEPT !.state = "answered",
                   !.body = [id |-> r.id, status |-> r.body.status,
                             pending |-> status[r.id] = "APPROVAL"]])
  /\ UNCHANGED <<status, page>>

Decidable(r) == status[r.id] = "APPROVAL" /\ TenantOf[r.id] = r.tenant

Decided(r) ==
  /\ r \in Waiting("approve", "sent") /\ Decidable(r)
  /\ status' = [status EXCEPT ![r.id] = r.body.verdict]
  /\ \E s \in {"answered", "refused"} : Becomes(r, [r EXCEPT !.state = s])
  /\ UNCHANGED page

-----------------------------------------------------------------------------
(* Answers reach the page. *)

(* The finally of approve() runs when both of its reloads have settled.    *)
FaultyEnded(r) == busy' = (busy /\ ~r.chained)
Ended(r) == busy' = (busy /\ ~(r.chained /\ \A s \in UnderWay \ {r} : ~s.chained))

(* What a list contains does not change here; when it is read is not told. *)
ListArrives(r) ==
  /\ r \in Waiting("list", "sent")
  /\ list' = {e \in Executions : TenantOf[e] = r.tenant}
  /\ selected' \in IF selected = None /\ list' # {} THEN list' ELSE {selected}
  /\ inFlight' = (inFlight (-) Bag(r))
                   (+) (IF selected' = selected THEN EmptyBag ELSE Selecting(selected'))
  /\ Ended(r)
  /\ UNCHANGED <<status, devMode, principal, tenant, detail>>

DetailArrives(r) ==
  /\ r \in Waiting("detail", "answered")
  /\ detail' = r.body
  /\ inFlight' = inFlight (-) Bag(r)
  /\ Ended(r)
  /\ UNCHANGED <<status, devMode, principal, tenant, list, selected>>

ApprovalArrives(r) ==
  /\ r \in Waiting("approve", "answered")
  /\ inFlight' = (inFlight (-) Bag(r))
                   (+) SetToBag({LoadExecutions(r.tenant, TRUE), LoadDetail(r.tenant, r.id, TRUE)})
  /\ UNCHANGED <<status, page>>

FaultyFinally(r) == busy
Finally(r) == busy /\ r.kind # "approve"

(* Refused by the API, or lost on the way there or back.                   *)
RefusalArrives(r) ==
  /\ r \in UnderWay /\ r.state \in {"sent", "row", "refused"}
  /\ inFlight' = inFlight (-) Bag(r)
  /\ IF r.kind = "approve" THEN busy' = Finally(r) ELSE Ended(r)
  /\ UNCHANGED <<status, devMode, principal, tenant, list, selected, detail>>

(* In production /api/me sets the tenant: unless it is the one built in,   *)
(* there are new headers and loaders, and their effects run again.         *)
PrincipalArrives ==
  /\ ~principal /\ principal' = TRUE
  /\ Send(EmptyBag) \/ Send(Bag(LoadExecutions(tenant, FALSE)) (+) Selecting(selected))
  /\ UNCHANGED <<status, devMode, tenant, list, selected, detail, busy>>

-----------------------------------------------------------------------------
(* The interval and the operator. *)

FaultyPolled == IF detail = None THEN selected ELSE detail.id
Polled == selected

(* Auto refresh is on as long as the interval fires.                       *)
Tick ==
  /\ Send(Bag(LoadExecutions(tenant, FALSE)) (+) Selecting(Polled))
  /\ UNCHANGED <<status, page>>

Select(e) ==
  /\ e \in list \ {selected}
  /\ selected' = e
  /\ Send(Selecting(e))
  /\ UNCHANGED <<status, devMode, principal, tenant, list, detail, busy>>

Refresh ==
  /\ \A r \in UnderWay : r.kind # "list"
  /\ Send(Bag(LoadExecutions(tenant, FALSE)))
  /\ UNCHANGED <<status, page>>

SelectTenant(t) ==
  /\ devMode
  /\ tenant' = t /\ selected' = None /\ detail' = None
  /\ Send(IF t = tenant THEN EmptyBag ELSE Bag(LoadExecutions(t, FALSE)))
  /\ UNCHANGED <<status, devMode, principal, list, busy>>

FaultyAnswered(v) == [detail EXCEPT !.status = v, !.pending = FALSE]
Answered(v) == detail

FaultyApprovalHeaders == TenantOf[detail.id]
ApprovalHeaders == tenant

Approve(v) ==
  /\ detail # None /\ detail.pending /\ ~busy
  /\ busy' = TRUE
  /\ detail' = Answered(v)
  /\ Send(Bag(Request("approve", ApprovalHeaders, detail.id, FALSE,
                      [verdict |-> v, connected |-> tenant])))
  /\ UNCHANGED <<status, devMode, principal, tenant, list, selected>>

-----------------------------------------------------------------------------
Environment ==
  \E e \in Executions, s \in Verdicts \cup {"OUTCOME"} : OthersMove(e, s)

Answer(r) == RowRead(r) \/ DetailAnswered(r) \/ Decided(r)

Arrival(r) == ListArrives(r) \/ DetailArrives(r) \/ ApprovalArrives(r) \/ RefusalArrives(r)

Operator ==
  \/ \E e \in Executions : Select(e)
  \/ Refresh
  \/ \E t \in Tenants : SelectTenant(t)
  \/ \E v \in Verdicts : Approve(v)

Next ==
  \/ Environment \/ PrincipalArrives \/ Tick \/ Operator
  \/ \E r \in UnderWay : Answer(r) \/ Arrival(r)

Spec == Init /\ [][Next]_vars

(* Every request is answered or fails, and the page takes what arrives;    *)
(* reads of the selected execution do not fail every single time.  Late    *)
(* are the requests that would show something else than the selected       *)
(* execution as it is; Awaited those of approve().                         *)
Serve(r) == Answer(r) \/ Arrival(r)
Late(r) == /\ r.kind = "detail"
           /\ (r.id # selected \/ (r.body # None /\ r.body.status # status[r.id]))
Fresh(r) == r.kind = "detail" /\ r.id = selected /\ ~Late(r)
Awaited(r) == r.kind = "approve" \/ r.chained

Fairness ==
  /\ WF_vars(\E r \in UnderWay : Serve(r))
  /\ WF_vars(\E r \in UnderWay : Late(r) /\ Serve(r))
  /\ WF_vars(\E r \in UnderWay : Awaited(r) /\ Serve(r))
  /\ SF_vars(\E r \in UnderWay : Fresh(r) /\ RowRead(r))
  /\ SF_vars(\E r \in UnderWay : Fresh(r) /\ DetailAnswered(r))
  /\ WF_vars(\E r \in UnderWay : Fresh(r) /\ DetailArrives(r))

FairSpec == Spec /\ Fairness

-----------------------------------------------------------------------------
(* Properties. *)

(* Rows, requests and the page's state hold values of their kind, and the  *)
(* buttons are disabled exactly while approve() awaits a request.          *)
TypeOK ==
  /\ status \in [Executions -> Statuses]
  /\ IsABag(inFlight) /\ UnderWay \subseteq AllRequests
  /\ tenant \in Tenants /\ list \in SUBSET Executions
  /\ selected \in Executions \cup {None} /\ detail \in Details \cup {None}
  /\ devMode \in BOOLEAN /\ principal \in BOOLEAN /\ busy \in BOOLEAN
  /\ busy <=> \E r \in UnderWay : Awaited(r)

(* "The browser must never infer authoritative execution state": what the  *)
(* page shows is behind the database, never ahead of it, and a gate that   *)
(* it shows without buttons has been decided.                              *)
ShownWasTrue ==
  detail # None =>
    /\ Rank(detail.status) <= Rank(status[detail.id])
    /\ ~detail.pending => status[detail.id] # "APPROVAL"

(* A decision that is recorded is about an execution of the tenant that    *)
(* the page was connected to at the click, also when a late answer had put *)
(* another tenant's execution, with its buttons, in front of the operator, *)
(* and whatever tenant the page has been connected to since.               *)
DecisionsStayInTenant ==
  [][\A r \in Waiting("approve", "sent") :
       r \notin BagToSet(inFlight') /\ status'[r.id] # status[r.id]
         => TenantOf[r.id] = r.body.connected]_vars

(* Whatever a decision's request and its reloads come to, the buttons are  *)
(* enabled again.                                                          *)
ButtonsReturn == busy ~> ~busy

(* In production, with auto refresh left on and the operator's hands off,  *)
(* late and overtaken answers are corrected for good: the page shows the   *)
(* selected execution as it is in the database.                            *)
Current ==
  selected # None => detail = [id |-> selected, status |-> status[selected],
                               pending |-> status[selected] = "APPROVAL"]
Settles == []~devMode /\ WF_vars(Tick) /\ <>[][~Operator]_vars => <>[]Current
=============================================================================
