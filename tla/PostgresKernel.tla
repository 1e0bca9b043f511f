---------------------------- MODULE PostgresKernel ----------------------------
(***************************************************************************)
(* PostgresExecutionService and PgExecutionStore: the transactions that    *)
(* start an execution, decide its approval, move it, fail it and expire    *)
(* its approval, interleaved statement by statement at READ COMMITTED.     *)
(*                                                                         *)
(* A transaction takes its locks as it goes and its writes become visible  *)
(* together when it commits; a rollback, wherever it strikes, releases the *)
(* locks and writes nothing.  An approval row is named by the execution it *)
(* belongs to: start() is the only place that inserts one, and inserts one *)
(* per execution.                                                          *)
(***************************************************************************)
EXTENDS StateMachine, FiniteSets

CONSTANTS
  Executions,   \* execution ids; an approval carries the id of its execution
  Tenants,
  Keys,         \* idempotency keys
  Clients,      \* connections that run start/decide/transition/fail calls
  Sweepers,     \* connections that run expireApprovalsOnce
  Calls,        \* the calls the clients may make
  BatchSize,    \* the limit given to expireApprovalsOnce
  None          \* an absent row, key, lock holder or call

Processes == Clients \cup Sweepers

Verdicts == {"APPROVED", "REJECTED"}
ApprovalStatus == {"PENDING", "EXPIRED"} \cup Verdicts
AuditEntry == {"POLICY_CHECK", "EXPIRED"} \cup Verdicts
Clocks == {"application", "database"}

StartCalls ==
  [op : {"start"}, execution : Executions, tenant : Tenants,
   decision : Decisions, key : Keys \cup {None}]
DecideCalls ==
  [op : {"decide"}, execution : Executions, ticket : Executions, verdict : Verdicts]
TransitionCalls ==
  [op : {"transition"}, execution : Executions, target : ExecutionStatus]
FailCalls == [op : {"fail"}, execution : Executions]

(* What the request hash identifies; the decision stands for the rest of   *)
(* the request, which fixes it.                                            *)
Request(c) == [execution |-> c.execution, tenant |-> c.tenant, decision |-> c.decision]
Requests == [execution : Executions, tenant : Tenants, decision : Decisions]

ASSUME CallsAssumption ==
  Calls \subseteq StartCalls \cup DecideCalls \cup TransitionCalls \cup FailCalls
ASSUME ProcessesAssumption == Clients \cap Sweepers = {} /\ None \notin Processes
ASSUME NoneAssumption ==
  /\ None \notin Keys
  /\ None \notin Requests
  /\ None \notin Calls
  /\ None \notin ExecutionStatus
  /\ None \notin ApprovalStatus
ASSUME BatchSizeAssumption == BatchSize \in 1..100

VARIABLES
  \* the committed rows
  status,       \* logon_executions.status
  events,       \* logon_execution_events, in sequence order
  approval,     \* logon_approvals.status
  dispatches,   \* the executions with a logon_execution_dispatches row
  audit,        \* logon_audit, in commit order
  idempotency,  \* logon_idempotency: the request hash kept for <<tenant, key>>
  tenants,      \* logon_tenants
  \* time
  expired,      \* the approvals whose expires_at each clock has passed
  \* locks and the open transaction of each connection
  holder,       \* who holds each row or advisory lock
  pc,           \* the next statement of each connection's transaction
  call,         \* the call it serves
  outcome,      \* decideApproval: what becomes of the approval
  seq,          \* the event sequence number it computed
  sweep,        \* expireApprovalsOnce: the statement's progress
  \* history
  replies       \* the successful answers to start calls that carried a key

rows  == <<status, events, approval, dispatches, audit, idempotency, tenants>>
local == <<pc, call, outcome, seq, sweep>>
vars  == <<rows, expired, holder, local, replies>>

-----------------------------------------------------------------------------
(* Locks. *)

ExecutionRow(e) == <<"execution", e>>
ApprovalRow(e)  == <<"approval", e>>
TenantRow(t)    == <<"tenant", t>>
KeyLock(t, k)   == <<"key", t, k>>

Resources == {ExecutionRow(e) : e \in Executions} \cup {ApprovalRow(e) : e \in Executions}
             \cup {TenantRow(t) : t \in Tenants}
             \cup {KeyLock(t, k) : t \in Tenants, k \in Keys}

Free(r) == holder[r] = None
Acquire(p, r) == holder' = [holder EXCEPT ![r] = p]

NoSweep == [todo |-> {}, claimed |-> {}, marked |-> {}]

(* COMMIT or ROLLBACK: every lock is released, the connection goes back.   *)
EndTransaction(p) ==
  /\ holder' = [r \in Resources |-> IF holder[r] = p THEN None ELSE holder[r]]
  /\ pc' = [pc EXCEPT ![p] = "idle"]
  /\ call' = [call EXCEPT ![p] = None]
  /\ outcome' = [outcome EXCEPT ![p] = None]
  /\ seq' = [seq EXCEPT ![p] = 0]
  /\ sweep' = [sweep EXCEPT ![p] = NoSweep]

Rollback(p) == EndTransaction(p) /\ UNCHANGED <<rows, expired, replies>>

Goto(p, label) == pc' = [pc EXCEPT ![p] = label]

Init ==
  /\ status = [e \in Executions |-> None]
  /\ events = [e \in Executions |-> <<>>]
  /\ approval = [e \in Executions |-> None]
  /\ dispatches = {}
  /\ audit = [e \in Executions |-> <<>>]
  /\ idempotency = [row \in Tenants \X Keys |-> None]
  /\ tenants = {}
  /\ expired = [c \in Clocks |-> {}]
  /\ holder = [r \in Resources |-> None]
  /\ pc = [p \in Processes |-> "idle"]
  /\ call = [p \in Processes |-> None]
  /\ outcome = [p \in Processes |-> None]
  /\ seq = [p \in Processes |-> 0]
  /\ sweep = [p \in Processes |-> NoSweep]
  /\ replies = {}

-----------------------------------------------------------------------------
(* start().  A transaction waits on the insert of a tenant or an execution *)
(* that another open transaction has inserted first.                       *)

StartTenant(p, c) ==
  /\ pc[p] = "idle" /\ c.op = "start"
  /\ Free(TenantRow(c.tenant))
  /\ IF c.tenant \in tenants THEN UNCHANGED holder ELSE Acquire(p, TenantRow(c.tenant))
  /\ call' = [call EXCEPT ![p] = c]
  /\ Goto(p, IF c.key = None THEN "insert" ELSE "key")
  /\ UNCHANGED <<rows, expired, outcome, seq, sweep, replies>>

FaultyStartLockKey(p) ==
  pc[p] = "key" /\ Goto(p, "lookup")
  /\ UNCHANGED <<rows, expired, holder, call, outcome, seq, sweep, replies>>

StartLockKey(p) ==
  /\ pc[p] = "key"
  /\ Free(KeyLock(call[p].tenant, call[p].key))
  /\ Acquire(p, KeyLock(call[p].tenant, call[p].key))
  /\ Goto(p, "lookup")
  /\ UNCHANGED <<rows, expired, call, outcome, seq, sweep, replies>>

Recorded(c) == idempotency[<<c.tenant, c.key>>]

Answer(c, execution) ==
  replies' = IF c.key = None THEN replies
             ELSE replies \cup {[key |-> c.key, request |-> Request(c), execution |-> execution]}

FaultySameRequest(c) == Recorded(c) # None
SameRequest(c) == Recorded(c) = Request(c)

StartLookup(p) ==
  /\ pc[p] = "lookup"
  /\ \/ /\ Recorded(call[p]) = None
        /\ Goto(p, "insert")
        /\ UNCHANGED <<rows, expired, holder, call, outcome, seq, sweep, replies>>
     \/ /\ SameRequest(call[p])                       \* reused
        /\ Answer(call[p], Recorded(call[p]).execution)
        /\ tenants' = tenants \cup {call[p].tenant}
        /\ EndTransaction(p)
        /\ UNCHANGED <<status, events, approval, dispatches, audit, idempotency, expired>>
     \/ /\ Recorded(call[p]) # None                   \* IdempotencyConflictError
        /\ ~SameRequest(call[p])
        /\ Rollback(p)

StartInsert(p) ==
  /\ pc[p] = "insert"
  /\ Free(ExecutionRow(call[p].execution))
  /\ IF status[call[p].execution] # None
       THEN Rollback(p)                                \* the primary key refuses it
       ELSE /\ Acquire(p, ExecutionRow(call[p].execution))
            /\ Goto(p, "commit")
            /\ UNCHANGED <<rows, expired, call, outcome, seq, sweep, replies>>

(* Nothing stands between the request and the worker. *)
FaultyUngated(c) == c.decision # "DENIED"
Ungated(c) == c.decision = "OPEN"

(* The rest of start(): first event, approval or dispatch, audit, the      *)
(* idempotency record (ON CONFLICT DO NOTHING) and the check of what is    *)
(* then recorded.  Equal hashes name equal executions, so the last branch  *)
(* of that check (another execution under the same hash) is never taken.   *)
StartCommit(p) ==
  LET c == call[p]  e == c.execution IN
  /\ pc[p] = "commit" /\ c.op = "start"
  /\ IF c.key # None /\ Recorded(c) # None /\ ~SameRequest(c)
       THEN Rollback(p)
       ELSE /\ status' = [status EXCEPT ![e] = StartStatus(c.decision)]
            /\ events' = [events EXCEPT ![e] = <<StartStatus(c.decision)>>]
            /\ approval' = IF c.decision = "GATED"
                             THEN [approval EXCEPT ![e] = "PENDING"] ELSE approval
            /\ dispatches' = IF Ungated(c) THEN dispatches \cup {e} ELSE dispatches
            /\ audit' = [audit EXCEPT ![e] = Append(@, "POLICY_CHECK")]
            /\ idempotency' = IF c.key = None THEN idempotency
                              ELSE [idempotency EXCEPT ![<<c.tenant, c.key>>] = Request(c)]
            /\ tenants' = tenants \cup {c.tenant}
            /\ Answer(c, e)
            /\ EndTransaction(p)
            /\ UNCHANGED expired

-----------------------------------------------------------------------------
(* decideApproval(), transition() and fail().  Each opens with             *)
(* lockExecution and a check of the locked status; a call that fails this  *)
(* first check rolls back having done nothing, so only the others begin.   *)

FaultyLockExecution(p, c, label) ==
  /\ pc[p] = "idle" /\ status[c.execution] # None
  /\ call' = [call EXCEPT ![p] = c] /\ Goto(p, label)
  /\ UNCHANGED <<rows, expired, holder, outcome, seq, sweep, replies>>

LockExecution(p, c, label) ==
  /\ pc[p] = "idle"
  /\ status[c.execution] # None                  \* else ExecutionNotFoundError
  /\ Free(ExecutionRow(c.execution))
  /\ Acquire(p, ExecutionRow(c.execution))
  /\ call' = [call EXCEPT ![p] = c]
  /\ Goto(p, label)
  /\ UNCHANGED <<rows, expired, outcome, seq, sweep, replies>>

DecideBegin(p, c) == /\ c.op = "decide"
                     /\ status[c.execution] = "APPROVAL"
                     /\ LockExecution(p, c, "ticket")

TransitionBegin(p, c) == /\ c.op = "transition"
                         /\ status[c.execution] # None
                         /\ CanTransition(status[c.execution], c.target)
                         /\ LockExecution(p, c, "read")

FailBegin(p, c) == /\ c.op = "fail"
                   /\ status[c.execution] \notin TerminalStatus
                   /\ LockExecution(p, c, "read")

(* SELECT ... FOR UPDATE OF a; no row is ApprovalNotFoundError. *)
DecideLockTicket(p) ==
  LET a == call[p].ticket IN
  /\ pc[p] = "ticket"
  /\ \/ approval[a] = None /\ Rollback(p)
     \/ /\ approval[a] # None
        /\ Free(ApprovalRow(a))
        /\ Acquire(p, ApprovalRow(a))
        /\ Goto(p, "verdict")
        /\ UNCHANGED <<rows, expired, call, outcome, seq, sweep, replies>>

(* The checks on the locked approval.  An approval of another execution or *)
(* one already decided is refused; one past its expiry is expired instead. *)
FaultyTicketRefused(c) == approval[c.ticket] # "PENDING"
TicketRefused(c) == c.ticket # c.execution \/ approval[c.ticket] # "PENDING"

FaultySettled(c) == IF c.verdict = "APPROVED" THEN "EXECUTION" ELSE "REJECTED"
Settled(c) == IF c.ticket \in expired["application"] THEN "EXPIRED" ELSE c.verdict

DecideVerdict(p) ==
  /\ pc[p] = "verdict"
  /\ \/ TicketRefused(call[p]) /\ Rollback(p)
     \/ /\ ~TicketRefused(call[p])
        /\ outcome' = [outcome EXCEPT ![p] = Settled(call[p])]
        /\ Goto(p, "read")
        /\ UNCHANGED <<rows, expired, holder, call, seq, sweep, replies>>

(* SELECT max(sequence). *)
ReadSequence(p) ==
  /\ pc[p] = "read"
  /\ seq' = [seq EXCEPT ![p] = Len(events[call[p].execution]) + 1]
  /\ Goto(p, "commit")
  /\ UNCHANGED <<rows, expired, holder, call, outcome, sweep, replies>>

FaultyApproves(p) == outcome[p] # "REJECTED"
Approves(p) == outcome[p] = "APPROVED"

(* The status the call writes. *)
Target(p) ==
  IF call[p].op = "transition" THEN call[p].target
  ELSE IF call[p].op = "decide" /\ Approves(p) THEN "EXECUTION"
  ELSE IF call[p].op = "decide" THEN "REJECTED" ELSE "FAILED"

(* The primary key (execution_id, sequence) is free for the event. *)
SequenceFree(p) == seq[p] > Len(events[call[p].execution])

FaultyWriteStatus(p) ==
  /\ status' = [status EXCEPT ![call[p].execution] = Target(p)]
  /\ UNCHANGED events

WriteStatus(p) ==
  LET e == call[p].execution IN
  /\ status' = [status EXCEPT ![e] = Target(p)]
  /\ events' = [events EXCEPT ![e] = Append(@, Target(p))]

DecideCommit(p) ==
  LET e == call[p].execution IN
  /\ pc[p] = "commit" /\ call[p].op = "decide"
  /\ IF SequenceFree(p)
       THEN /\ WriteStatus(p)
            /\ approval' = [approval EXCEPT ![call[p].ticket] = outcome[p]]
            /\ dispatches' = IF Approves(p) THEN dispatches \cup {e} ELSE dispatches
            /\ audit' = [audit EXCEPT ![e] = Append(@, outcome[p])]
            /\ EndTransaction(p)
            /\ UNCHANGED <<idempotency, tenants, expired, replies>>
       ELSE Rollback(p)

StatusCommit(p) ==
  /\ pc[p] = "commit" /\ call[p].op \in {"transition", "fail"}
  /\ IF SequenceFree(p)
       THEN /\ WriteStatus(p)
            /\ EndTransaction(p)
            /\ UNCHANGED <<approval, dispatches, audit, idempotency, tenants, expired, replies>>
       ELSE Rollback(p)

-----------------------------------------------------------------------------
(* expireApprovalsOnce().  One statement selects the expired PENDING       *)
(* approvals from its snapshot, locks their execution rows (SKIP LOCKED,   *)
(* at most BatchSize) and marks the approvals EXPIRED as it goes; then     *)
(* each execution still in APPROVAL is rejected.  The status of the        *)
(* approval is not looked at again after the snapshot: the row lock is on  *)
(* the execution, and the UPDATE names the approval by its id alone.       *)

FaultyCandidates ==
  {e \in expired["database"] : approval[e] = "PENDING" /\ status[e] = "APPROVAL"}
Candidates == {e \in expired["database"] : approval[e] = "PENDING"}

(* The rows the statement locks for an approval: FOR UPDATE OF e, then the *)
(* approval its UPDATE writes.                                             *)
FaultySweepLocks(e) == <<ApprovalRow(e), ExecutionRow(e)>>
SweepLocks(e) == <<ExecutionRow(e), ApprovalRow(e)>>

SweepBegin(p) ==
  /\ pc[p] = "idle"
  /\ Candidates # {}
  /\ sweep' = [sweep EXCEPT ![p].todo = Candidates]
  /\ Goto(p, "sweep")
  /\ UNCHANGED <<rows, expired, holder, call, outcome, seq, replies>>

BatchFull(p) == Cardinality(sweep[p].claimed) >= BatchSize

SweepClaim(p) ==
  /\ pc[p] = "sweep" /\ ~BatchFull(p)
  /\ \E e \in sweep[p].todo :
       /\ Free(SweepLocks(e)[1])
       /\ Acquire(p, SweepLocks(e)[1])
       /\ sweep' = [sweep EXCEPT ![p].todo = @ \ {e}, ![p].claimed = @ \cup {e}]
  /\ UNCHANGED <<rows, expired, pc, call, outcome, seq, replies>>

SweepSkip(p) ==
  /\ pc[p] = "sweep" /\ ~BatchFull(p)
  /\ \E e \in sweep[p].todo :
       /\ ~Free(SweepLocks(e)[1])
       /\ sweep' = [sweep EXCEPT ![p].todo = @ \ {e}]
  /\ UNCHANGED <<rows, expired, holder, pc, call, outcome, seq, replies>>

SweepMark(p) ==
  /\ pc[p] = "sweep"
  /\ \E e \in sweep[p].claimed \ sweep[p].marked :
       /\ Free(SweepLocks(e)[2])
       /\ Acquire(p, SweepLocks(e)[2])
       /\ sweep' = [sweep EXCEPT ![p].marked = @ \cup {e}]
  /\ UNCHANGED <<rows, expired, pc, call, outcome, seq, replies>>

(* Those the loop rejects: the others were decided or failed meanwhile. *)
FaultyRejects(claimed) == claimed
NeverRejects(claimed) == {}
Rejects(claimed) == {e \in claimed : status[e] = "APPROVAL"}

SweepCommit(p) ==
  LET claimed  == sweep[p].claimed
      rejected == Rejects(claimed) IN
  /\ pc[p] = "sweep"
  /\ sweep[p].todo = {} \/ BatchFull(p)
  /\ sweep[p].marked = claimed
  /\ approval' = [e \in Executions |-> IF e \in claimed THEN "EXPIRED" ELSE approval[e]]
  /\ status' = [e \in Executions |-> IF e \in rejected THEN "REJECTED" ELSE status[e]]
  /\ events' = [e \in Executions |->
                  IF e \in rejected THEN Append(events[e], "REJECTED") ELSE events[e]]
  /\ audit' = [e \in Executions |->
                 IF e \in rejected THEN Append(audit[e], "EXPIRED") ELSE audit[e]]
  /\ EndTransaction(p)
  /\ UNCHANGED <<dispatches, idempotency, tenants, expired, replies>>

-----------------------------------------------------------------------------
(* A statement fails, a connection breaks or the process dies before COMMIT. *)
Abort(p) == pc[p] # "idle" /\ Rollback(p)

(* expires_at passes on a clock: decideApproval compares it with Date.now() *)
(* of its process, the sweep with now() of the database.                    *)
TimePasses(clock, e) ==
  /\ approval[e] # None /\ e \notin expired[clock]
  /\ expired' = [expired EXCEPT ![clock] = @ \cup {e}]
  /\ UNCHANGED <<rows, holder, local, replies>>

Call(p) == \E c \in Calls :
             StartTenant(p, c) \/ DecideBegin(p, c) \/ TransitionBegin(p, c) \/ FailBegin(p, c)

ClientStep(p) ==
  \/ StartLockKey(p) \/ StartLookup(p) \/ StartInsert(p) \/ StartCommit(p)
  \/ DecideLockTicket(p) \/ DecideVerdict(p) \/ DecideCommit(p)
  \/ ReadSequence(p) \/ StatusCommit(p)

SweeperStep(p) ==
  SweepBegin(p) \/ SweepClaim(p) \/ SweepSkip(p) \/ SweepMark(p) \/ SweepCommit(p)

Next ==
  \/ \E p \in Clients : Call(p) \/ ClientStep(p)
  \/ \E p \in Sweepers : SweeperStep(p)
  \/ \E p \in Processes : Abort(p)
  \/ \E clock \in Clocks, e \in Executions : TimePasses(clock, e)

Spec == Init /\ [][Next]_vars

(* Fairness.  A connection that can run its next statement eventually does; *)
(* a transaction that is retried is not cut off, and a row is not found     *)
(* locked, at the same statement every time (strong fairness); the sweeper  *)
(* is polled for ever and the clocks advance.                               *)
Fairness ==
  /\ \A p \in Clients :
       /\ SF_vars(DecideLockTicket(p)) /\ SF_vars(DecideVerdict(p)) /\ SF_vars(DecideCommit(p))
       /\ SF_vars(ReadSequence(p)) /\ SF_vars(StatusCommit(p))
  /\ \A p \in Sweepers :
       /\ SF_vars(SweepBegin(p)) /\ SF_vars(SweepClaim(p)) /\ WF_vars(SweepSkip(p))
       /\ SF_vars(SweepMark(p))  /\ SF_vars(SweepCommit(p))
  /\ \A clock \in Clocks, e \in Executions : WF_vars(TimePasses(clock, e))

FairSpec == Spec /\ Fairness

-----------------------------------------------------------------------------
(* Properties. *)

PcOfClient  == {"idle", "key", "lookup", "insert", "ticket", "verdict", "read", "commit"}
PcOfSweeper == {"idle", "sweep"}

(* Every row, lock and local variable holds a value the schema and the     *)
(* code allow (the CHECK constraints of 0002_kernel_constraints.sql).      *)
TypeOK ==
  /\ status \in [Executions -> ExecutionStatus \cup {None}]
  /\ events \in [Executions -> Seq(ExecutionStatus)]
  /\ approval \in [Executions -> ApprovalStatus \cup {None}]
  /\ dispatches \in SUBSET Executions
  /\ audit \in [Executions -> Seq(AuditEntry)]
  /\ idempotency \in [Tenants \X Keys -> Requests \cup {None}]
  /\ tenants \in SUBSET Tenants
  /\ expired \in [Clocks -> SUBSET Executions]
  /\ holder \in [Resources -> Processes \cup {None}]
  /\ pc \in [Processes -> PcOfClient \cup PcOfSweeper]
  /\ call \in [Processes -> Calls \cup {None}]
  /\ outcome \in [Processes -> Verdicts \cup {"EXPIRED", None}]
  /\ seq \in [Processes -> Nat]
  /\ sweep \in [Processes -> [todo : SUBSET Executions, claimed : SUBSET Executions,
                              marked : SUBSET Executions]]
  /\ replies \in SUBSET [key : Keys, request : Requests, execution : Executions]

(* The status column is the last event of the log, whatever transactions   *)
(* interleave: transition, fail, decideApproval and the sweep each read    *)
(* max(sequence) and write two tables.                                     *)
StatusIsLastEvent ==
  \A e \in Executions :
    status[e] = IF events[e] = <<>> THEN None ELSE events[e][Len(events[e])]

(* The committed log of every execution follows the transition table, also *)
(* where the check and the write are statements apart (assertTransition is *)
(* called on a status read earlier in the transaction).                    *)
LegalHistory == \A e \in Executions : Legal(events[e])

(* Work is released exactly once it may be: an execution has a dispatch    *)
(* row iff it started without a gate or an approver's APPROVED was audited *)
(* (start lines 101-114, decideApproval lines 233-247).                    *)
Entries(e) == {audit[e][i] : i \in DOMAIN audit[e]}

DispatchJustified ==
  \A e \in Executions :
    e \in dispatches <=>
      \/ events[e] # <<>> /\ events[e][1] = "INTAKE"
      \/ "APPROVED" \in Entries(e)

(* At most one verdict is ever recorded for an execution's gate, and the   *)
(* execution went where it says: two deciders, a sweep and an expired      *)
(* decision may all be under way at once.                                  *)
VerdictHonoured ==
  \A e \in Executions :
    /\ Cardinality({i \in DOMAIN audit[e] : audit[e][i] # "POLICY_CHECK"}) <= 1
    /\ "APPROVED" \in Entries(e) => /\ Len(events[e]) > 1
                                    /\ events[e][2] = "EXECUTION"
    /\ Entries(e) \cap {"REJECTED", "EXPIRED"} # {} =>
         status[e] = "REJECTED" /\ e \notin dispatches

(* An execution waiting at the gate start() gave it can still be decided:  *)
(* its approval is PENDING.  Otherwise no decision and no sweep would ever *)
(* move it, since both refuse or ignore any other approval.                *)
WaitingIsDecidable ==
  \A e \in Executions :
    Len(events[e]) = 1 /\ status[e] = "APPROVAL" => approval[e] = "PENDING"

(* A key of a tenant stands for one request for ever: all the successful   *)
(* answers given under it were given to the same request and name the same *)
(* execution (advisory lock, lookup, insert and post-insert check).        *)
AnswersAgree ==
  \A r1, r2 \in replies :
    r1.key = r2.key /\ r1.request.tenant = r2.request.tenant =>
      r1.request = r2.request /\ r1.execution = r2.execution

(* A retried start never runs into the primary key of the execution its    *)
(* first attempt created: past the lookup, the request's own record cannot *)
(* appear (the advisory lock is held from the lookup to COMMIT).           *)
RetryNeverCollides ==
  \A p \in Clients :
    pc[p] \in {"insert", "commit"} /\ call[p].op = "start" /\ call[p].key # None =>
      Recorded(call[p]) = None

(* Under the execution row's lock nothing the transaction has read goes    *)
(* stale before COMMIT: the transition it checked is still legal and the   *)
(* sequence number it computed is still the next one, so the primary key   *)
(* of the event log never has to refuse it.                                *)
ReadsValid(p) ==
  LET e == call[p].execution IN
  pc[p] \in {"read", "commit"} /\ call[p].op # "start" =>
    /\ status[e] # None
    /\ CanTransition(status[e], Target(p))
    /\ pc[p] = "commit" => seq[p] = Len(events[e]) + 1

ReadsStayValid == \A p \in Clients : ReadsValid(p)

(* The call a connection serves fits the statement it has reached.         *)
CallFits ==
  /\ \A p \in Sweepers : pc[p] \in PcOfSweeper
  /\ \A p \in Clients :
       /\ pc[p] \in PcOfClient
       /\ pc[p] # "idle" => call[p] \in Calls
       /\ pc[p] \in {"key", "lookup"} => call[p] \in StartCalls /\ call[p].key # None
       /\ pc[p] = "insert" => call[p] \in StartCalls
       /\ pc[p] \in {"ticket", "verdict"} => call[p] \in DecideCalls
       /\ pc[p] = "read" => call[p] \in DecideCalls \cup TransitionCalls \cup FailCalls
       /\ pc[p] \in {"read", "commit"} /\ call[p] \in DecideCalls => outcome[p] # None

(* The locks each connection holds at each statement.                      *)
ClientLocks(p) ==
  /\ pc[p] \in {"ticket", "verdict", "read", "commit"} =>
       holder[ExecutionRow(call[p].execution)] = p
  /\ pc[p] = "verdict" => holder[ApprovalRow(call[p].ticket)] = p
  /\ pc[p] \in {"read", "commit"} /\ call[p] \in DecideCalls =>
       /\ call[p].ticket = call[p].execution
       /\ holder[ApprovalRow(call[p].ticket)] = p
  /\ pc[p] \in {"lookup", "insert", "commit"} /\ call[p] \in StartCalls /\ call[p].key # None =>
       holder[KeyLock(call[p].tenant, call[p].key)] = p

SweeperLocks(p) ==
  /\ pc[p] = "idle" => sweep[p] = NoSweep
  /\ sweep[p].marked \subseteq sweep[p].claimed
  /\ \A e \in sweep[p].claimed : holder[ExecutionRow(e)] = p
  /\ \A e \in sweep[p].marked : holder[ApprovalRow(e)] = p

LocksHeld == /\ \A p \in Clients : ClientLocks(p)
             /\ \A p \in Sweepers : SweeperLocks(p)

(* What start() is about to insert does not exist; what a decision has     *)
(* locked is waiting.                                                      *)
GuardTrue(p) ==
  /\ pc[p] = "commit" /\ call[p] \in StartCalls => status[call[p].execution] = None
  /\ pc[p] \in {"ticket", "verdict"} => status[call[p].execution] = "APPROVAL"

GuardsStayTrue == \A p \in Clients : GuardTrue(p)

(* The inductive invariant: with the locks held, what a transaction has    *)
(* read cannot be changed by another, so what it writes fits the log.      *)
IInv == /\ TypeOK
        /\ CallFits
        /\ LocksHeld
        /\ GuardsStayTrue
        /\ ReadsStayValid
        /\ StatusIsLastEvent
        /\ LegalHistory

(* A transaction that may have to wait for r, and the transactions it may  *)
(* wait for.                                                               *)
MayRequest(p) ==
  CASE pc[p] = "key"    -> {KeyLock(call[p].tenant, call[p].key)}
    [] pc[p] = "insert" -> {ExecutionRow(call[p].execution)}
    [] pc[p] = "ticket" -> {ApprovalRow(call[p].ticket)}
    [] pc[p] = "sweep"  -> {SweepLocks(e)[2] : e \in sweep[p].claimed \ sweep[p].marked}
    [] OTHER            -> {}

Blocks(q, p) == \E r \in MayRequest(p) : holder[r] = q

(* No cycle of transactions waits on one another, although starts, mis-    *)
(* addressed decisions (which lock another execution's approval) and       *)
(* batches of the sweep take several locks in different orders: in every   *)
(* set of transactions one waits for none of the set.                      *)
NoDeadlock ==
  \A S \in (SUBSET Processes) \ {{}} : \E p \in S : \A q \in S : ~Blocks(q, p)

(* The approval a human decided is never marked EXPIRED afterwards: the    *)
(* comment on expireApprovalsOnce (postgres-execution-service.ts:262)      *)
(* promises that it "Marks expired PENDING approvals".                     *)
ExpiresOnlyUndecided ==
  \A e \in Executions : approval[e] = "EXPIRED" => Entries(e) \cap Verdicts = {}

(* The kernel implements its abstract specification.                       *)
Lifecycle == INSTANCE ExecutionLifecycle WITH history <- events, outbox <- dispatches
ImplementsLifecycle == Lifecycle!Spec

(* An execution that start() left at its gate is eventually decided,       *)
(* failed or rejected by the sweep.  Nothing of the kind closes a gate that *)
(* transition() reached later (state-machine.ts:8, 10): no approval row    *)
(* comes with it, so it waits for another transition() or fail().          *)
GateCloses ==
  \A e \in Executions :
    Len(events[e]) = 1 /\ status[e] = "APPROVAL" ~> status[e] # "APPROVAL"

(* Every approval is eventually settled, also one whose execution failed   *)
(* while it was PENDING: the sweep marks it although there is nothing left *)
(* to reject.                                                              *)
ApprovalSettles ==
  \A e \in Executions : approval[e] = "PENDING" ~> approval[e] # "PENDING"
=============================================================================
