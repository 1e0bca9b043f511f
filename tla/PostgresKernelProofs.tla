------------------------- MODULE PostgresKernelProofs -------------------------
(***************************************************************************)
(* Theorems about PostgresKernel for every set of executions, tenants,     *)
(* keys, clients, sweepers and calls, and every batch size: types; what a  *)
(* transaction reads under its locks (IInv); then, each an invariant on    *)
(* top of IInv, the idempotency keys (KeyInv), the locks and deadlock      *)
(* (LockInv), and the approval gate with the lifecycle the kernel          *)
(* implements (GateInv).                                                   *)
(***************************************************************************)
EXTENDS PostgresKernel, StateMachineProofs, FiniteSetTheorems, SequenceTheorems

-----------------------------------------------------------------------------
(* Resources: each lock has a name of its own. *)

LEMMA ResourceNames ==
  /\ \A e \in Executions : ExecutionRow(e) \in Resources /\ ApprovalRow(e) \in Resources
  /\ \A t \in Tenants : TenantRow(t) \in Resources
  /\ \A t \in Tenants, k \in Keys : KeyLock(t, k) \in Resources
  BY DEF Resources

LEMMA ResourcesDiffer ==
  /\ \A a, b : ExecutionRow(a) = ExecutionRow(b) => a = b
  /\ \A a, b : ApprovalRow(a) = ApprovalRow(b) => a = b
  /\ \A a, b : ExecutionRow(a) # ApprovalRow(b)
  /\ \A a, b : TenantRow(a) # ExecutionRow(b) /\ TenantRow(a) # ApprovalRow(b)
  /\ \A t, k, a : /\ KeyLock(t, k) # ExecutionRow(a) /\ KeyLock(t, k) # ApprovalRow(a)
                  /\ KeyLock(t, k) # TenantRow(a)
  /\ \A t, k, u, l : KeyLock(t, k) = KeyLock(u, l) => t = u /\ k = l
  BY DEF ExecutionRow, ApprovalRow, TenantRow, KeyLock

(* Every call is of one of the four kinds, told apart by its op. *)
LEMMA CallKinds ==
  /\ \A c \in Calls :
       /\ c.op = "start" => c \in StartCalls
       /\ c.op = "decide" => c \in DecideCalls
       /\ c.op = "transition" => c \in TransitionCalls
       /\ c.op = "fail" => c \in FailCalls
       /\ c.op \in {"start", "decide", "transition", "fail"}
       /\ c.execution \in Executions
  /\ \A c \in StartCalls : /\ c.op = "start" /\ c.execution \in Executions /\ c.tenant \in Tenants
                           /\ c.decision \in Decisions /\ c.key \in Keys \cup {None}
                           /\ Request(c) \in Requests
  /\ \A c \in DecideCalls : /\ c.op = "decide" /\ c.execution \in Executions
                            /\ c.ticket \in Executions /\ c.verdict \in Verdicts
  /\ \A c \in TransitionCalls : /\ c.op = "transition" /\ c.execution \in Executions
                                /\ c.target \in ExecutionStatus
  /\ \A c \in FailCalls : c.op = "fail" /\ c.execution \in Executions
  BY CallsAssumption DEF StartCalls, DecideCalls, TransitionCalls, FailCalls, Request, Requests

LEMMA StartStatusType ==
  \A d \in Decisions : StartStatus(d) \in StartStatuses /\ StartStatus(d) \in ExecutionStatus
  BY DEF Decisions, StartStatus, StartStatuses, ExecutionStatus

-----------------------------------------------------------------------------
(* Type correctness. *)

TypeInv == TypeOK /\ CallFits

LEMMA EndTransactionType ==
  ASSUME NEW p \in Processes, TypeOK, EndTransaction(p)
  PROVE  /\ holder' \in [Resources -> Processes \cup {None}]
         /\ pc' \in [Processes -> PcOfClient \cup PcOfSweeper]
         /\ call' \in [Processes -> Calls \cup {None}]
         /\ outcome' \in [Processes -> Verdicts \cup {"EXPIRED", None}]
         /\ seq' \in [Processes -> Nat]
         /\ sweep' \in [Processes -> [todo : SUBSET Executions, claimed : SUBSET Executions,
                                      marked : SUBSET Executions]]
  BY DEF TypeOK, EndTransaction, NoSweep, PcOfClient, PcOfSweeper

LEMMA EndTransactionFits ==
  ASSUME NEW p \in Processes, TypeInv, EndTransaction(p)
  PROVE  CallFits'
  BY ProcessesAssumption
  DEF TypeInv, TypeOK, CallFits, EndTransaction, PcOfClient, PcOfSweeper, Processes

LEMMA RollbackType ==
  ASSUME NEW p \in Processes, TypeInv, Rollback(p)
  PROVE  TypeInv'
  BY EndTransactionType, EndTransactionFits DEF TypeInv, TypeOK, Rollback, rows

LEMMA InitType == Init => TypeInv
  BY DEF Init, TypeInv, TypeOK, CallFits, NoSweep, PcOfClient, PcOfSweeper, Processes, Clocks

LEMMA StartTenantType ==
  ASSUME NEW p \in Clients, NEW c \in Calls, TypeInv, StartTenant(p, c)
  PROVE  TypeInv'
<1> USE DEF TypeInv, Processes
<1>1. c \in StartCalls /\ c.tenant \in Tenants /\ TenantRow(c.tenant) \in Resources
  BY CallKinds, ResourceNames DEF StartTenant
<1>2. holder' \in [Resources -> Processes \cup {None}]
  BY <1>1 DEF StartTenant, TypeOK, Acquire
<1>3. /\ pc' \in [Processes -> PcOfClient \cup PcOfSweeper]
      /\ call' \in [Processes -> Calls \cup {None}]
  BY DEF StartTenant, TypeOK, Goto, PcOfClient
<1>4. TypeOK'
  BY <1>2, <1>3 DEF StartTenant, TypeOK, rows
<1>5. CallFits'
  BY <1>1, ProcessesAssumption
  DEF StartTenant, TypeOK, CallFits, Goto, PcOfClient, PcOfSweeper
<1> QED  BY <1>4, <1>5

LEMMA StartLockKeyType ==
  ASSUME NEW p \in Clients, TypeInv, StartLockKey(p)
  PROVE  TypeInv'
<1> USE DEF TypeInv, Processes
<1>1. /\ call[p] \in StartCalls /\ call[p].key # None
      /\ KeyLock(call[p].tenant, call[p].key) \in Resources
  BY CallKinds, ResourceNames DEF StartLockKey, CallFits
<1>2. TypeOK'
  BY <1>1 DEF StartLockKey, TypeOK, Acquire, Goto, rows, PcOfClient
<1>3. CallFits'
  BY <1>1, ProcessesAssumption
  DEF StartLockKey, TypeOK, CallFits, Goto, PcOfClient, PcOfSweeper
<1> QED  BY <1>2, <1>3

LEMMA StartLookupType ==
  ASSUME NEW p \in Clients, TypeInv, StartLookup(p)
  PROVE  TypeInv'
<1> USE DEF TypeInv, Processes
<1>1. /\ call[p] \in StartCalls /\ call[p].key \in Keys /\ call[p].tenant \in Tenants
      /\ Request(call[p]) \in Requests
  BY CallKinds DEF StartLookup, CallFits
<1>2. CASE /\ Goto(p, "insert")
           /\ UNCHANGED <<rows, expired, holder, call, outcome, seq, sweep, replies>>
  <2>1. TypeOK'
    BY <1>2 DEF TypeOK, Goto, rows, PcOfClient
  <2>2. CallFits'
    BY <1>1, <1>2, ProcessesAssumption
    DEF StartLookup, TypeOK, CallFits, Goto, PcOfClient, PcOfSweeper
  <2> QED  BY <2>1, <2>2
<1>3. CASE /\ SameRequest(call[p])
           /\ Answer(call[p], Recorded(call[p]).execution)
           /\ tenants' = tenants \cup {call[p].tenant}
           /\ EndTransaction(p)
           /\ UNCHANGED <<status, events, approval, dispatches, audit, idempotency, expired>>
  <2>1. Recorded(call[p]).execution \in Executions
    BY <1>1, <1>3 DEF SameRequest, Requests
  <2>2. replies' \in SUBSET [key : Keys, request : Requests, execution : Executions]
    BY <1>1, <1>3, <2>1 DEF Answer, TypeOK
  <2>3. TypeOK'
    BY <1>1, <1>3, <2>2, EndTransactionType DEF TypeOK
  <2> QED  BY <1>3, <2>3, EndTransactionFits
<1>4. CASE Rollback(p)
  BY <1>4, RollbackType
<1> QED  BY <1>2, <1>3, <1>4 DEF StartLookup

LEMMA StartInsertType ==
  ASSUME NEW p \in Clients, TypeInv, StartInsert(p)
  PROVE  TypeInv'
<1> USE DEF TypeInv, Processes
<1>1. /\ call[p] \in StartCalls /\ call[p] \in Calls /\ call[p] \notin DecideCalls
      /\ ExecutionRow(call[p].execution) \in Resources
  BY CallKinds, ResourceNames DEF StartInsert, CallFits
<1>2. CASE Rollback(p)
  BY <1>2, RollbackType
<1>3. CASE /\ Acquire(p, ExecutionRow(call[p].execution))
           /\ Goto(p, "commit")
           /\ UNCHANGED <<rows, expired, call, outcome, seq, sweep, replies>>
  <2>1. TypeOK'
    BY <1>1, <1>3 DEF TypeOK, Acquire, Goto, rows, PcOfClient
  <2>2. CallFits'
    BY <1>1, <1>3, ProcessesAssumption DEF TypeOK, CallFits, Goto, PcOfClient, PcOfSweeper
  <2> QED  BY <2>1, <2>2
<1> QED  BY <1>2, <1>3 DEF StartInsert

LEMMA StartCommitType ==
  ASSUME NEW p \in Clients, TypeInv, StartCommit(p)
  PROVE  TypeInv'
<1> USE DEF TypeInv, Processes
<1> DEFINE c == call[p]
<1>1. /\ c \in StartCalls /\ c.execution \in Executions /\ c.tenant \in Tenants
      /\ c.decision \in Decisions /\ c.key \in Keys \cup {None} /\ Request(c) \in Requests
  BY CallKinds DEF StartCommit, CallFits
<1>2. CASE Rollback(p)
  BY <1>2, RollbackType
<1>3. CASE ~Rollback(p)
  <2>1. StartStatus(c.decision) \in ExecutionStatus
    BY <1>1, StartStatusType
  <2>2. status' \in [Executions -> ExecutionStatus \cup {None}]
    BY <1>1, <1>3, <2>1 DEF StartCommit, TypeOK
  <2>3. events' \in [Executions -> Seq(ExecutionStatus)]
    <3>1. <<StartStatus(c.decision)>> \in Seq(ExecutionStatus)
      BY <2>1
    <3>2. events' = [events EXCEPT ![c.execution] = <<StartStatus(c.decision)>>]
      BY <1>3 DEF StartCommit
    <3> QED  BY <3>1, <3>2 DEF TypeOK
  <2>4. approval' \in [Executions -> ApprovalStatus \cup {None}]
    BY <1>1, <1>3 DEF StartCommit, TypeOK, ApprovalStatus
  <2>5. dispatches' \in SUBSET Executions /\ tenants' \in SUBSET Tenants
    BY <1>1, <1>3 DEF StartCommit, TypeOK
  <2>6. audit' \in [Executions -> Seq(AuditEntry)]
    <3>1. Append(audit[c.execution], "POLICY_CHECK") \in Seq(AuditEntry)
      BY <1>1 DEF TypeOK, AuditEntry
    <3>2. audit' = [audit EXCEPT ![c.execution] = Append(@, "POLICY_CHECK")]
      BY <1>3 DEF StartCommit
    <3> QED  BY <3>1, <3>2 DEF TypeOK
  <2>7. idempotency' \in [Tenants \X Keys -> Requests \cup {None}]
    BY <1>1, <1>3 DEF StartCommit, TypeOK
  <2>8. replies' \in SUBSET [key : Keys, request : Requests, execution : Executions]
    BY <1>1, <1>3 DEF StartCommit, TypeOK, Answer
  <2>9. EndTransaction(p) /\ UNCHANGED expired
    BY <1>3 DEF StartCommit
  <2>10. TypeOK'
    BY <2>2, <2>3, <2>4, <2>5, <2>6, <2>7, <2>8, <2>9, EndTransactionType DEF TypeOK
  <2> QED  BY <2>9, <2>10, EndTransactionFits
<1> QED  BY <1>2, <1>3

LEMMA LockExecutionType ==
  ASSUME NEW p \in Clients, NEW c \in Calls, NEW label, TypeInv, LockExecution(p, c, label),
         \/ label = "ticket" /\ c \in DecideCalls
         \/ label = "read" /\ c \in TransitionCalls \cup FailCalls
  PROVE  TypeInv'
<1> USE DEF TypeInv, Processes
<1>1. /\ ExecutionRow(c.execution) \in Resources
      /\ c \in TransitionCalls \cup FailCalls => c \notin DecideCalls
  BY CallKinds, ResourceNames
<1>2. TypeOK'
  BY <1>1 DEF LockExecution, TypeOK, Acquire, Goto, rows, PcOfClient
<1>3. CallFits'
  BY <1>1, ProcessesAssumption
  DEF LockExecution, TypeOK, CallFits, Goto, PcOfClient, PcOfSweeper
<1> QED  BY <1>2, <1>3

LEMMA BeginType ==
  ASSUME NEW p \in Clients, NEW c \in Calls, TypeInv,
         DecideBegin(p, c) \/ TransitionBegin(p, c) \/ FailBegin(p, c)
  PROVE  TypeInv'
  BY CallKinds, LockExecutionType DEF DecideBegin, TransitionBegin, FailBegin

LEMMA DecideLockTicketType ==
  ASSUME NEW p \in Clients, TypeInv, DecideLockTicket(p)
  PROVE  TypeInv'
<1> USE DEF TypeInv, Processes
<1>1. call[p] \in DecideCalls /\ ApprovalRow(call[p].ticket) \in Resources
  BY CallKinds, ResourceNames DEF DecideLockTicket, CallFits
<1>2. CASE Rollback(p)
  BY <1>2, RollbackType
<1>3. CASE /\ Acquire(p, ApprovalRow(call[p].ticket))
           /\ Goto(p, "verdict")
           /\ UNCHANGED <<rows, expired, call, outcome, seq, sweep, replies>>
  <2>1. TypeOK'
    BY <1>1, <1>3 DEF TypeOK, Acquire, Goto, rows, PcOfClient
  <2>2. CallFits'
    BY <1>1, <1>3, ProcessesAssumption
    DEF DecideLockTicket, TypeOK, CallFits, Goto, PcOfClient, PcOfSweeper
  <2> QED  BY <2>1, <2>2
<1> QED  BY <1>2, <1>3 DEF DecideLockTicket

LEMMA DecideVerdictType ==
  ASSUME NEW p \in Clients, TypeInv, DecideVerdict(p)
  PROVE  TypeInv'
<1> USE DEF TypeInv, Processes
<1>1. call[p] \in DecideCalls /\ Settled(call[p]) \in Verdicts \cup {"EXPIRED"}
  BY CallKinds DEF DecideVerdict, CallFits, Settled
<1>2. Settled(call[p]) # None
  BY <1>1, NoneAssumption DEF ApprovalStatus
<1>3. CASE Rollback(p)
  BY <1>3, RollbackType
<1>4. CASE /\ outcome' = [outcome EXCEPT ![p] = Settled(call[p])]
           /\ Goto(p, "read")
           /\ UNCHANGED <<rows, expired, holder, call, seq, sweep, replies>>
  <2>1. TypeOK'
    BY <1>1, <1>4 DEF TypeOK, Goto, rows, PcOfClient
  <2>2. CallFits'
    BY <1>1, <1>2, <1>4, ProcessesAssumption
    DEF DecideVerdict, TypeOK, CallFits, Goto, PcOfClient, PcOfSweeper
  <2> QED  BY <2>1, <2>2
<1> QED  BY <1>3, <1>4 DEF DecideVerdict

LEMMA ReadSequenceType ==
  ASSUME NEW p \in Clients, TypeInv, ReadSequence(p)
  PROVE  TypeInv'
<1> USE DEF TypeInv, Processes
<1>1. call[p] \in Calls /\ Len(events[call[p].execution]) \in Nat
  BY CallKinds DEF ReadSequence, CallFits, TypeOK
<1>2. TypeOK'
  BY <1>1 DEF ReadSequence, TypeOK, Goto, rows, PcOfClient
<1>3. CallFits'
  BY <1>1, ProcessesAssumption
  DEF ReadSequence, TypeOK, CallFits, Goto, PcOfClient, PcOfSweeper
<1> QED  BY <1>2, <1>3

LEMMA TargetType ==
  ASSUME NEW p \in Clients, call[p] \in Calls
  PROVE  Target(p) \in ExecutionStatus
  BY CallKinds DEF Target, ExecutionStatus

LEMMA WriteStatusType ==
  ASSUME NEW p \in Clients, TypeOK, call[p] \in Calls, WriteStatus(p)
  PROVE  /\ status' \in [Executions -> ExecutionStatus \cup {None}]
         /\ events' \in [Executions -> Seq(ExecutionStatus)]
<1> DEFINE e == call[p].execution
<1>1. e \in Executions /\ Target(p) \in ExecutionStatus
  BY CallKinds, TargetType
<1>2. Append(events[e], Target(p)) \in Seq(ExecutionStatus)
  BY <1>1 DEF TypeOK
<1> QED  BY <1>1, <1>2 DEF TypeOK, WriteStatus

LEMMA DecideCommitType ==
  ASSUME NEW p \in Clients, TypeInv, DecideCommit(p)
  PROVE  TypeInv'
<1> USE DEF TypeInv, Processes
<1> DEFINE e == call[p].execution
<1>1. /\ call[p] \in DecideCalls /\ call[p] \in Calls
      /\ e \in Executions /\ call[p].ticket \in Executions
      /\ outcome[p] \in Verdicts \cup {"EXPIRED"}
  <2>1. call[p] \in DecideCalls /\ call[p] \in Calls
    BY CallKinds DEF DecideCommit, CallFits
  <2>2. outcome[p] # None
    BY <2>1 DEF DecideCommit, CallFits
  <2>3. outcome[p] \in Verdicts \cup {"EXPIRED", None}
    BY DEF TypeOK
  <2> QED  BY <2>1, <2>2, <2>3, CallKinds
<1>2. CASE Rollback(p)
  BY <1>2, RollbackType
<1>3. CASE SequenceFree(p)
  <2>1. /\ WriteStatus(p)
        /\ approval' = [approval EXCEPT ![call[p].ticket] = outcome[p]]
        /\ dispatches' = IF Approves(p) THEN dispatches \cup {e} ELSE dispatches
        /\ audit' = [audit EXCEPT ![e] = Append(@, outcome[p])]
        /\ EndTransaction(p)
        /\ UNCHANGED <<idempotency, tenants, expired, replies>>
    BY <1>3 DEF DecideCommit
  <2>2. approval' \in [Executions -> ApprovalStatus \cup {None}]
    BY <1>1, <2>1 DEF TypeOK, ApprovalStatus
  <2>3. dispatches' \in SUBSET Executions
    BY <1>1, <2>1 DEF TypeOK
  <2>4. audit' \in [Executions -> Seq(AuditEntry)]
    <3>1. Append(audit[e], outcome[p]) \in Seq(AuditEntry)
      BY <1>1 DEF TypeOK, AuditEntry
    <3> QED  BY <2>1, <3>1 DEF TypeOK
  <2>5. TypeOK'
    BY <1>1, <2>1, <2>2, <2>3, <2>4, WriteStatusType, EndTransactionType DEF TypeOK
  <2> QED  BY <2>1, <2>5, EndTransactionFits
<1> QED  BY <1>2, <1>3 DEF DecideCommit

LEMMA StatusCommitType ==
  ASSUME NEW p \in Clients, TypeInv, StatusCommit(p)
  PROVE  TypeInv'
<1> USE DEF TypeInv, Processes
<1>1. call[p] \in Calls
  BY DEF StatusCommit, CallFits
<1>2. CASE Rollback(p)
  BY <1>2, RollbackType
<1>3. CASE SequenceFree(p)
  <2>1. /\ WriteStatus(p)
        /\ EndTransaction(p)
        /\ UNCHANGED <<approval, dispatches, audit, idempotency, tenants, expired, replies>>
    BY <1>3 DEF StatusCommit
  <2>2. TypeOK'
    BY <1>1, <2>1, WriteStatusType, EndTransactionType DEF TypeOK
  <2> QED  BY <2>1, <2>2, EndTransactionFits
<1> QED  BY <1>2, <1>3 DEF StatusCommit

LEMMA SweepStepType ==
  ASSUME NEW p \in Sweepers, TypeInv,
         SweepBegin(p) \/ SweepClaim(p) \/ SweepSkip(p) \/ SweepMark(p)
  PROVE  TypeInv'
<1> USE DEF TypeInv, Processes
<1>1. \A e \in Executions : SweepLocks(e)[1] \in Resources /\ SweepLocks(e)[2] \in Resources
  BY ResourceNames DEF SweepLocks
<1> DEFINE SweepState == [todo : SUBSET Executions, claimed : SUBSET Executions,
                          marked : SUBSET Executions]
<1>0. sweep \in [Processes -> SweepState]
  BY DEF TypeOK
<1>2. /\ sweep[p].todo \subseteq Executions /\ sweep[p].claimed \subseteq Executions
      /\ sweep[p].marked \subseteq Executions
  BY <1>0
<1>3. CASE SweepBegin(p)
  <2>1. Candidates \in SUBSET Executions
    BY DEF Candidates, TypeOK, Clocks
  <2>2. sweep' \in [Processes -> SweepState]
    <3>1. sweep' = [sweep EXCEPT ![p].todo = Candidates]
      BY <1>3 DEF SweepBegin
    <3> QED  BY <1>0, <2>1, <3>1
  <2>3. TypeOK'
    BY <1>3, <2>2 DEF SweepBegin, TypeOK, Goto, rows, PcOfSweeper
  <2>4. CallFits'
    BY <1>3, ProcessesAssumption
    DEF SweepBegin, TypeOK, CallFits, Goto, PcOfClient, PcOfSweeper
  <2> QED  BY <2>3, <2>4
<1>4. CASE SweepClaim(p)
  <2>1. PICK e \in sweep[p].todo :
          /\ Acquire(p, SweepLocks(e)[1])
          /\ sweep' = [sweep EXCEPT ![p].todo = @ \ {e}, ![p].claimed = @ \cup {e}]
    BY <1>4 DEF SweepClaim
  <2>2. sweep' \in [Processes -> SweepState]
    BY <1>0, <1>2, <2>1
  <2>3. holder' \in [Resources -> Processes \cup {None}]
    BY <1>1, <1>2, <2>1 DEF TypeOK, Acquire
  <2>4. TypeOK'
    BY <1>4, <2>2, <2>3 DEF SweepClaim, TypeOK, rows
  <2> QED  BY <1>4, <2>4 DEF SweepClaim, CallFits
<1>5. CASE SweepSkip(p)
  <2>1. sweep' \in [Processes -> SweepState]
    <3>1. PICK e \in sweep[p].todo : sweep' = [sweep EXCEPT ![p].todo = @ \ {e}]
      BY <1>5 DEF SweepSkip
    <3> QED  BY <1>0, <1>2, <3>1
  <2>2. TypeOK'
    BY <1>5, <2>1 DEF SweepSkip, TypeOK, rows
  <2> QED  BY <1>5, <2>2 DEF SweepSkip, CallFits
<1>6. CASE SweepMark(p)
  <2>1. PICK e \in sweep[p].claimed :
          /\ Acquire(p, SweepLocks(e)[2])
          /\ sweep' = [sweep EXCEPT ![p].marked = @ \cup {e}]
    BY <1>6 DEF SweepMark
  <2>2. sweep' \in [Processes -> SweepState]
    BY <1>0, <1>2, <2>1
  <2>3. holder' \in [Resources -> Processes \cup {None}]
    BY <1>1, <1>2, <2>1 DEF TypeOK, Acquire
  <2>4. TypeOK'
    BY <1>6, <2>2, <2>3 DEF SweepMark, TypeOK, rows
  <2> QED  BY <1>6, <2>4 DEF SweepMark, CallFits
<1> QED  BY <1>3, <1>4, <1>5, <1>6

LEMMA SweepCommitType ==
  ASSUME NEW p \in Sweepers, TypeInv, SweepCommit(p)
  PROVE  TypeInv'
<1> USE DEF TypeInv, Processes
<1>1. approval' \in [Executions -> ApprovalStatus \cup {None}]
  BY DEF SweepCommit, TypeOK, ApprovalStatus
<1>2. status' \in [Executions -> ExecutionStatus \cup {None}]
  BY DEF SweepCommit, TypeOK, ExecutionStatus
<1>3. events' \in [Executions -> Seq(ExecutionStatus)]
  <2>1. \A e \in Executions : Append(events[e], "REJECTED") \in Seq(ExecutionStatus)
    BY DEF TypeOK, ExecutionStatus
  <2> QED  BY <2>1 DEF SweepCommit, TypeOK
<1>4. audit' \in [Executions -> Seq(AuditEntry)]
  <2>1. \A e \in Executions : Append(audit[e], "EXPIRED") \in Seq(AuditEntry)
    BY DEF TypeOK, AuditEntry
  <2> QED  BY <2>1 DEF SweepCommit, TypeOK
<1>5. EndTransaction(p) /\ UNCHANGED <<dispatches, idempotency, tenants, expired, replies>>
  BY DEF SweepCommit
<1>6. TypeOK'
  BY <1>1, <1>2, <1>3, <1>4, <1>5, EndTransactionType DEF TypeOK
<1> QED  BY <1>5, <1>6, EndTransactionFits

LEMMA TimePassesType ==
  ASSUME NEW clock \in Clocks, NEW e \in Executions, TypeInv, TimePasses(clock, e)
  PROVE  TypeInv'
<1>1. TypeOK'
  BY DEF TypeInv, TypeOK, TimePasses, rows, local
<1>2. CallFits'
  BY DEF TypeInv, CallFits, TimePasses, local
<1> QED  BY <1>1, <1>2 DEF TypeInv

LEMMA StutterType ==
  ASSUME TypeInv, UNCHANGED vars
  PROVE  TypeInv'
  BY DEF TypeInv, TypeOK, CallFits, vars, rows, local

LEMMA NextType ==
  ASSUME TypeInv, [Next]_vars
  PROVE  TypeInv'
<1>1. ASSUME NEW p \in Clients, Call(p)
      PROVE  TypeInv'
  BY <1>1, StartTenantType, BeginType DEF Call
<1>2. ASSUME NEW p \in Clients, ClientStep(p)
      PROVE  TypeInv'
  BY <1>2, StartLockKeyType, StartLookupType, StartInsertType, StartCommitType,
     DecideLockTicketType, DecideVerdictType, DecideCommitType, ReadSequenceType,
     StatusCommitType DEF ClientStep
<1>3. ASSUME NEW p \in Sweepers, SweeperStep(p)
      PROVE  TypeInv'
  BY <1>3, SweepStepType, SweepCommitType DEF SweeperStep
<1>4. ASSUME NEW p \in Processes, Abort(p)
      PROVE  TypeInv'
  BY <1>4, RollbackType DEF Abort
<1> QED
  BY <1>1, <1>2, <1>3, <1>4, TimePassesType, StutterType DEF Next

(* Whatever transactions interleave, abort or wait, every row keeps a value *)
(* its column admits, and every connection serves a call that fits the      *)
(* statement it has reached.                                                *)
THEOREM TypeCorrect == Spec => [](TypeOK /\ CallFits)
<1>1. Spec => []TypeInv
  BY InitType, NextType, PTL DEF Spec
<1>2. TypeInv <=> TypeOK /\ CallFits
  BY DEF TypeInv
<1> QED  BY <1>1, <1>2, PTL

-----------------------------------------------------------------------------
(* The event log.  A step of p leaves alone what the locks of the other    *)
(* connections protect (Frame), so it is enough to look at p itself and at *)
(* the log it writes.                                                      *)

Log(e) == /\ status[e] = IF events[e] = <<>> THEN None ELSE events[e][Len(events[e])]
          /\ Legal(events[e])

Own(p) == /\ p \in Clients => ClientLocks(p) /\ GuardTrue(p) /\ ReadsValid(p)
          /\ p \in Sweepers => SweeperLocks(p)

Frame(p) ==
  /\ \A q \in Processes \ {p} :
       /\ pc'[q] = pc[q] /\ call'[q] = call[q] /\ outcome'[q] = outcome[q]
       /\ seq'[q] = seq[q] /\ sweep'[q] = sweep[q]
  /\ \A r \in Resources : holder[r] \notin {p, None} => holder'[r] = holder[r]
  /\ \A e \in Executions :
       holder[ExecutionRow(e)] # p => status'[e] = status[e] /\ events'[e] = events[e]

LEMMA IInvParts ==
  IInv <=> /\ TypeInv
           /\ \A p \in Processes : Own(p)
           /\ \A e \in Executions : Log(e)
  BY ProcessesAssumption
  DEF IInv, TypeInv, Own, Log, LocksHeld, GuardsStayTrue, ReadsStayValid, StatusIsLastEvent,
      LegalHistory, Processes

LEMMA OthersKeep ==
  ASSUME TypeInv, NEW p \in Processes, Frame(p), NEW q \in Processes \ {p}, Own(q)
  PROVE  Own(q)'
<1>1. CASE q \in Clients
  <2>1. /\ pc'[q] = pc[q] /\ call'[q] = call[q] /\ outcome'[q] = outcome[q] /\ seq'[q] = seq[q]
        /\ q \notin Sweepers /\ q \notin {p, None}
    BY <1>1, ProcessesAssumption DEF Frame, Processes
  <2>2. Target(q)' = Target(q)
    BY <2>1 DEF Target, Approves
  <2>3. CASE pc[q] = "idle"
    BY <1>1, <2>1, <2>3 DEF Own, ClientLocks, GuardTrue, ReadsValid
  <2>4. CASE pc[q] # "idle"
    <3>1. call[q] \in Calls /\ call[q].execution \in Executions
      BY <1>1, <2>4, CallKinds DEF TypeInv, CallFits
    <3>2. ClientLocks(q)'
      <4>1. \A r \in Resources : holder[r] = q => holder'[r] = q
        BY <2>1 DEF Frame
      <4>2. /\ ExecutionRow(call[q].execution) \in Resources
            /\ call[q] \in DecideCalls => ApprovalRow(call[q].ticket) \in Resources
            /\ call[q] \in StartCalls /\ call[q].key # None =>
                 KeyLock(call[q].tenant, call[q].key) \in Resources
            /\ pc[q] = "verdict" => call[q] \in DecideCalls
        BY <1>1, <3>1, CallKinds, ResourceNames DEF TypeInv, CallFits
      <4>3. ClientLocks(q)
        BY <1>1 DEF Own
      <4> QED  BY <2>1, <4>1, <4>2, <4>3 DEF ClientLocks
    <3>3. GuardTrue(q)' /\ ReadsValid(q)'
      <4>1. CASE holder[ExecutionRow(call[q].execution)] = q
        <5>1. /\ status'[call[q].execution] = status[call[q].execution]
              /\ events'[call[q].execution] = events[call[q].execution]
          BY <2>1, <3>1, <4>1 DEF Frame
        <5> QED  BY <1>1, <2>1, <2>2, <5>1 DEF Own, GuardTrue, ReadsValid
      <4>2. CASE holder[ExecutionRow(call[q].execution)] # q
        BY <1>1, <2>1, <4>2 DEF Own, ClientLocks, GuardTrue, ReadsValid
      <4> QED  BY <4>1, <4>2
    <3> QED  BY <2>1, <3>2, <3>3 DEF Own
  <2> QED  BY <2>3, <2>4
<1>2. CASE q \in Sweepers
  <2>1. /\ pc'[q] = pc[q] /\ sweep'[q] = sweep[q] /\ q \notin Clients /\ q \notin {p, None}
    BY <1>2, ProcessesAssumption DEF Frame, Processes
  <2>2. sweep[q].claimed \subseteq Executions /\ sweep[q].marked \subseteq Executions
    BY DEF TypeInv, TypeOK
  <2>3. SweeperLocks(q)'
    BY <1>2, <2>1, <2>2, ResourceNames DEF Own, SweeperLocks, Frame
  <2> QED  BY <2>1, <2>3 DEF Own
<1> QED  BY <1>1, <1>2 DEF Processes

LEMMA EndOwn ==
  ASSUME NEW p \in Processes, TypeInv, EndTransaction(p)
  PROVE  /\ Own(p)'
         /\ \A q \in Processes \ {p} :
              /\ pc'[q] = pc[q] /\ call'[q] = call[q] /\ outcome'[q] = outcome[q]
              /\ seq'[q] = seq[q] /\ sweep'[q] = sweep[q]
         /\ \A r \in Resources : holder[r] \notin {p, None} => holder'[r] = holder[r]
<1>1. /\ pc'[p] = "idle" /\ sweep'[p] = NoSweep
      /\ \A q \in Processes \ {p} :
              /\ pc'[q] = pc[q] /\ call'[q] = call[q] /\ outcome'[q] = outcome[q]
              /\ seq'[q] = seq[q] /\ sweep'[q] = sweep[q]
      /\ \A r \in Resources : holder[r] \notin {p, None} => holder'[r] = holder[r]
  BY DEF EndTransaction, TypeInv, TypeOK
<1>2. Own(p)'
  BY <1>1 DEF Own, ClientLocks, GuardTrue, ReadsValid, SweeperLocks, NoSweep
<1> QED  BY <1>1, <1>2

(* A step that writes neither a status nor an event leaves the logs legal. *)
LEMMA LogsRest ==
  ASSUME \A e \in Executions : Log(e), UNCHANGED <<status, events>>
  PROVE  \A e \in Executions : Log(e)'
  BY DEF Log

LEMMA RollbackStep ==
  ASSUME NEW p \in Processes, TypeInv, Rollback(p), \A e \in Executions : Log(e)
  PROVE  Frame(p) /\ Own(p)' /\ \A e \in Executions : Log(e)'
<1>1. EndTransaction(p) /\ UNCHANGED <<status, events>>
  BY DEF Rollback, rows
<1> QED  BY <1>1, EndOwn, LogsRest DEF Frame

LEMMA StartStep ==
  ASSUME NEW p \in Clients, TypeInv, Own(p), \A e \in Executions : Log(e),
         \/ \E c \in Calls : StartTenant(p, c)
         \/ StartLockKey(p) \/ StartLookup(p) \/ StartInsert(p)
  PROVE  Frame(p) /\ Own(p)' /\ \A e \in Executions : Log(e)'
<1> USE DEF Processes
<1>0. p \in Processes /\ p \notin Sweepers /\ ClientLocks(p) /\ p # None
  BY ProcessesAssumption DEF Own
<1>1. ASSUME NEW c \in Calls, StartTenant(p, c)
      PROVE  Frame(p) /\ Own(p)' /\ \A e \in Executions : Log(e)'
  <2>1. /\ c \in StartCalls /\ c \notin DecideCalls
        /\ call'[p] = c /\ pc'[p] = IF c.key = None THEN "insert" ELSE "key"
        /\ UNCHANGED <<status, events, outcome, seq, sweep>>
        /\ pc' = [pc EXCEPT ![p] = pc'[p]] /\ call' = [call EXCEPT ![p] = c]
        /\ \A r \in Resources : holder[r] \notin {p, None} => holder'[r] = holder[r]
    BY <1>1, CallKinds, ResourceNames
    DEF StartTenant, TypeInv, TypeOK, Goto, Acquire, Free, rows
  <2>2. Frame(p)
    BY <2>1 DEF Frame, TypeInv, TypeOK
  <2>3. Own(p)'
    BY <1>0, <2>1 DEF Own, ClientLocks, GuardTrue, ReadsValid
  <2> QED  BY <2>1, <2>2, <2>3, LogsRest
<1>2. CASE StartLockKey(p)
  <2> DEFINE k == KeyLock(call[p].tenant, call[p].key)
  <2>1. k \in Resources /\ call[p] \in StartCalls
    BY <1>2, CallKinds, ResourceNames DEF StartLockKey, TypeInv, CallFits
  <2>2. /\ UNCHANGED <<status, events, outcome, seq, sweep, call>>
        /\ holder[k] = None
        /\ holder' = [holder EXCEPT ![k] = p] /\ pc' = [pc EXCEPT ![p] = "lookup"]
    BY <1>2 DEF StartLockKey, Acquire, Goto, rows, Free
  <2>3. Frame(p)
    BY <2>1, <2>2 DEF Frame, TypeInv, TypeOK
  <2>4. holder'[k] = p /\ pc'[p] = "lookup"
    BY <1>0, <2>1, <2>2 DEF TypeInv, TypeOK
  <2>5. Own(p)'
    BY <1>0, <2>2, <2>4 DEF Own, ClientLocks, GuardTrue, ReadsValid
  <2> QED  BY <2>2, <2>3, <2>5, LogsRest
<1>3. CASE StartLookup(p)
  <2>1. CASE /\ Goto(p, "insert")
             /\ UNCHANGED <<rows, expired, holder, call, outcome, seq, sweep, replies>>
    <3>1. /\ pc' = [pc EXCEPT ![p] = "insert"] /\ pc[p] = "lookup"
          /\ UNCHANGED <<status, events, holder, call, outcome, seq, sweep>>
      BY <1>3, <2>1 DEF StartLookup, Goto, rows
    <3>2. pc'[p] = "insert"
      BY <1>0, <3>1 DEF TypeInv, TypeOK
    <3>3. Frame(p)
      BY <3>1 DEF Frame, TypeInv, TypeOK
    <3>4. Own(p)'
      BY <1>0, <3>1, <3>2 DEF Own, ClientLocks, GuardTrue, ReadsValid
    <3> QED  BY <3>1, <3>3, <3>4, LogsRest
  <2>2. CASE EndTransaction(p) /\ UNCHANGED <<status, events>>
    BY <1>0, <2>2, EndOwn, LogsRest DEF Frame
  <2>3. CASE Rollback(p)
    BY <1>0, <2>3, RollbackStep
  <2> QED  BY <1>3, <2>1, <2>2, <2>3 DEF StartLookup
<1>4. CASE StartInsert(p)
  <2> DEFINE x == ExecutionRow(call[p].execution)
  <2>1. CASE Rollback(p)
    BY <1>0, <2>1, RollbackStep
  <2>2. CASE /\ status[call[p].execution] = None
             /\ Acquire(p, x) /\ Goto(p, "commit")
             /\ UNCHANGED <<rows, expired, call, outcome, seq, sweep, replies>>
    <3>1. /\ x \in Resources /\ call[p] \in StartCalls /\ call[p] \notin DecideCalls
          /\ call[p].op = "start" /\ call[p].execution \in Executions
          /\ call[p].key # None => KeyLock(call[p].tenant, call[p].key) \in Resources
      BY <1>4, CallKinds, ResourceNames DEF StartInsert, TypeInv, CallFits
    <3>2. /\ UNCHANGED <<status, events, call, outcome, seq, sweep>>
          /\ pc[p] = "insert" /\ holder[x] = None
          /\ holder' = [holder EXCEPT ![x] = p] /\ pc' = [pc EXCEPT ![p] = "commit"]
      BY <1>4, <2>2 DEF StartInsert, Acquire, Goto, rows, Free
    <3>3. Frame(p)
      BY <3>1, <3>2 DEF Frame, TypeInv, TypeOK
    <3>4. /\ holder'[x] = p /\ pc'[p] = "commit"
          /\ \A r \in Resources : holder[r] = p => holder'[r] = p
      BY <1>0, <3>1, <3>2 DEF TypeInv, TypeOK
    <3>5. Own(p)'
      BY <1>0, <2>2, <3>1, <3>2, <3>4 DEF Own, ClientLocks, GuardTrue, ReadsValid
    <3> QED  BY <3>2, <3>3, <3>5, LogsRest
  <2> QED  BY <1>4, <2>1, <2>2 DEF StartInsert
<1> QED  BY <1>1, <1>2, <1>3, <1>4

LEMMA BeginStep ==
  ASSUME NEW p \in Clients, NEW c \in Calls, TypeInv, Own(p), \A e \in Executions : Log(e),
         DecideBegin(p, c) \/ TransitionBegin(p, c) \/ FailBegin(p, c)
  PROVE  Frame(p) /\ Own(p)' /\ \A e \in Executions : Log(e)'
<1> USE DEF Processes
<1> DEFINE x == ExecutionRow(c.execution)
<1>0. p \in Processes /\ p \notin Sweepers /\ x \in Resources /\ c.execution \in Executions
  BY ProcessesAssumption, CallKinds, ResourceNames
<1>1. PICK label \in {"ticket", "read"} : LockExecution(p, c, label)
  BY DEF DecideBegin, TransitionBegin, FailBegin
<1>2. /\ UNCHANGED <<status, events, outcome, seq, sweep>>
      /\ status[c.execution] # None /\ holder[x] = None
      /\ holder' = [holder EXCEPT ![x] = p] /\ pc' = [pc EXCEPT ![p] = label]
      /\ call' = [call EXCEPT ![p] = c]
  BY <1>1 DEF LockExecution, Acquire, Goto, Free, rows
<1>3. Frame(p)
  BY <1>0, <1>2 DEF Frame, TypeInv, TypeOK
<1>4. holder'[x] = p /\ pc'[p] = label /\ call'[p] = c
  BY <1>0, <1>2 DEF TypeInv, TypeOK
<1>5. CASE DecideBegin(p, c)
  <2>1. c \in DecideCalls /\ status[c.execution] = "APPROVAL" /\ pc'[p] = "ticket"
    BY <1>0, <1>5, CallKinds
    DEF DecideBegin, LockExecution, Goto, TypeInv, TypeOK
  <2>2. Own(p)'
    BY <1>0, <1>2, <1>4, <2>1 DEF Own, ClientLocks, GuardTrue, ReadsValid
  <2> QED  BY <1>2, <1>3, <2>2, LogsRest
<1>6. CASE TransitionBegin(p, c) \/ FailBegin(p, c)
  <2>1. /\ c \in TransitionCalls \cup FailCalls /\ c \notin DecideCalls /\ c \notin StartCalls
        /\ pc'[p] = "read"
    BY <1>0, <1>6, CallKinds
    DEF TransitionBegin, FailBegin, LockExecution, Goto, TypeInv, TypeOK
  <2>2. status[c.execution] \in ExecutionStatus
    BY <1>0, <1>2 DEF TypeInv, TypeOK
  <2>3. CanTransition(status[c.execution], Target(p)')
    <3>1. CASE TransitionBegin(p, c)
      BY <1>4, <3>1 DEF TransitionBegin, Target
    <3>2. CASE FailBegin(p, c)
      BY <1>4, <2>2, <3>2, TableFacts DEF FailBegin, Target
    <3> QED  BY <1>6, <3>1, <3>2
  <2>4. Own(p)'
    BY <1>0, <1>2, <1>4, <2>1, <2>3 DEF Own, ClientLocks, GuardTrue, ReadsValid
  <2> QED  BY <1>2, <1>3, <2>4, LogsRest
<1> QED  BY <1>5, <1>6

LEMMA DecideStep ==
  ASSUME NEW p \in Clients, TypeInv, Own(p), \A e \in Executions : Log(e),
         DecideLockTicket(p) \/ DecideVerdict(p)
  PROVE  Frame(p) /\ Own(p)' /\ \A e \in Executions : Log(e)'
<1> USE DEF Processes
<1> DEFINE x == ApprovalRow(call[p].ticket)
<1>0. /\ p \in Processes /\ p \notin Sweepers
      /\ ClientLocks(p) /\ GuardTrue(p)
      /\ call[p] \in DecideCalls /\ call[p] \notin StartCalls /\ call[p].op = "decide"
      /\ call[p].execution \in Executions
      /\ x \in Resources /\ ExecutionRow(call[p].execution) # x
      /\ ExecutionRow(call[p].execution) \in Resources
  BY ProcessesAssumption, CallKinds, ResourceNames, ResourcesDiffer
  DEF Own, TypeInv, CallFits, DecideLockTicket, DecideVerdict
<1>1. CASE Rollback(p)
  BY <1>0, <1>1, RollbackStep
<1>2. CASE /\ pc[p] = "ticket" /\ Free(x)
           /\ Acquire(p, x) /\ Goto(p, "verdict")
           /\ UNCHANGED <<rows, expired, call, outcome, seq, sweep, replies>>
  <2>1. /\ UNCHANGED <<status, events, call, outcome, seq, sweep>> /\ holder[x] = None
        /\ holder' = [holder EXCEPT ![x] = p] /\ pc' = [pc EXCEPT ![p] = "verdict"]
    BY <1>2 DEF Acquire, Goto, Free, rows
  <2>2. Frame(p)
    BY <1>0, <2>1 DEF Frame, TypeInv, TypeOK
  <2>3. /\ holder'[x] = p /\ pc'[p] = "verdict"
        /\ \A r \in Resources : holder[r] = p => holder'[r] = p
    BY <1>0, <2>1 DEF TypeInv, TypeOK
  <2>4. Own(p)'
    BY <1>0, <1>2, <2>1, <2>3 DEF Own, ClientLocks, GuardTrue, ReadsValid
  <2> QED  BY <2>1, <2>2, <2>4, LogsRest
<1>3. CASE /\ pc[p] = "verdict" /\ ~TicketRefused(call[p])
           /\ outcome' = [outcome EXCEPT ![p] = Settled(call[p])]
           /\ Goto(p, "read")
           /\ UNCHANGED <<rows, expired, holder, call, seq, sweep, replies>>
  <2>1. /\ UNCHANGED <<status, events, holder, call, seq, sweep>>
        /\ pc' = [pc EXCEPT ![p] = "read"]
        /\ call[p].ticket = call[p].execution
    BY <1>3 DEF Goto, rows, TicketRefused
  <2>2. Frame(p)
    BY <1>3, <2>1 DEF Frame, TypeInv, TypeOK
  <2>3. pc'[p] = "read" /\ status[call[p].execution] = "APPROVAL"
    BY <1>0, <1>3, <2>1 DEF TypeInv, TypeOK, GuardTrue
  <2>4. Target(p)' \in {"EXECUTION", "REJECTED"}
    BY <1>0, <2>1 DEF Target
  <2>5. ReadsValid(p)'
    BY <2>1, <2>3, <2>4, TableFacts, NoneAssumption DEF ReadsValid, ExecutionStatus
  <2>6. Own(p)'
    BY <1>0, <1>3, <2>1, <2>3, <2>5 DEF Own, ClientLocks, GuardTrue
  <2> QED  BY <2>1, <2>2, <2>6, LogsRest
<1> QED  BY <1>1, <1>2, <1>3 DEF DecideLockTicket, DecideVerdict

LEMMA ReadSequenceStep ==
  ASSUME NEW p \in Clients, TypeInv, Own(p), \A e \in Executions : Log(e), ReadSequence(p)
  PROVE  Frame(p) /\ Own(p)' /\ \A e \in Executions : Log(e)'
<1> USE DEF Processes
<1>0. /\ p \in Processes /\ p \notin Sweepers /\ ClientLocks(p) /\ ReadsValid(p)
      /\ pc[p] = "read" /\ call[p] \in Calls /\ call[p] \notin StartCalls
  BY ProcessesAssumption, CallKinds DEF Own, ReadSequence, TypeInv, CallFits
<1>1. /\ UNCHANGED <<status, events, holder, call, outcome, sweep>>
      /\ seq' = [seq EXCEPT ![p] = Len(events[call[p].execution]) + 1]
      /\ pc' = [pc EXCEPT ![p] = "commit"]
  BY DEF ReadSequence, Goto, rows
<1>2. Frame(p)
  BY <1>1 DEF Frame, TypeInv, TypeOK
<1>3. pc'[p] = "commit" /\ seq'[p] = Len(events[call[p].execution]) + 1
  BY <1>0, <1>1 DEF TypeInv, TypeOK
<1>4. Target(p)' = Target(p)
  BY <1>1 DEF Target, Approves
<1>5. ReadsValid(p)'
  BY <1>0, <1>1, <1>3, <1>4 DEF ReadsValid
<1>6. Own(p)'
  BY <1>0, <1>1, <1>3, <1>5 DEF Own, ClientLocks, GuardTrue
<1> QED  BY <1>1, <1>2, <1>6, LogsRest

(* The four writers: each holds the row of what it writes. *)

LEMMA StartCommitStep ==
  ASSUME NEW p \in Clients, TypeInv, Own(p), \A e \in Executions : Log(e), StartCommit(p)
  PROVE  Frame(p) /\ Own(p)' /\ \A e \in Executions : Log(e)'
<1> USE DEF Processes
<1> DEFINE x == call[p].execution
           s == StartStatus(call[p].decision)
<1>0. /\ p \in Processes /\ ClientLocks(p) /\ call[p] \in StartCalls /\ x \in Executions
      /\ pc[p] = "commit" /\ s \in StartStatuses
  BY CallKinds, StartStatusType DEF Own, StartCommit, TypeInv, CallFits
<1>1. CASE Rollback(p)
  BY <1>0, <1>1, RollbackStep
<1>2. CASE ~Rollback(p)
  <2>1. /\ status' = [status EXCEPT ![x] = s] /\ events' = [events EXCEPT ![x] = <<s>>]
        /\ EndTransaction(p)
    BY <1>2 DEF StartCommit
  <2>2. holder[ExecutionRow(x)] = p
    BY <1>0 DEF ClientLocks
  <2>3. Frame(p)
    BY <1>0, <2>1, <2>2, EndOwn DEF Frame, TypeInv, TypeOK
  <2>4. ASSUME NEW e \in Executions
        PROVE  Log(e)'
    <3>1. CASE e = x
      <4>1. status'[e] = s /\ events'[e] = <<s>>
        BY <1>0, <2>1, <3>1 DEF TypeInv, TypeOK
      <4>2. Legal(<<s>>)
        BY <1>0, LegalStart
      <4> QED  BY <4>1, <4>2 DEF Log
    <3>2. CASE e # x
      BY <2>1, <3>2 DEF Log, TypeInv, TypeOK
    <3> QED  BY <3>1, <3>2
  <2> QED  BY <1>0, <2>1, <2>3, <2>4, EndOwn
<1> QED  BY <1>1, <1>2

LEMMA WriteStatusStep ==
  ASSUME NEW p \in Clients, TypeInv, Own(p), \A e \in Executions : Log(e),
         pc[p] = "commit", call[p].op # "start", WriteStatus(p), EndTransaction(p)
  PROVE  Frame(p) /\ Own(p)' /\ \A e \in Executions : Log(e)'
<1> USE DEF Processes
<1> DEFINE x == call[p].execution
           s == Target(p)
<1>0. /\ p \in Processes /\ call[p] \in Calls /\ x \in Executions
      /\ holder[ExecutionRow(x)] = p
      /\ status[x] # None /\ CanTransition(status[x], s) /\ s \in ExecutionStatus
  BY CallKinds, TargetType DEF Own, ClientLocks, ReadsValid, TypeInv, CallFits
<1>1. /\ status' = [status EXCEPT ![x] = s]
      /\ events' = [events EXCEPT ![x] = Append(events[x], s)]
  BY DEF WriteStatus
<1>2. Frame(p)
  BY <1>0, <1>1, EndOwn DEF Frame, TypeInv, TypeOK
<1>3. ASSUME NEW e \in Executions
      PROVE  Log(e)'
  <2>1. CASE e = x
    <3>1. status'[x] = s /\ events'[x] = Append(events[x], s)
      BY <1>0, <1>1 DEF TypeInv, TypeOK
    <3>2. /\ events[x] \in Seq(ExecutionStatus) /\ events[x] # <<>> /\ Legal(events[x])
          /\ CanTransition(events[x][Len(events[x])], s)
      BY <1>0 DEF Log, TypeInv, TypeOK
    <3> QED  BY <1>0, <2>1, <3>1, <3>2, LegalAppend DEF Log
  <2>2. CASE e # x
    BY <1>1, <2>2 DEF Log, TypeInv, TypeOK
  <2> QED  BY <2>1, <2>2
<1> QED  BY <1>0, <1>2, <1>3, EndOwn

LEMMA CommitStep ==
  ASSUME NEW p \in Clients, TypeInv, Own(p), \A e \in Executions : Log(e),
         DecideCommit(p) \/ StatusCommit(p)
  PROVE  Frame(p) /\ Own(p)' /\ \A e \in Executions : Log(e)'
<1>1. p \in Processes /\ pc[p] = "commit" /\ call[p].op # "start"
  BY DEF DecideCommit, StatusCommit, Processes
<1>2. Rollback(p) \/ (WriteStatus(p) /\ EndTransaction(p))
  BY DEF DecideCommit, StatusCommit
<1> QED  BY <1>1, <1>2, RollbackStep, WriteStatusStep

LEMMA SweepStep ==
  ASSUME NEW p \in Sweepers, TypeInv, Own(p), \A e \in Executions : Log(e),
         SweepBegin(p) \/ SweepClaim(p) \/ SweepSkip(p) \/ SweepMark(p)
  PROVE  Frame(p) /\ Own(p)' /\ \A e \in Executions : Log(e)'
<1> USE DEF Processes, SweepLocks
<1>0. /\ p \in Processes /\ p \notin Clients /\ SweeperLocks(p)
      /\ sweep[p].todo \subseteq Executions /\ sweep[p].claimed \subseteq Executions
      /\ sweep[p].marked \subseteq Executions
  BY ProcessesAssumption DEF Own, TypeInv, TypeOK
<1>1. UNCHANGED <<status, events, call, outcome, seq>>
  BY DEF SweepBegin, SweepClaim, SweepSkip, SweepMark, rows
<1>2. CASE SweepBegin(p)
  <2>1. /\ pc[p] = "idle" /\ UNCHANGED holder
        /\ pc' = [pc EXCEPT ![p] = "sweep"] /\ sweep' = [sweep EXCEPT ![p].todo = Candidates]
    BY <1>2 DEF SweepBegin, Goto
  <2>2. pc'[p] = "sweep" /\ sweep'[p].claimed = {} /\ sweep'[p].marked = {}
    BY <1>0, <2>1 DEF TypeInv, TypeOK, SweeperLocks, NoSweep
  <2>3. Frame(p)
    BY <1>1, <2>1 DEF Frame, TypeInv, TypeOK
  <2>4. Own(p)'
    BY <1>0, <2>2 DEF Own, SweeperLocks
  <2> QED  BY <1>1, <2>3, <2>4, LogsRest
<1>3. CASE SweepClaim(p)
  <2>1. PICK e \in sweep[p].todo :
          /\ holder[ExecutionRow(e)] = None
          /\ holder' = [holder EXCEPT ![ExecutionRow(e)] = p]
          /\ sweep' = [sweep EXCEPT ![p].todo = @ \ {e}, ![p].claimed = @ \cup {e}]
    BY <1>3 DEF SweepClaim, Free, Acquire
  <2>2. pc[p] = "sweep" /\ UNCHANGED pc
    BY <1>3 DEF SweepClaim
  <2>3. e \in Executions /\ ExecutionRow(e) \in Resources
    BY <1>0, <2>1, ResourceNames
  <2>4. /\ sweep'[p].claimed = sweep[p].claimed \cup {e} /\ sweep'[p].marked = sweep[p].marked
        /\ holder'[ExecutionRow(e)] = p
        /\ \A r \in Resources : holder[r] = p => holder'[r] = p
    BY <1>0, <2>1, <2>3 DEF TypeInv, TypeOK
  <2>5. Frame(p)
    BY <1>1, <2>1, <2>2, <2>3 DEF Frame, TypeInv, TypeOK
  <2>6. Own(p)'
    BY <1>0, <2>2, <2>4, ResourceNames DEF Own, SweeperLocks
  <2> QED  BY <1>1, <2>5, <2>6, LogsRest
<1>4. CASE SweepSkip(p)
  <2>1. PICK e \in sweep[p].todo : sweep' = [sweep EXCEPT ![p].todo = @ \ {e}]
    BY <1>4 DEF SweepSkip
  <2>2. pc[p] = "sweep" /\ UNCHANGED <<pc, holder>>
    BY <1>4 DEF SweepSkip
  <2>3. sweep'[p].claimed = sweep[p].claimed /\ sweep'[p].marked = sweep[p].marked
    BY <1>0, <2>1 DEF TypeInv, TypeOK
  <2>4. Frame(p)
    BY <1>1, <2>1, <2>2 DEF Frame, TypeInv, TypeOK
  <2>5. Own(p)'
    BY <1>0, <2>2, <2>3 DEF Own, SweeperLocks
  <2> QED  BY <1>1, <2>4, <2>5, LogsRest
<1>5. CASE SweepMark(p)
  <2>1. PICK e \in sweep[p].claimed \ sweep[p].marked :
          /\ holder[ApprovalRow(e)] = None
          /\ holder' = [holder EXCEPT ![ApprovalRow(e)] = p]
          /\ sweep' = [sweep EXCEPT ![p].marked = @ \cup {e}]
    BY <1>5 DEF SweepMark, Free, Acquire
  <2>2. pc[p] = "sweep" /\ UNCHANGED pc
    BY <1>5 DEF SweepMark
  <2>3. e \in Executions /\ ApprovalRow(e) \in Resources
    BY <1>0, <2>1, ResourceNames
  <2>4. /\ sweep'[p].claimed = sweep[p].claimed /\ sweep'[p].marked = sweep[p].marked \cup {e}
        /\ holder'[ApprovalRow(e)] = p
        /\ \A r \in Resources : holder[r] = p => holder'[r] = p
    BY <1>0, <2>1, <2>3 DEF TypeInv, TypeOK
  <2>5. Frame(p)
    BY <1>1, <2>1, <2>2, <2>3 DEF Frame, TypeInv, TypeOK
  <2>6. Own(p)'
    BY <1>0, <2>1, <2>2, <2>4, ResourceNames DEF Own, SweeperLocks
  <2> QED  BY <1>1, <2>5, <2>6, LogsRest
<1> QED  BY <1>2, <1>3, <1>4, <1>5

LEMMA SweepCommitStep ==
  ASSUME NEW p \in Sweepers, TypeInv, Own(p), \A e \in Executions : Log(e), SweepCommit(p)
  PROVE  Frame(p) /\ Own(p)' /\ \A e \in Executions : Log(e)'
<1> USE DEF Processes
<1> DEFINE rejected == Rejects(sweep[p].claimed)
<1>0. /\ p \in Processes /\ EndTransaction(p)
      /\ \A e \in rejected : holder[ExecutionRow(e)] = p /\ status[e] = "APPROVAL"
  BY ProcessesAssumption DEF Own, SweeperLocks, SweepCommit, Rejects
<1>1. \A e \in Executions :
        /\ status'[e] = IF e \in rejected THEN "REJECTED" ELSE status[e]
        /\ events'[e] = IF e \in rejected THEN Append(events[e], "REJECTED") ELSE events[e]
  BY DEF SweepCommit
<1>2. Frame(p)
  BY <1>0, <1>1, EndOwn DEF Frame
<1>3. ASSUME NEW e \in Executions
      PROVE  Log(e)'
  <2>1. CASE e \in rejected
    <3>1. /\ events[e] \in Seq(ExecutionStatus) /\ events[e] # <<>> /\ Legal(events[e])
          /\ CanTransition(events[e][Len(events[e])], "REJECTED")
      BY <1>0, <2>1, TableFacts, NoneAssumption DEF Log, TypeInv, TypeOK, ExecutionStatus
    <3>2. /\ "REJECTED" \in ExecutionStatus
          /\ status'[e] = "REJECTED" /\ events'[e] = Append(events[e], "REJECTED")
      BY <1>1, <2>1 DEF ExecutionStatus
    <3> QED  BY <3>1, <3>2, LegalAppend DEF Log
  <2>2. CASE e \notin rejected
    BY <1>1, <2>2 DEF Log
  <2> QED  BY <2>1, <2>2
<1> QED  BY <1>0, <1>2, <1>3, EndOwn

LEMMA OtherStep ==
  ASSUME TypeInv, NEW p \in Processes, Own(p), \A e \in Executions : Log(e),
         \/ UNCHANGED vars
         \/ \E clock \in Clocks, e \in Executions : TimePasses(clock, e)
  PROVE  Frame(p) /\ Own(p)' /\ \A e \in Executions : Log(e)'
<1>1. UNCHANGED <<status, events, holder, pc, call, outcome, seq, sweep>>
  BY DEF vars, rows, local, TimePasses
<1>2. Target(p)' = Target(p)
  BY <1>1 DEF Target, Approves
<1>3. Own(p)'
  BY <1>1, <1>2 DEF Own, ClientLocks, GuardTrue, ReadsValid, SweeperLocks
<1> QED  BY <1>1, <1>3, LogsRest DEF Frame

LEMMA IInvInit == Init => IInv
<1> SUFFICES ASSUME Init PROVE IInv
  OBVIOUS
<1>1. TypeInv
  BY InitType
<1>2. \A p \in Processes : Own(p)
  BY DEF Init, Own, ClientLocks, GuardTrue, ReadsValid, SweeperLocks, NoSweep
<1>3. \A e \in Executions : Log(e)
  BY DEF Init, Log, Legal
<1> QED  BY <1>1, <1>2, <1>3, IInvParts

(* One step of one connection, or of nobody. *)
LEMMA StepFrame ==
  ASSUME IInv, [Next]_vars, Processes # {}
  PROVE  \E p \in Processes : Frame(p) /\ Own(p)' /\ \A e \in Executions : Log(e)'
<1>0. TypeInv /\ (\A p \in Processes : Own(p)) /\ (\A e \in Executions : Log(e))
  BY IInvParts
<1>1. ASSUME NEW p \in Clients, Call(p)
      PROVE  Frame(p) /\ Own(p)' /\ \A e \in Executions : Log(e)'
  BY <1>0, <1>1, StartStep, BeginStep DEF Call, Processes
<1>2. ASSUME NEW p \in Clients, ClientStep(p)
      PROVE  Frame(p) /\ Own(p)' /\ \A e \in Executions : Log(e)'
  BY <1>0, <1>2, StartStep, StartCommitStep, DecideStep, ReadSequenceStep, CommitStep
  DEF ClientStep, Processes
<1>3. ASSUME NEW p \in Sweepers, SweeperStep(p)
      PROVE  Frame(p) /\ Own(p)' /\ \A e \in Executions : Log(e)'
  BY <1>0, <1>3, SweepStep, SweepCommitStep DEF SweeperStep, Processes
<1>4. ASSUME NEW p \in Processes, Abort(p)
      PROVE  Frame(p) /\ Own(p)' /\ \A e \in Executions : Log(e)'
  BY <1>0, <1>4, RollbackStep DEF Abort
<1>5. ASSUME NEW p \in Processes,
             \/ UNCHANGED vars
             \/ \E clock \in Clocks, e \in Executions : TimePasses(clock, e)
      PROVE  Frame(p) /\ Own(p)' /\ \A e \in Executions : Log(e)'
  BY <1>0, <1>5, OtherStep
<1> QED
  BY <1>1, <1>2, <1>3, <1>4, <1>5 DEF Next, Processes

LEMMA IInvNext ==
  ASSUME IInv, [Next]_vars
  PROVE  IInv'
<1>0. TypeInv /\ (\A q \in Processes : Own(q)) /\ (\A e \in Executions : Log(e))
  BY IInvParts
<1>1. TypeInv'
  BY <1>0, NextType
<1>2. CASE Processes = {}
  <2>1. UNCHANGED <<status, events>>
    BY <1>2 DEF Next, Processes, TimePasses, vars, rows
  <2>2. \A e \in Executions : Log(e)'
    BY <1>0, <2>1, LogsRest
  <2> QED  BY <1>1, <1>2, <2>2 DEF IInv, TypeInv, Log, LocksHeld, GuardsStayTrue, ReadsStayValid,
           StatusIsLastEvent, LegalHistory, Processes
<1>3. CASE Processes # {}
  <2>1. PICK p \in Processes : Frame(p) /\ Own(p)' /\ \A e \in Executions : Log(e)'
    BY <1>3, StepFrame
  <2>2. \A q \in Processes : Own(q)'
    BY <1>0, <2>1, OthersKeep
  <2> QED  BY <1>1, <2>1, <2>2, ProcessesAssumption
           DEF IInv, TypeInv, Own, Log, LocksHeld, GuardsStayTrue, ReadsStayValid,
               StatusIsLastEvent, LegalHistory, Processes
<1> QED  BY <1>2, <1>3

(* The execution row's lock does what docs/POSTGRES_RUNTIME.md promises of *)
(* it: what a transaction has read under it stays true until it commits,   *)
(* for any number of clients and sweepers.                                 *)
THEOREM ReadsStayValidTheorem == Spec => []ReadsStayValid
<1>1. Spec => []IInv
  BY IInvInit, IInvNext, PTL DEF Spec
<1>2. IInv => ReadsStayValid
  BY DEF IInv
<1> QED  BY <1>1, <1>2, PTL

(* The status column always equals the last committed event. *)
THEOREM StatusIsLastEventTheorem == Spec => []StatusIsLastEvent
<1>1. Spec => []IInv
  BY IInvInit, IInvNext, PTL DEF Spec
<1>2. IInv => StatusIsLastEvent
  BY DEF IInv
<1> QED  BY <1>1, <1>2, PTL

(* The committed log of every execution always follows the table. *)
THEOREM LegalHistoryTheorem == Spec => []LegalHistory
<1>1. Spec => []IInv
  BY IInvInit, IInvNext, PTL DEF Spec
<1>2. IInv => LegalHistory
  BY DEF IInv
<1> QED  BY <1>1, <1>2, PTL

-----------------------------------------------------------------------------
(* What a step may do, for the invariants that look at every connection:   *)
(* which transactions write the rows that answer for an execution, and how *)
(* a connection gets from one statement to the next.                       *)

(* Only four statements write an execution, its approval or a key. *)
LEMMA Writers ==
  ASSUME [Next]_vars
  PROVE  \/ UNCHANGED <<status, events, approval, dispatches, audit, idempotency>>
         \/ \E p \in Clients : \/ StartCommit(p) /\ ~Rollback(p)
                               \/ DecideCommit(p) /\ SequenceFree(p)
                               \/ StatusCommit(p) /\ SequenceFree(p)
         \/ \E p \in Sweepers : SweepCommit(p)
<1>1. ASSUME UNCHANGED rows
      PROVE  UNCHANGED <<status, events, approval, dispatches, audit, idempotency>>
  BY <1>1 DEF rows
<1>2. ASSUME NEW p \in Clients, Call(p) PROVE UNCHANGED rows
  BY <1>2 DEF Call, StartTenant, DecideBegin, TransitionBegin, FailBegin, LockExecution
<1>3. ASSUME NEW p \in Clients, ClientStep(p)
      PROVE  \/ UNCHANGED <<status, events, approval, dispatches, audit, idempotency>>
             \/ StartCommit(p) /\ ~Rollback(p)
             \/ DecideCommit(p) /\ SequenceFree(p)
             \/ StatusCommit(p) /\ SequenceFree(p)
  <2>1. Rollback(p) => UNCHANGED rows
    BY DEF Rollback
  <2>2. CASE StartLockKey(p) \/ StartLookup(p) \/ StartInsert(p)
    BY <1>1, <2>1, <2>2 DEF StartLockKey, StartLookup, StartInsert
  <2>3. CASE DecideLockTicket(p) \/ DecideVerdict(p) \/ ReadSequence(p)
    BY <1>1, <2>1, <2>3 DEF DecideLockTicket, DecideVerdict, ReadSequence
  <2>4. CASE StartCommit(p) \/ DecideCommit(p) \/ StatusCommit(p)
    BY <1>1, <2>1, <2>4 DEF DecideCommit, StatusCommit
  <2> QED  BY <1>3, <2>2, <2>3, <2>4 DEF ClientStep
<1>4. ASSUME NEW p \in Sweepers, SweeperStep(p) PROVE UNCHANGED rows \/ SweepCommit(p)
  BY <1>4 DEF SweeperStep, SweepBegin, SweepClaim, SweepSkip, SweepMark
<1>5. ASSUME NEW p \in Processes, Abort(p) PROVE UNCHANGED rows
  BY <1>5 DEF Abort, Rollback
<1>6. ASSUME NEW clock \in Clocks, NEW e \in Executions, TimePasses(clock, e) PROVE UNCHANGED rows
  BY <1>6 DEF TimePasses
<1>7. ASSUME UNCHANGED vars PROVE UNCHANGED rows
  BY <1>7 DEF vars
<1> QED
  BY <1>1, <1>2, <1>3, <1>4, <1>5, <1>6, <1>7 DEF Next

Stays(p) == /\ pc'[p] = pc[p] /\ call'[p] = call[p] /\ sweep'[p] = sweep[p]

Begins(p) ==
  \/ pc'[p] \in {"idle", "key", "ticket"}
  \/ pc'[p] = "insert" /\ call'[p].key = None
  \/ pc'[p] = "read" /\ call'[p] \notin DecideCalls

Proceeds(p) ==
  /\ call'[p] = call[p]
  /\ \/ pc[p] = "key" /\ pc'[p] = "lookup"
     \/ pc[p] = "lookup" /\ pc'[p] = "insert" /\ Recorded(call[p]) = None
     \/ pc[p] = "insert" /\ pc'[p] = "commit"
     \/ pc[p] = "ticket" /\ pc'[p] = "verdict"
     \/ pc[p] = "verdict" /\ pc'[p] = "read" /\ ~TicketRefused(call[p])
     \/ pc[p] = "read" /\ pc'[p] = "commit"

Collects(p) ==
  \A e \in sweep'[p].todo \cup sweep'[p].claimed :
    e \in sweep[p].todo \cup sweep[p].claimed \/ approval[e] = "PENDING"

Moves(p) == /\ p \in Clients => Stays(p) \/ Begins(p) \/ Proceeds(p)
            /\ p \in Sweepers => Collects(p)

LEMMA EndMoves ==
  ASSUME TypeInv, NEW p \in Processes, EndTransaction(p)
  PROVE  Moves(p) /\ \A q \in Processes \ {p} : Stays(q)
<1>1. pc'[p] = "idle" /\ sweep'[p] = NoSweep
  BY DEF EndTransaction, TypeInv, TypeOK
<1>2. \A q \in Processes \ {p} : Stays(q)
  BY DEF EndTransaction, TypeInv, TypeOK, Stays
<1> QED  BY <1>1, <1>2 DEF Moves, Begins, Collects, NoSweep

LEMMA ClientsMove ==
  ASSUME TypeInv, NEW p \in Clients, Call(p) \/ ClientStep(p)
  PROVE  Moves(p) /\ \A q \in Processes \ {p} : Stays(q)
<1> USE DEF Processes
<1>0. p \notin Sweepers
  BY ProcessesAssumption
<1>1. ASSUME NEW label, NEW c, pc' = [pc EXCEPT ![p] = label], call' = [call EXCEPT ![p] = c], sweep' = sweep
      PROVE  pc'[p] = label /\ call'[p] = c /\ \A q \in Processes \ {p} : Stays(q)
  BY <1>1 DEF TypeInv, TypeOK, Stays
<1>2. ASSUME NEW label, pc' = [pc EXCEPT ![p] = label], call' = call, sweep' = sweep
      PROVE  pc'[p] = label /\ call'[p] = call[p] /\ \A q \in Processes \ {p} : Stays(q)
  BY <1>2 DEF TypeInv, TypeOK, Stays
<1>3. CASE Rollback(p)
  BY <1>3, EndMoves DEF Rollback
<1>4. ASSUME NEW c \in Calls, StartTenant(p, c) PROVE Moves(p) /\ \A q \in Processes \ {p} : Stays(q)
  <2>1. CASE c.key = None
    <3>1. pc' = [pc EXCEPT ![p] = "insert"] /\ call' = [call EXCEPT ![p] = c] /\ sweep' = sweep
      BY <1>4, <2>1 DEF StartTenant, Goto
    <3> QED  BY <1>0, <1>1, <2>1, <3>1 DEF Moves, Begins
  <2>2. CASE c.key # None
    <3>1. pc' = [pc EXCEPT ![p] = "key"] /\ call' = [call EXCEPT ![p] = c] /\ sweep' = sweep
      BY <1>4, <2>2 DEF StartTenant, Goto
    <3> QED  BY <1>0, <1>1, <3>1 DEF Moves, Begins
  <2> QED  BY <2>1, <2>2
<1>5. ASSUME NEW c \in Calls, DecideBegin(p, c) PROVE Moves(p) /\ \A q \in Processes \ {p} : Stays(q)
  <2>1. pc' = [pc EXCEPT ![p] = "ticket"] /\ call' = [call EXCEPT ![p] = c] /\ sweep' = sweep
    BY <1>5 DEF DecideBegin, LockExecution, Goto
  <2> QED  BY <1>0, <1>1, <2>1 DEF Moves, Begins
<1>6. ASSUME NEW c \in Calls, TransitionBegin(p, c) \/ FailBegin(p, c)
      PROVE  Moves(p) /\ \A q \in Processes \ {p} : Stays(q)
  <2>1. pc' = [pc EXCEPT ![p] = "read"] /\ call' = [call EXCEPT ![p] = c] /\ sweep' = sweep
    BY <1>6 DEF TransitionBegin, FailBegin, LockExecution, Goto
  <2>2. c \notin DecideCalls
    BY <1>6, CallKinds DEF TransitionBegin, FailBegin
  <2> QED  BY <1>0, <1>1, <2>1, <2>2 DEF Moves, Begins
<1>7. CASE StartLockKey(p)
  <2>1. pc' = [pc EXCEPT ![p] = "lookup"] /\ call' = call /\ sweep' = sweep /\ pc[p] = "key"
    BY <1>7 DEF StartLockKey, Goto
  <2> QED  BY <1>0, <1>2, <2>1 DEF Moves, Proceeds
<1>8. CASE StartLookup(p)
  <2>1. CASE Recorded(call[p]) = None /\ Goto(p, "insert")
             /\ UNCHANGED <<rows, expired, holder, call, outcome, seq, sweep, replies>>
    <3>1. pc' = [pc EXCEPT ![p] = "insert"] /\ call' = call /\ sweep' = sweep /\ pc[p] = "lookup"
      BY <1>8, <2>1 DEF StartLookup, Goto
    <3> QED  BY <1>0, <1>2, <2>1, <3>1 DEF Moves, Proceeds
  <2>2. CASE EndTransaction(p)
    BY <2>2, EndMoves
  <2> QED  BY <1>3, <1>8, <2>1, <2>2 DEF StartLookup
<1>9. CASE StartInsert(p)
  <2>1. CASE Acquire(p, ExecutionRow(call[p].execution)) /\ Goto(p, "commit")
             /\ UNCHANGED <<rows, expired, call, outcome, seq, sweep, replies>>
    <3>1. pc' = [pc EXCEPT ![p] = "commit"] /\ call' = call /\ sweep' = sweep /\ pc[p] = "insert"
      BY <1>9, <2>1 DEF StartInsert, Goto
    <3> QED  BY <1>0, <1>2, <3>1 DEF Moves, Proceeds
  <2> QED  BY <1>3, <1>9, <2>1 DEF StartInsert
<1>10. CASE DecideLockTicket(p)
  <2>1. CASE Acquire(p, ApprovalRow(call[p].ticket)) /\ Goto(p, "verdict")
             /\ UNCHANGED <<rows, expired, call, outcome, seq, sweep, replies>>
    <3>1. pc' = [pc EXCEPT ![p] = "verdict"] /\ call' = call /\ sweep' = sweep /\ pc[p] = "ticket"
      BY <1>10, <2>1 DEF DecideLockTicket, Goto
    <3> QED  BY <1>0, <1>2, <3>1 DEF Moves, Proceeds
  <2> QED  BY <1>3, <1>10, <2>1 DEF DecideLockTicket
<1>11. CASE DecideVerdict(p)
  <2>1. CASE ~TicketRefused(call[p]) /\ Goto(p, "read")
             /\ UNCHANGED <<rows, expired, holder, call, seq, sweep, replies>>
    <3>1. pc' = [pc EXCEPT ![p] = "read"] /\ call' = call /\ sweep' = sweep /\ pc[p] = "verdict"
      BY <1>11, <2>1 DEF DecideVerdict, Goto
    <3> QED  BY <1>0, <1>2, <2>1, <3>1 DEF Moves, Proceeds
  <2> QED  BY <1>3, <1>11, <2>1 DEF DecideVerdict
<1>12. CASE ReadSequence(p)
  <2>1. pc' = [pc EXCEPT ![p] = "commit"] /\ call' = call /\ sweep' = sweep /\ pc[p] = "read"
    BY <1>12 DEF ReadSequence, Goto
  <2> QED  BY <1>0, <1>2, <2>1 DEF Moves, Proceeds
<1>13. CASE StartCommit(p) \/ DecideCommit(p) \/ StatusCommit(p)
  <2>1. EndTransaction(p)
    BY <1>13 DEF StartCommit, DecideCommit, StatusCommit, Rollback
  <2> QED  BY <2>1, EndMoves
<1> QED
  BY <1>4, <1>5, <1>6, <1>7, <1>8, <1>9, <1>10, <1>11, <1>12, <1>13 DEF Call, ClientStep

LEMMA SweepersMove ==
  ASSUME TypeInv, NEW p \in Sweepers, SweeperStep(p)
  PROVE  Moves(p) /\ \A q \in Processes \ {p} : Stays(q)
<1> USE DEF Processes
<1>0. p \notin Clients
  BY ProcessesAssumption
<1>1. CASE SweepCommit(p)
  BY <1>1, EndMoves DEF SweepCommit
<1>2. CASE SweepBegin(p) \/ SweepClaim(p) \/ SweepSkip(p) \/ SweepMark(p)
  <2>1. call' = call
    BY <1>2 DEF SweepBegin, SweepClaim, SweepSkip, SweepMark
  <2>2. \A q \in Processes \ {p} : pc'[q] = pc[q]
    BY <1>2 DEF SweepBegin, SweepClaim, SweepSkip, SweepMark, Goto, TypeInv, TypeOK
  <2>3. sweep \in [Processes -> [todo : SUBSET Executions, claimed : SUBSET Executions,
                                 marked : SUBSET Executions]]
    BY DEF TypeInv, TypeOK
  <2>4. Collects(p) /\ \A q \in Processes \ {p} : sweep'[q] = sweep[q]
    <3>1. CASE SweepBegin(p)
      <4>1. sweep' = [sweep EXCEPT ![p].todo = Candidates]
        BY <3>1 DEF SweepBegin
      <4>2. sweep'[p].todo = Candidates /\ sweep'[p].claimed = sweep[p].claimed
        BY <2>3, <4>1
      <4>3. \A q \in Processes \ {p} : sweep'[q] = sweep[q]
        BY <2>3, <4>1
      <4> QED  BY <4>2, <4>3 DEF Collects, Candidates
    <3>2. CASE SweepClaim(p)
      <4>1. PICK e \in sweep[p].todo :
              sweep' = [sweep EXCEPT ![p].todo = @ \ {e}, ![p].claimed = @ \cup {e}]
        BY <3>2 DEF SweepClaim
      <4>2. sweep'[p].todo = sweep[p].todo \ {e} /\ sweep'[p].claimed = sweep[p].claimed \cup {e}
        BY <2>3, <4>1
      <4>3. \A q \in Processes \ {p} : sweep'[q] = sweep[q]
        BY <2>3, <4>1
      <4> QED  BY <4>2, <4>3 DEF Collects
    <3>3. CASE SweepSkip(p)
      <4>1. PICK e \in sweep[p].todo : sweep' = [sweep EXCEPT ![p].todo = @ \ {e}]
        BY <3>3 DEF SweepSkip
      <4>2. sweep'[p].todo = sweep[p].todo \ {e} /\ sweep'[p].claimed = sweep[p].claimed
        BY <2>3, <4>1
      <4>3. \A q \in Processes \ {p} : sweep'[q] = sweep[q]
        BY <2>3, <4>1
      <4> QED  BY <4>2, <4>3 DEF Collects
    <3>4. CASE SweepMark(p)
      <4>1. PICK e \in sweep[p].claimed : sweep' = [sweep EXCEPT ![p].marked = @ \cup {e}]
        BY <3>4 DEF SweepMark
      <4>2. sweep'[p].todo = sweep[p].todo /\ sweep'[p].claimed = sweep[p].claimed
        BY <2>3, <4>1
      <4>3. \A q \in Processes \ {p} : sweep'[q] = sweep[q]
        BY <2>3, <4>1
      <4> QED  BY <4>2, <4>3 DEF Collects
    <3> QED  BY <1>2, <3>1, <3>2, <3>3, <3>4
  <2> QED  BY <1>0, <2>1, <2>2, <2>4 DEF Moves, Stays
<1> QED  BY <1>1, <1>2 DEF SweeperStep

(* Every connection goes one statement on, begins, ends or stays. *)
LEMMA ConnectionsMove ==
  ASSUME TypeInv, [Next]_vars, NEW q \in Processes
  PROVE  Moves(q)
<1>1. Stays(q) => Moves(q)
  BY DEF Stays, Moves, Collects
<1>2. ASSUME NEW p \in Clients, Call(p) \/ ClientStep(p) PROVE Moves(q)
  BY <1>1, <1>2, ClientsMove
<1>3. ASSUME NEW p \in Sweepers, SweeperStep(p) PROVE Moves(q)
  BY <1>1, <1>3, SweepersMove
<1>4. ASSUME NEW p \in Processes, Abort(p) PROVE Moves(q)
  BY <1>1, <1>4, EndMoves DEF Abort, Rollback
<1>5. ASSUME UNCHANGED local PROVE Moves(q)
  BY <1>1, <1>5 DEF local, Stays
<1> QED
  BY <1>2, <1>3, <1>4, <1>5 DEF Next, TimePasses, vars

-----------------------------------------------------------------------------
(* Idempotency keys.  The lock of a key is held from the lookup to COMMIT, *)
(* so nobody records the key meanwhile, and a record once made stays.      *)

(* Every answer given under a key is the record of that key. *)
Remembered ==
  \A r \in replies :
    /\ idempotency[<<r.request.tenant, r.key>>] = r.request
    /\ r.execution = r.request.execution

KeyInv == IInv /\ RetryNeverCollides /\ Remembered

(* A start that has looked its key up holds the key's lock. *)
LEMMA KeyHeld ==
  ASSUME IInv, NEW p \in Clients, pc[p] \in {"lookup", "insert", "commit"},
         call[p].op = "start", call[p].key # None
  PROVE  /\ call[p] \in StartCalls /\ call[p].tenant \in Tenants /\ call[p].key \in Keys
         /\ holder[KeyLock(call[p].tenant, call[p].key)] = p
<1>1. call[p] \in Calls /\ call[p] \in StartCalls
  BY CallKinds DEF IInv, CallFits
<1>2. call[p].tenant \in Tenants /\ call[p].key \in Keys
  BY <1>1, CallKinds
<1>3. ClientLocks(p)
  BY DEF IInv, LocksHeld
<1> QED  BY <1>1, <1>2, <1>3 DEF ClientLocks

(* The records are written only by a start, of its own key, for the first  *)
(* time.                                                                   *)
LEMMA KeysWritten ==
  ASSUME KeyInv, [Next]_vars, NEW t \in Tenants, NEW k \in Keys
  PROVE  \/ idempotency'[<<t, k>>] = idempotency[<<t, k>>]
         \/ /\ idempotency[<<t, k>>] = None
            /\ \E p \in Clients :
                 /\ StartCommit(p) /\ call[p].tenant = t /\ call[p].key = k
                 /\ idempotency'[<<t, k>>] = Request(call[p])
<1>1. idempotency \in [Tenants \X Keys -> Requests \cup {None}]
  BY DEF KeyInv, IInv, TypeOK
<1>2. CASE UNCHANGED idempotency
  BY <1>2
<1>3. ASSUME NEW p \in Clients, StartCommit(p), ~Rollback(p), call[p].key # None
      PROVE  \/ idempotency'[<<t, k>>] = idempotency[<<t, k>>]
             \/ /\ idempotency[<<t, k>>] = None
                /\ StartCommit(p) /\ call[p].tenant = t /\ call[p].key = k
                /\ idempotency'[<<t, k>>] = Request(call[p])
  <2>1. /\ pc[p] = "commit" /\ call[p].op = "start"
        /\ idempotency' = [idempotency EXCEPT ![<<call[p].tenant, call[p].key>>] = Request(call[p])]
    BY <1>3 DEF StartCommit
  <2>2. call[p] \in StartCalls /\ call[p].tenant \in Tenants /\ call[p].key \in Keys
    BY <1>3, <2>1, KeyHeld DEF KeyInv
  <2>3. idempotency[<<call[p].tenant, call[p].key>>] = None
    BY <1>3, <2>1 DEF KeyInv, RetryNeverCollides, Recorded
  <2>4. CASE call[p].tenant = t /\ call[p].key = k
    BY <1>1, <1>3, <2>1, <2>2, <2>3, <2>4
  <2>5. CASE ~(call[p].tenant = t /\ call[p].key = k)
    BY <1>1, <2>1, <2>2, <2>5
  <2> QED  BY <2>4, <2>5
<1>4. ASSUME NEW p \in Clients, StartCommit(p), ~Rollback(p), call[p].key = None
      PROVE  UNCHANGED idempotency
  BY <1>4 DEF StartCommit
<1>5. ASSUME NEW p \in Clients, DecideCommit(p) \/ StatusCommit(p) PROVE UNCHANGED idempotency
  BY <1>5 DEF DecideCommit, StatusCommit, Rollback, rows
<1>6. ASSUME NEW p \in Sweepers, SweepCommit(p) PROVE UNCHANGED idempotency
  BY <1>6 DEF SweepCommit
<1> QED
  BY <1>2, <1>3, <1>4, <1>5, <1>6, Writers

LEMMA RetryNeverCollidesNext ==
  ASSUME KeyInv, IInv', [Next]_vars
  PROVE  RetryNeverCollides'
<1> SUFFICES ASSUME NEW p \in Clients, pc'[p] \in {"insert", "commit"},
                    call'[p].op = "start", call'[p].key # None
             PROVE  idempotency'[<<call'[p].tenant, call'[p].key>>] = None
  BY DEF RetryNeverCollides, Recorded
<1> DEFINE t == call'[p].tenant
           k == call'[p].key
<1>1. Moves(p)
  BY ConnectionsMove DEF KeyInv, IInv, TypeInv, Processes
<1>2. /\ call'[p] = call[p] /\ pc[p] \in {"lookup", "insert", "read", "commit"}
      /\ idempotency[<<t, k>>] = None \/ pc[p] = "read"
  BY <1>1 DEF Moves, Stays, Begins, Proceeds, KeyInv, RetryNeverCollides, Recorded
<1>3. pc[p] # "read"
  BY <1>2, CallKinds DEF KeyInv, IInv, CallFits
<1>4. t \in Tenants /\ k \in Keys /\ holder[KeyLock(t, k)] = p
  BY <1>2, <1>3, KeyHeld DEF KeyInv
<1>5. CASE idempotency'[<<t, k>>] = idempotency[<<t, k>>]
  BY <1>2, <1>3, <1>5
<1>6. ASSUME NEW q \in Clients, StartCommit(q), call[q].tenant = t, call[q].key = k
      PROVE  FALSE
  <2>1. holder[KeyLock(t, k)] = q
    BY <1>4, <1>6, KeyHeld, NoneAssumption DEF KeyInv, StartCommit
  <2>2. pc'[q] = "idle"
    BY <1>6 DEF StartCommit, EndTransaction, Rollback, KeyInv, IInv, TypeOK, Processes
  <2> QED  BY <1>4, <2>1, <2>2
<1> QED  BY <1>4, <1>5, <1>6, KeysWritten

(* Answers are given by a lookup that found the record, or by the start    *)
(* that makes it.                                                          *)
LEMMA AnswersGiven ==
  ASSUME KeyInv, IInv', [Next]_vars, NEW r \in replies' \ replies
  PROVE  \E p \in Clients :
           /\ r = [key |-> call[p].key, request |-> Request(call[p]), execution |-> r.execution]
           /\ call[p].key # None
           /\ idempotency'[<<call[p].tenant, call[p].key>>] = Request(call[p])
           /\ r.execution = Request(call[p]).execution
<1>1. ASSUME NEW p \in Clients, NEW x, Answer(call[p], x)
      PROVE  call[p].key # None /\ r = [key |-> call[p].key, request |-> Request(call[p]), execution |-> x]
  BY <1>1 DEF Answer
<1>2. ASSUME NEW p \in Clients, StartLookup(p), ~UNCHANGED replies
      PROVE  /\ Answer(call[p], Recorded(call[p]).execution)
             /\ Recorded(call[p]) = Request(call[p]) /\ UNCHANGED idempotency
  BY <1>2 DEF StartLookup, SameRequest, Rollback
<1>3. ASSUME NEW p \in Clients, StartLookup(p), ~UNCHANGED replies
      PROVE  /\ r = [key |-> call[p].key, request |-> Request(call[p]), execution |-> r.execution]
             /\ call[p].key # None
             /\ idempotency'[<<call[p].tenant, call[p].key>>] = Request(call[p])
             /\ r.execution = Request(call[p]).execution
  BY <1>1, <1>2, <1>3 DEF Recorded
<1>4. ASSUME NEW p \in Clients, StartCommit(p), ~UNCHANGED replies
      PROVE  /\ r = [key |-> call[p].key, request |-> Request(call[p]), execution |-> r.execution]
             /\ call[p].key # None
             /\ idempotency'[<<call[p].tenant, call[p].key>>] = Request(call[p])
             /\ r.execution = Request(call[p]).execution
  <2>1. /\ Answer(call[p], call[p].execution) /\ pc[p] = "commit" /\ call[p].op = "start"
        /\ call[p].key # None =>
             idempotency' = [idempotency EXCEPT ![<<call[p].tenant, call[p].key>>] = Request(call[p])]
    BY <1>4 DEF StartCommit, Rollback
  <2>2. /\ call[p].key # None
        /\ r = [key |-> call[p].key, request |-> Request(call[p]),
                execution |-> call[p].execution]
    BY <1>1, <2>1
  <2>3. call[p].tenant \in Tenants /\ call[p].key \in Keys
    BY <2>1, <2>2, KeyHeld DEF KeyInv
  <2>4. idempotency'[<<call[p].tenant, call[p].key>>] = Request(call[p])
    BY <2>1, <2>2, <2>3 DEF KeyInv, IInv, TypeOK
  <2> QED  BY <2>2, <2>4 DEF Request
<1>5. ASSUME NEW p \in Clients, Call(p) PROVE UNCHANGED replies
  BY <1>5 DEF Call, StartTenant, DecideBegin, TransitionBegin, FailBegin, LockExecution
<1>6. ASSUME NEW p \in Clients, StartLockKey(p) \/ StartInsert(p) \/ DecideLockTicket(p)
             \/ DecideVerdict(p) \/ ReadSequence(p)
      PROVE  UNCHANGED replies
  BY <1>6 DEF StartLockKey, StartInsert, DecideLockTicket, DecideVerdict, ReadSequence, Rollback
<1>7. ASSUME NEW p \in Clients, DecideCommit(p) \/ StatusCommit(p) PROVE UNCHANGED replies
  BY <1>7 DEF DecideCommit, StatusCommit, Rollback
<1>8. ASSUME NEW p \in Sweepers, SweeperStep(p) PROVE UNCHANGED replies
  BY <1>8 DEF SweeperStep, SweepBegin, SweepClaim, SweepSkip, SweepMark, SweepCommit
<1>9. ASSUME \/ \E p \in Processes : Abort(p)
             \/ \E clock \in Clocks, e \in Executions : TimePasses(clock, e)
             \/ UNCHANGED vars
      PROVE  UNCHANGED replies
  BY <1>9 DEF Abort, Rollback, TimePasses, vars
<1>10. ~UNCHANGED replies
  OBVIOUS
<1>11. \E p \in Clients : StartLookup(p) \/ StartCommit(p)
  BY <1>5, <1>6, <1>7, <1>8, <1>9, <1>10 DEF Next, ClientStep
<1> QED  BY <1>3, <1>4, <1>10, <1>11

LEMMA RememberedNext ==
  ASSUME KeyInv, IInv', [Next]_vars
  PROVE  Remembered'
<1> SUFFICES ASSUME NEW r \in replies'
             PROVE  /\ idempotency'[<<r.request.tenant, r.key>>] = r.request
                    /\ r.execution = r.request.execution
  BY DEF Remembered
<1>1. CASE r \in replies
  <2>1. /\ r.key \in Keys /\ r.request.tenant \in Tenants /\ r.request \in Requests
    BY <1>1 DEF KeyInv, IInv, TypeOK, Requests
  <2>2. idempotency[<<r.request.tenant, r.key>>] = r.request /\ r.execution = r.request.execution
    BY <1>1 DEF KeyInv, Remembered
  <2>3. idempotency'[<<r.request.tenant, r.key>>] = idempotency[<<r.request.tenant, r.key>>]
    BY <2>1, <2>2, KeysWritten, NoneAssumption
  <2> QED  BY <2>2, <2>3
<1>2. CASE r \notin replies
  <2>1. PICK p \in Clients :
           /\ r = [key |-> call[p].key, request |-> Request(call[p]), execution |-> r.execution]
           /\ idempotency'[<<call[p].tenant, call[p].key>>] = Request(call[p])
           /\ r.execution = Request(call[p]).execution
    BY <1>2, AnswersGiven
  <2>2. r.key = call[p].key /\ r.request = Request(call[p]) /\ Request(call[p]).tenant = call[p].tenant
    BY <2>1 DEF Request
  <2> QED  BY <2>1, <2>2
<1> QED  BY <1>1, <1>2

LEMMA KeyInvInit == Init => KeyInv
<1> SUFFICES ASSUME Init PROVE RetryNeverCollides /\ Remembered
  BY IInvInit DEF KeyInv
<1> QED  BY DEF Init, RetryNeverCollides, Remembered, Processes

LEMMA KeyInvNext == KeyInv /\ [Next]_vars => KeyInv'
<1> SUFFICES ASSUME KeyInv, [Next]_vars PROVE KeyInv'
  OBVIOUS
<1>1. IInv'
  BY IInvNext DEF KeyInv
<1> QED  BY <1>1, RetryNeverCollidesNext, RememberedNext DEF KeyInv

(* A retried start never runs into the rows of its first attempt, for any  *)
(* number of clients and keys (advisory lock, lookup, insert).             *)
THEOREM RetryNeverCollidesTheorem == Spec => []RetryNeverCollides
<1>1. KeyInv => RetryNeverCollides
  BY DEF KeyInv
<1> QED  BY <1>1, KeyInvInit, KeyInvNext, PTL DEF Spec

(* All successful answers under one key of a tenant answer one request and *)
(* name one execution.                                                     *)
THEOREM AnswersAgreeTheorem == Spec => []AnswersAgree
<1>1. KeyInv => AnswersAgree
  <2> SUFFICES ASSUME Remembered, NEW r1 \in replies, NEW r2 \in replies, r1.key = r2.key,
                      r1.request.tenant = r2.request.tenant
               PROVE  r1.request = r2.request /\ r1.execution = r2.execution
    BY DEF KeyInv, AnswersAgree
  <2>1. r1.request = r2.request
    BY DEF Remembered
  <2> QED  BY <2>1 DEF Remembered
<1> QED  BY <1>1, KeyInvInit, KeyInvNext, PTL DEF Spec

-----------------------------------------------------------------------------
(* Locks and deadlock.  LocksHeld says which locks a statement implies;    *)
(* this is the converse: a connection holds no others.                     *)

Holds(p) ==
  /\ \A e \in Executions :
       /\ holder[ExecutionRow(e)] = p =>
            \/ pc[p] \in {"ticket", "verdict", "read", "commit"}
            \/ pc[p] = "sweep" /\ e \in sweep[p].claimed
       /\ holder[ApprovalRow(e)] = p =>
            \/ pc[p] \in {"verdict", "read", "commit"}
            \/ pc[p] = "sweep" /\ e \in sweep[p].marked
  /\ \A t \in Tenants, k \in Keys :
       holder[KeyLock(t, k)] = p => pc[p] \in {"lookup", "insert", "commit"}

LockInv == IInv /\ \A p \in Processes : Holds(p)

(* Locks are only taken or given up by the connection that moves. *)
Touches(p) == \A r \in Resources : holder'[r] \in {holder[r], p, None}

(* p takes at most the locks R. *)
Takes(p, R) ==
  \A x \in Resources : holder'[x] = holder[x] \/ (x \in R /\ holder'[x] = p)

LEMMA TakesTouches ==
  ASSUME NEW p, NEW R, Takes(p, R) PROVE Touches(p)
  BY DEF Takes, Touches

LEMMA AcquireTakes ==
  ASSUME TypeInv, NEW p \in Processes, NEW r, Acquire(p, r) PROVE Takes(p, {r})
<1>1. holder \in [Resources -> Processes \cup {None}] /\ holder' = [holder EXCEPT ![r] = p]
  BY DEF Acquire, TypeInv, TypeOK
<1> SUFFICES ASSUME NEW x \in Resources
             PROVE  holder'[x] = holder[x] \/ (x \in {r} /\ holder'[x] = p)
  BY DEF Takes
<1>2. CASE x = r
  BY <1>1, <1>2
<1>3. CASE x # r
  BY <1>1, <1>3
<1> QED  BY <1>2, <1>3

LEMMA KeepTakes ==
  ASSUME NEW p, NEW R, UNCHANGED holder PROVE Takes(p, R)
  BY DEF Takes

LEMMA EndHolds ==
  ASSUME TypeInv, NEW p \in Processes, EndTransaction(p)
  PROVE  Holds(p)' /\ Touches(p)
<1>1. \A r \in Resources : holder'[r] # p /\ holder'[r] \in {holder[r], p, None}
  BY ProcessesAssumption DEF EndTransaction
<1>2. Touches(p)
  BY <1>1 DEF Touches
<1> QED  BY <1>1, <1>2, ResourceNames DEF Holds

(* At each statement but the first, what p held before fits the next.      *)
LEMMA TakingHolds ==
  ASSUME TypeInv, NEW p \in Clients, Holds(p), NEW R, Takes(p, R),
         NEW label, pc' = [pc EXCEPT ![p] = label],
         pc[p] # "sweep",
         \/ pc[p] = "idle" /\ label \in {"key", "insert"} /\ \E t \in Tenants : R = {TenantRow(t)}
         \/ pc[p] = "key" /\ label = "lookup" /\ \E t \in Tenants, k \in Keys : R = {KeyLock(t, k)}
         \/ pc[p] = "lookup" /\ label = "insert" /\ R = {}
         \/ pc[p] = "insert" /\ label = "commit" /\ \E e \in Executions : R = {ExecutionRow(e)}
         \/ pc[p] = "idle" /\ label \in {"ticket", "read"} /\ \E e \in Executions : R = {ExecutionRow(e)}
         \/ pc[p] = "ticket" /\ label = "verdict" /\ \E e \in Executions : R = {ApprovalRow(e)}
         \/ pc[p] = "verdict" /\ label = "read" /\ R = {}
         \/ pc[p] = "read" /\ label = "commit" /\ R = {}
  PROVE  Holds(p)' /\ Touches(p)
<1>1. pc'[p] = label
  BY DEF TypeInv, TypeOK, Processes
<1>2. \A x \in Resources : holder'[x] = p => holder[x] = p \/ x \in R
  BY DEF Takes
<1>3. ASSUME NEW e \in Executions, holder'[ExecutionRow(e)] = p
      PROVE  pc'[p] \in {"ticket", "verdict", "read", "commit"}
  <2>1. holder[ExecutionRow(e)] = p \/ ExecutionRow(e) \in R
    BY <1>2, <1>3, ResourceNames
  <2>2. CASE holder[ExecutionRow(e)] = p
    BY <1>1, <2>2 DEF Holds
  <2>3. CASE ExecutionRow(e) \in R
    BY <1>1, <2>3, ResourcesDiffer
  <2> QED  BY <2>1, <2>2, <2>3
<1>4. ASSUME NEW e \in Executions, holder'[ApprovalRow(e)] = p
      PROVE  pc'[p] \in {"verdict", "read", "commit"}
  <2>1. holder[ApprovalRow(e)] = p \/ ApprovalRow(e) \in R
    BY <1>2, <1>4, ResourceNames
  <2>2. CASE holder[ApprovalRow(e)] = p
    BY <1>1, <2>2 DEF Holds
  <2>3. CASE ApprovalRow(e) \in R
    BY <1>1, <2>3, ResourcesDiffer
  <2> QED  BY <2>1, <2>2, <2>3
<1>5. ASSUME NEW t \in Tenants, NEW k \in Keys, holder'[KeyLock(t, k)] = p
      PROVE  pc'[p] \in {"lookup", "insert", "commit"}
  <2>1. holder[KeyLock(t, k)] = p \/ KeyLock(t, k) \in R
    BY <1>2, <1>5, ResourceNames
  <2>2. CASE holder[KeyLock(t, k)] = p
    BY <1>1, <2>2 DEF Holds
  <2>3. CASE KeyLock(t, k) \in R
    BY <1>1, <2>3, ResourcesDiffer
  <2> QED  BY <2>1, <2>2, <2>3
<1> QED  BY <1>3, <1>4, <1>5, TakesTouches DEF Holds

LEMMA ClientHolds ==
  ASSUME IInv, NEW p \in Clients, Holds(p), Call(p) \/ ClientStep(p)
  PROVE  Holds(p)' /\ Touches(p)
<1> USE DEF Processes
<1>0. TypeInv /\ pc[p] # "sweep"
  BY DEF IInv, TypeInv, CallFits, PcOfClient
<1>1. CASE EndTransaction(p)
  BY <1>0, <1>1, EndHolds
<1>2. ASSUME NEW c \in Calls, StartTenant(p, c) PROVE Holds(p)' /\ Touches(p)
  <2>1. /\ pc[p] = "idle" /\ c.tenant \in Tenants
        /\ holder' = holder \/ Acquire(p, TenantRow(c.tenant))
    BY <1>2, CallKinds DEF StartTenant
  <2>2. Takes(p, {TenantRow(c.tenant)})
    BY <1>0, <2>1, AcquireTakes, KeepTakes
  <2>3. PICK label \in {"key", "insert"} : pc' = [pc EXCEPT ![p] = label]
    BY <1>2 DEF StartTenant, Goto
  <2> QED  BY <1>0, <2>1, <2>2, <2>3, TakingHolds
<1>3. ASSUME NEW c \in Calls, DecideBegin(p, c) \/ TransitionBegin(p, c) \/ FailBegin(p, c)
      PROVE  Holds(p)' /\ Touches(p)
  <2>1. PICK label \in {"ticket", "read"} : LockExecution(p, c, label)
    BY <1>3 DEF DecideBegin, TransitionBegin, FailBegin
  <2>2. /\ pc[p] = "idle" /\ c.execution \in Executions
        /\ Acquire(p, ExecutionRow(c.execution)) /\ pc' = [pc EXCEPT ![p] = label]
    BY <2>1, CallKinds DEF LockExecution, Goto
  <2>3. Takes(p, {ExecutionRow(c.execution)})
    BY <1>0, <2>2, AcquireTakes
  <2> QED  BY <1>0, <2>2, <2>3, TakingHolds
<1>4. CASE StartLockKey(p)
  <2>1. /\ pc[p] = "key" /\ call[p].tenant \in Tenants /\ call[p].key \in Keys
        /\ Acquire(p, KeyLock(call[p].tenant, call[p].key)) /\ pc' = [pc EXCEPT ![p] = "lookup"]
    BY <1>4, CallKinds DEF StartLockKey, Goto, IInv, CallFits
  <2>2. Takes(p, {KeyLock(call[p].tenant, call[p].key)})
    BY <1>0, <2>1, AcquireTakes
  <2> QED  BY <1>0, <2>1, <2>2, TakingHolds
<1>5. CASE StartLookup(p)
  <2>1. CASE pc' = [pc EXCEPT ![p] = "insert"] /\ UNCHANGED holder
    <3>1. pc[p] = "lookup"
      BY <1>5, <2>1 DEF StartLookup
    <3>2. Takes(p, {})
      BY <2>1, KeepTakes
    <3> QED  BY <1>0, <2>1, <3>1, <3>2, TakingHolds
  <2> QED  BY <1>1, <1>5, <2>1 DEF StartLookup, Goto, Rollback
<1>6. CASE StartInsert(p)
  <2>1. CASE Acquire(p, ExecutionRow(call[p].execution)) /\ Goto(p, "commit")
    <3>1. pc[p] = "insert" /\ call[p].execution \in Executions /\ pc' = [pc EXCEPT ![p] = "commit"]
      BY <1>6, <2>1, CallKinds DEF StartInsert, Goto, IInv, CallFits
    <3>2. Takes(p, {ExecutionRow(call[p].execution)})
      BY <1>0, <2>1, AcquireTakes
    <3> QED  BY <1>0, <3>1, <3>2, TakingHolds
  <2> QED  BY <1>1, <1>6, <2>1 DEF StartInsert, Rollback
<1>7. CASE DecideLockTicket(p)
  <2>1. CASE Acquire(p, ApprovalRow(call[p].ticket)) /\ Goto(p, "verdict")
    <3>1. pc[p] = "ticket" /\ call[p].ticket \in Executions /\ pc' = [pc EXCEPT ![p] = "verdict"]
      BY <1>7, <2>1, CallKinds DEF DecideLockTicket, Goto, IInv, CallFits
    <3>2. Takes(p, {ApprovalRow(call[p].ticket)})
      BY <1>0, <2>1, AcquireTakes
    <3> QED  BY <1>0, <3>1, <3>2, TakingHolds
  <2> QED  BY <1>1, <1>7, <2>1 DEF DecideLockTicket, Rollback
<1>8. CASE DecideVerdict(p)
  <2>1. CASE pc' = [pc EXCEPT ![p] = "read"] /\ UNCHANGED holder
    <3>1. pc[p] = "verdict"
      BY <1>8, <2>1 DEF DecideVerdict
    <3>2. Takes(p, {})
      BY <2>1, KeepTakes
    <3> QED  BY <1>0, <2>1, <3>1, <3>2, TakingHolds
  <2> QED  BY <1>1, <1>8, <2>1 DEF DecideVerdict, Goto, Rollback
<1>9. CASE ReadSequence(p)
  <2>1. pc[p] = "read" /\ UNCHANGED holder /\ pc' = [pc EXCEPT ![p] = "commit"]
    BY <1>9 DEF ReadSequence, Goto
  <2>2. Takes(p, {})
    BY <2>1, KeepTakes
  <2> QED  BY <1>0, <2>1, <2>2, TakingHolds
<1>10. CASE StartCommit(p) \/ DecideCommit(p) \/ StatusCommit(p)
  BY <1>1, <1>10 DEF StartCommit, DecideCommit, StatusCommit, Rollback
<1> QED
  BY <1>2, <1>3, <1>4, <1>5, <1>6, <1>7, <1>8, <1>9, <1>10 DEF Call, ClientStep

LEMMA SweeperHolds ==
  ASSUME IInv, NEW p \in Sweepers, Holds(p), SweeperStep(p)
  PROVE  Holds(p)' /\ Touches(p)
<1> USE DEF Processes
<1>0. TypeInv /\ pc[p] \in {"idle", "sweep"}
  BY DEF IInv, TypeInv, CallFits, PcOfSweeper
<1>1. sweep \in [Processes -> [todo : SUBSET Executions, claimed : SUBSET Executions,
                               marked : SUBSET Executions]]
  BY <1>0 DEF TypeInv, TypeOK
<1>2. CASE SweepCommit(p)
  BY <1>0, <1>2, EndHolds DEF SweepCommit
<1>3. CASE SweepBegin(p)
  <2>1. pc[p] = "idle" /\ UNCHANGED holder
    BY <1>3 DEF SweepBegin
  <2>2. \A r \in Resources : holder'[r] = holder[r]
    BY <2>1
  <2> QED  BY <2>1, <2>2, ResourceNames DEF Holds, Touches
<1>4. CASE SweepClaim(p)
  <2>1. PICK e \in sweep[p].todo :
          /\ Acquire(p, ExecutionRow(e))
          /\ sweep' = [sweep EXCEPT ![p].todo = @ \ {e}, ![p].claimed = @ \cup {e}]
    BY <1>4 DEF SweepClaim, SweepLocks
  <2>2. pc[p] = "sweep" /\ pc' = pc
    BY <1>4 DEF SweepClaim
  <2>3. sweep'[p].claimed = sweep[p].claimed \cup {e} /\ sweep'[p].marked = sweep[p].marked
    BY <1>1, <2>1
  <2>4. Takes(p, {ExecutionRow(e)})
    BY <1>0, <2>1, AcquireTakes
  <2>5. \A x \in Resources : holder'[x] = p => holder[x] = p \/ x = ExecutionRow(e)
    BY <2>4 DEF Takes
  <2>6. Holds(p)'
    BY <2>2, <2>3, <2>5, ResourceNames, ResourcesDiffer DEF Holds
  <2> QED  BY <2>4, <2>6, TakesTouches
<1>5. CASE SweepSkip(p)
  <2>1. PICK e \in sweep[p].todo : sweep' = [sweep EXCEPT ![p].todo = @ \ {e}]
    BY <1>5 DEF SweepSkip
  <2>2. pc' = pc /\ holder' = holder
    BY <1>5 DEF SweepSkip
  <2>3. sweep'[p].claimed = sweep[p].claimed /\ sweep'[p].marked = sweep[p].marked
    BY <1>1, <2>1
  <2> QED  BY <2>2, <2>3 DEF Holds, Touches
<1>6. CASE SweepMark(p)
  <2>1. PICK e \in sweep[p].claimed :
          /\ Acquire(p, ApprovalRow(e))
          /\ sweep' = [sweep EXCEPT ![p].marked = @ \cup {e}]
    BY <1>6 DEF SweepMark, SweepLocks
  <2>2. pc[p] = "sweep" /\ pc' = pc
    BY <1>6 DEF SweepMark
  <2>3. sweep'[p].claimed = sweep[p].claimed /\ sweep'[p].marked = sweep[p].marked \cup {e}
    BY <1>1, <2>1
  <2>4. Takes(p, {ApprovalRow(e)})
    BY <1>0, <2>1, AcquireTakes
  <2>5. \A x \in Resources : holder'[x] = p => holder[x] = p \/ x = ApprovalRow(e)
    BY <2>4 DEF Takes
  <2>6. Holds(p)'
    BY <2>2, <2>3, <2>5, ResourceNames, ResourcesDiffer DEF Holds
  <2> QED  BY <2>4, <2>6, TakesTouches
<1> QED  BY <1>2, <1>3, <1>4, <1>5, <1>6 DEF SweeperStep

LEMMA LockInvInit == Init => LockInv
<1> SUFFICES ASSUME Init, NEW p \in Processes PROVE Holds(p)
  BY IInvInit DEF LockInv
<1>1. \A r \in Resources : holder[r] # p
  BY ProcessesAssumption DEF Init
<1> QED  BY <1>1, ResourceNames DEF Holds

(* What others do to locks takes nothing to q. *)
LEMMA OthersHold ==
  ASSUME NEW p \in Processes, NEW q \in Processes \ {p}, Holds(q), Stays(q), Touches(p)
  PROVE  Holds(q)'
<1>1. \A r \in Resources : holder'[r] = q => holder[r] = q
  BY ProcessesAssumption DEF Touches
<1> QED  BY <1>1, ResourceNames DEF Holds, Stays

LEMMA LockInvNext == LockInv /\ [Next]_vars => LockInv'
<1> SUFFICES ASSUME LockInv, [Next]_vars, NEW q \in Processes PROVE Holds(q)'
  BY IInvNext DEF LockInv
<1>0. TypeInv /\ IInv /\ \A p \in Processes : Holds(p)
  BY DEF LockInv, IInv, TypeInv
<1>1. ASSUME NEW p \in Clients, Call(p) \/ ClientStep(p) PROVE Holds(q)'
  BY <1>0, <1>1, ClientHolds, ClientsMove, OthersHold DEF Processes
<1>2. ASSUME NEW p \in Sweepers, SweeperStep(p) PROVE Holds(q)'
  BY <1>0, <1>2, SweeperHolds, SweepersMove, OthersHold DEF Processes
<1>3. ASSUME NEW p \in Processes, Abort(p) PROVE Holds(q)'
  BY <1>0, <1>3, EndHolds, EndMoves, OthersHold DEF Abort, Rollback
<1>4. ASSUME UNCHANGED <<holder, local>> PROVE Holds(q)'
  BY <1>0, <1>4 DEF Holds, local
<1> QED  BY <1>1, <1>2, <1>3, <1>4 DEF Next, TimePasses, vars

(* Transactions that wait for nobody. *)
Running(p) == pc[p] \notin {"key", "insert", "ticket", "sweep"}

(* Each kind of wait is only for connections further along: a start that   *)
(* waits for its key waits for a start past it, that for starts, deciders  *)
(* and sweeps, a decider for deciders and sweeps, and a sweep for deciders *)
(* that wait for nobody, since it claims executions before approvals.      *)
LEMMA WaitsAscend ==
  ASSUME LockInv, NEW p \in Processes, NEW q \in Processes, Blocks(q, p)
  PROVE  \/ pc[p] = "key" /\ (Running(q) \/ pc[q] = "insert")
         \/ pc[p] = "insert" /\ (Running(q) \/ pc[q] \in {"ticket", "sweep"})
         \/ pc[p] = "ticket" /\ (Running(q) \/ pc[q] = "sweep")
         \/ pc[p] = "sweep" /\ Running(q)
<1>0. IInv /\ Holds(q)
  BY DEF LockInv
<1>1. PICK r \in MayRequest(p) : holder[r] = q
  BY DEF Blocks
<1>2. CASE pc[p] = "key"
  <2>1. r = KeyLock(call[p].tenant, call[p].key)
    BY <1>1, <1>2 DEF MayRequest
  <2>2. call[p].tenant \in Tenants /\ call[p].key \in Keys
    BY <1>0, <1>2, CallKinds, ProcessesAssumption DEF IInv, CallFits, Processes, PcOfSweeper
  <2> QED  BY <1>0, <1>1, <1>2, <2>1, <2>2 DEF Holds, Running
<1>3. CASE pc[p] = "insert"
  <2>1. r = ExecutionRow(call[p].execution)
    BY <1>1, <1>3 DEF MayRequest
  <2>2. call[p].execution \in Executions
    BY <1>0, <1>3, CallKinds, ProcessesAssumption DEF IInv, CallFits, Processes, PcOfSweeper
  <2> QED  BY <1>0, <1>1, <1>3, <2>1, <2>2 DEF Holds, Running
<1>4. CASE pc[p] = "ticket"
  <2>1. r = ApprovalRow(call[p].ticket)
    BY <1>1, <1>4 DEF MayRequest
  <2>2. call[p].ticket \in Executions
    BY <1>0, <1>4, CallKinds, ProcessesAssumption DEF IInv, CallFits, Processes, PcOfSweeper
  <2> QED  BY <1>0, <1>1, <1>4, <2>1, <2>2 DEF Holds, Running
<1>5. CASE pc[p] = "sweep"
  <2>1. PICK e \in sweep[p].claimed \ sweep[p].marked : r = ApprovalRow(e)
    BY <1>1, <1>5 DEF MayRequest, SweepLocks
  <2>2. e \in Executions
    BY <1>0, <2>1 DEF IInv, TypeOK
  <2>3. \A s \in Processes : pc[s] = "sweep" => s \in Sweepers
    BY <1>0 DEF IInv, CallFits, PcOfClient, Processes
  <2>4. ASSUME pc[q] = "sweep" PROVE FALSE
    <3>1. e \in sweep[q].marked
      BY <1>0, <1>1, <2>1, <2>2, <2>4 DEF Holds
    <3>2. holder[ExecutionRow(e)] = q
      BY <1>0, <2>3, <2>4, <3>1 DEF IInv, LocksHeld, SweeperLocks
    <3>3. holder[ExecutionRow(e)] = p
      BY <1>0, <1>5, <2>1, <2>3 DEF IInv, LocksHeld, SweeperLocks
    <3> QED  BY <2>1, <3>1, <3>2, <3>3
  <2> QED  BY <1>0, <1>1, <1>5, <2>1, <2>2, <2>4 DEF Holds, Running
<1> QED  BY <1>1, <1>2, <1>3, <1>4, <1>5, Zenon DEF MayRequest

(* No set of transactions, of whatever size, waits for itself. *)
THEOREM NoDeadlockTheorem == Spec => []NoDeadlock
<1>1. ASSUME LockInv PROVE NoDeadlock
  <2> SUFFICES ASSUME NEW S \in (SUBSET Processes) \ {{}}
               PROVE  \E p \in S : \A q \in S : ~Blocks(q, p)
    BY DEF NoDeadlock
  <2>0. S \subseteq Processes
    OBVIOUS
  <2>1. ASSUME NEW p \in S, NEW q \in S, Blocks(q, p)
        PROVE  \/ pc[p] = "key" /\ (Running(q) \/ pc[q] = "insert")
               \/ pc[p] = "insert" /\ (Running(q) \/ pc[q] \in {"ticket", "sweep"})
               \/ pc[p] = "ticket" /\ (Running(q) \/ pc[q] = "sweep")
               \/ pc[p] = "sweep" /\ Running(q)
    BY <1>1, <2>0, <2>1, WaitsAscend
  <2>2. CASE \E p \in S : Running(p)
    BY <2>1, <2>2 DEF Running
  <2>3. CASE (\A q \in S : ~Running(q)) /\ \E p \in S : pc[p] = "sweep"
    BY <2>1, <2>3
  <2>4. CASE (\A q \in S : ~Running(q) /\ pc[q] # "sweep") /\ \E p \in S : pc[p] = "ticket"
    BY <2>1, <2>4
  <2>5. CASE (\A q \in S : ~Running(q) /\ pc[q] \notin {"sweep", "ticket"}) /\ \E p \in S : pc[p] = "insert"
    BY <2>1, <2>5
  <2>6. CASE \A q \in S : pc[q] = "key"
    <3>1. PICK p \in S : TRUE
      OBVIOUS
    <3>2. \A q \in S : ~Blocks(q, p)
      BY <2>1, <2>6 DEF Running
    <3> QED  BY <3>2
  <2>7. \A q \in S : \/ Running(q) \/ pc[q] = "sweep" \/ pc[q] = "ticket"
                     \/ pc[q] = "insert" \/ pc[q] = "key"
    BY DEF Running
  <2> QED  BY <2>2, <2>3, <2>4, <2>5, <2>6, <2>7
<1> QED  BY <1>1, LockInvInit, LockInvNext, PTL DEF Spec

-----------------------------------------------------------------------------
(* The approval gate.  Stage says what the rows of an execution look like  *)
(* before it starts, when it never met a gate, at its gate and past it;    *)
(* Deciding and Sweeping what a connection about to settle an approval     *)
(* still knows of it.                                                      *)

Unstarted(e) ==
  events[e] = <<>> /\ audit[e] = <<>> /\ approval[e] = None /\ e \notin dispatches

NeverGated(e) ==
  /\ events[e] # <<>> /\ events[e][1] # "APPROVAL"
  /\ audit[e] = <<"POLICY_CHECK">> /\ approval[e] = None
  /\ e \in dispatches <=> events[e][1] = "INTAKE"

AtGate(e) ==
  /\ events[e] = <<"APPROVAL">> /\ approval[e] = "PENDING"
  /\ audit[e] = <<"POLICY_CHECK">> /\ e \notin dispatches

Undecided(e) == audit[e] = <<"POLICY_CHECK">> /\ e \notin dispatches
Approved(e)  == /\ audit[e] = <<"POLICY_CHECK", "APPROVED">>
                /\ events[e][2] = "EXECUTION" /\ e \in dispatches
Refused(e)   == /\ audit[e] \in {<<"POLICY_CHECK", "REJECTED">>, <<"POLICY_CHECK", "EXPIRED">>}
                /\ status[e] = "REJECTED" /\ e \notin dispatches

PastGate(e) ==
  /\ Len(events[e]) > 1 /\ events[e][1] = "APPROVAL"
  /\ status[e] \in AfterGate /\ approval[e] # None
  /\ Undecided(e) \/ Approved(e) \/ Refused(e)

Stage(e) == Unstarted(e) \/ NeverGated(e) \/ AtGate(e) \/ PastGate(e)

Deciding(p) ==
  pc[p] \in {"read", "commit"} /\ call[p] \in DecideCalls =>
    status[call[p].execution] = "APPROVAL" /\ approval[call[p].execution] # None

Sweeping(p) == \A e \in sweep[p].todo \cup sweep[p].claimed : approval[e] # None

GateInv == /\ IInv
           /\ \A e \in Executions : Stage(e)
           /\ \A p \in Clients : Deciding(p)
           /\ \A p \in Sweepers : Sweeping(p)

(* What a step does to the rows of one execution. *)
Same(e) == /\ status'[e] = status[e] /\ events'[e] = events[e] /\ approval'[e] = approval[e]
           /\ audit'[e] = audit[e] /\ (e \in dispatches' <=> e \in dispatches)

Starts(e, d) ==
  /\ status[e] = None /\ d \in Decisions
  /\ status'[e] = StartStatus(d) /\ events'[e] = <<StartStatus(d)>>
  /\ approval'[e] = IF d = "GATED" THEN "PENDING" ELSE approval[e]
  /\ audit'[e] = Append(audit[e], "POLICY_CHECK")
  /\ e \in dispatches' <=> e \in dispatches \/ d = "OPEN"

Settles(e, verdict) ==
  /\ AtGate(e) /\ verdict \in {"APPROVED", "REJECTED", "EXPIRED"}
  /\ status'[e] = IF verdict = "APPROVED" THEN "EXECUTION" ELSE "REJECTED"
  /\ events'[e] = Append(events[e], status'[e])
  /\ approval'[e] = verdict /\ audit'[e] = Append(audit[e], verdict)
  /\ e \in dispatches' <=> verdict = "APPROVED"

GoesOn(e, s) ==
  /\ status[e] # None /\ s \in ExecutionStatus /\ CanTransition(status[e], s)
  /\ status'[e] = s /\ events'[e] = Append(events[e], s)
  /\ approval'[e] = approval[e] /\ audit'[e] = audit[e]
  /\ e \in dispatches' <=> e \in dispatches

(* The sweep marks an approval whose execution has left the gate. *)
Lapses(e) ==
  /\ status[e] # "APPROVAL" /\ approval[e] # None /\ approval'[e] = "EXPIRED"
  /\ status'[e] = status[e] /\ events'[e] = events[e] /\ audit'[e] = audit[e]
  /\ e \in dispatches' <=> e \in dispatches

GateStep(e) ==
  \/ Same(e) \/ Lapses(e)
  \/ \E d \in Decisions : Starts(e, d)
  \/ \E verdict \in {"APPROVED", "REJECTED", "EXPIRED"} : Settles(e, verdict)
  \/ \E s \in ExecutionStatus : GoesOn(e, s)

LEMMA WaitingAtGate ==
  ASSUME GateInv, NEW e \in Executions, status[e] = "APPROVAL", approval[e] # None
  PROVE  AtGate(e)
<1>1. Stage(e)
  BY DEF GateInv
<1>2. "APPROVAL" \notin AfterGate
  BY DEF AfterGate
<1> QED  BY <1>1, <1>2 DEF Stage, Unstarted, NeverGated, PastGate

(* start() commits: only its execution changes. *)
LEMMA StartSteps ==
  ASSUME GateInv, NEW p \in Clients, StartCommit(p), ~Rollback(p), NEW e \in Executions
  PROVE  GateStep(e)
<1> DEFINE x == call[p].execution
           d == call[p].decision
<1>1. call[p] \in StartCalls /\ x \in Executions /\ d \in Decisions
  BY CallKinds DEF StartCommit, GateInv, IInv, CallFits
<1>2. status[x] = None
  BY <1>1 DEF StartCommit, GateInv, IInv, GuardsStayTrue, GuardTrue
<1>3. /\ status' = [status EXCEPT ![x] = StartStatus(d)]
      /\ events' = [events EXCEPT ![x] = <<StartStatus(d)>>]
      /\ approval' = IF d = "GATED" THEN [approval EXCEPT ![x] = "PENDING"] ELSE approval
      /\ dispatches' = IF d = "OPEN" THEN dispatches \cup {x} ELSE dispatches
      /\ audit' = [audit EXCEPT ![x] = Append(audit[x], "POLICY_CHECK")]
  BY DEF StartCommit, Ungated
<1>4. TypeOK
  BY DEF GateInv, IInv
<1>5. CASE e = x
  <2>1. status'[e] = StartStatus(d) /\ events'[e] = <<StartStatus(d)>>
    BY <1>1, <1>3, <1>4, <1>5 DEF TypeOK
  <2>2. /\ approval'[e] = IF d = "GATED" THEN "PENDING" ELSE approval[e]
        /\ audit'[e] = Append(audit[e], "POLICY_CHECK")
    BY <1>1, <1>3, <1>4, <1>5 DEF TypeOK
  <2>3. e \in dispatches' <=> e \in dispatches \/ d = "OPEN"
    BY <1>3, <1>5
  <2>4. Starts(e, d)
    BY <1>1, <1>2, <1>5, <2>1, <2>2, <2>3 DEF Starts
  <2> QED  BY <1>1, <2>4 DEF GateStep
<1>6. CASE e # x
  <2>1. Same(e)
    BY <1>1, <1>3, <1>4, <1>6 DEF TypeOK, Same
  <2> QED  BY <2>1 DEF GateStep
<1> QED  BY <1>5, <1>6

(* decideApproval() commits its verdict on an execution at its gate. *)
LEMMA DecideSteps ==
  ASSUME GateInv, NEW p \in Clients, DecideCommit(p), SequenceFree(p), NEW e \in Executions
  PROVE  GateStep(e)
<1> DEFINE x == call[p].execution
           v == outcome[p]
<1>0. TypeOK /\ p \in Processes
  BY DEF GateInv, IInv, Processes
<1>1. call[p] \in DecideCalls /\ x \in Executions /\ pc[p] = "commit" /\ call[p].op = "decide"
  BY CallKinds DEF DecideCommit, GateInv, IInv, CallFits
<1>2. call[p].ticket = x
  BY <1>1 DEF GateInv, IInv, LocksHeld, ClientLocks
<1>3. v \in {"APPROVED", "REJECTED", "EXPIRED"}
  BY <1>0, <1>1 DEF GateInv, IInv, CallFits, TypeOK, Verdicts
<1>4. AtGate(x)
  BY <1>1, WaitingAtGate DEF GateInv, Deciding
<1>5. Target(p) = IF v = "APPROVED" THEN "EXECUTION" ELSE "REJECTED"
  BY <1>1 DEF Target, Approves
<1>6. /\ status' = [status EXCEPT ![x] = Target(p)]
      /\ events' = [events EXCEPT ![x] = Append(events[x], Target(p))]
      /\ approval' = [approval EXCEPT ![x] = v]
      /\ dispatches' = IF v = "APPROVED" THEN dispatches \cup {x} ELSE dispatches
      /\ audit' = [audit EXCEPT ![x] = Append(audit[x], v)]
  BY <1>2 DEF DecideCommit, WriteStatus, Approves
<1>7. CASE e = x
  <2>1. status'[e] = Target(p) /\ events'[e] = Append(events[e], Target(p))
    BY <1>0, <1>1, <1>6, <1>7 DEF TypeOK
  <2>2. approval'[e] = v /\ audit'[e] = Append(audit[e], v)
    BY <1>0, <1>1, <1>6, <1>7 DEF TypeOK
  <2>3. e \in dispatches' <=> v = "APPROVED"
    BY <1>4, <1>6, <1>7 DEF AtGate
  <2>4. Settles(e, v)
    BY <1>3, <1>4, <1>5, <1>7, <2>1, <2>2, <2>3 DEF Settles
  <2> QED  BY <1>3, <2>4 DEF GateStep
<1>8. CASE e # x
  <2>1. Same(e)
    BY <1>0, <1>1, <1>6, <1>8 DEF TypeOK, Same
  <2> QED  BY <2>1 DEF GateStep
<1> QED  BY <1>7, <1>8

(* transition() and fail() commit a step of the table. *)
LEMMA StatusSteps ==
  ASSUME GateInv, NEW p \in Clients, StatusCommit(p), SequenceFree(p), NEW e \in Executions
  PROVE  GateStep(e)
<1> DEFINE x == call[p].execution
           s == Target(p)
<1>0. TypeOK /\ p \in Processes
  BY DEF GateInv, IInv, Processes
<1>1. /\ call[p] \in Calls /\ x \in Executions /\ pc[p] = "commit"
      /\ call[p].op # "start"
  BY CallKinds DEF StatusCommit, GateInv, IInv, CallFits
<1>2. status[x] # None /\ CanTransition(status[x], s) /\ s \in ExecutionStatus
  BY <1>1, TargetType DEF GateInv, IInv, ReadsStayValid, ReadsValid
<1>3. /\ status' = [status EXCEPT ![x] = s]
      /\ events' = [events EXCEPT ![x] = Append(events[x], s)]
      /\ UNCHANGED <<approval, dispatches, audit>>
  BY DEF StatusCommit, WriteStatus
<1>4. CASE e = x
  <2>1. status'[e] = s /\ events'[e] = Append(events[e], s)
    BY <1>0, <1>1, <1>3, <1>4 DEF TypeOK
  <2>2. GoesOn(e, s)
    BY <1>2, <1>3, <1>4, <2>1 DEF GoesOn
  <2> QED  BY <1>2, <2>2 DEF GateStep
<1>5. CASE e # x
  <2>1. Same(e)
    BY <1>0, <1>1, <1>3, <1>5 DEF TypeOK, Same
  <2> QED  BY <2>1 DEF GateStep
<1> QED  BY <1>4, <1>5

(* The sweep commits a batch. *)
LEMMA SweepSteps ==
  ASSUME GateInv, NEW p \in Sweepers, SweepCommit(p), NEW e \in Executions
  PROVE  GateStep(e)
<1> DEFINE claimed == sweep[p].claimed
<1>1. /\ status'[e] = IF e \in claimed /\ status[e] = "APPROVAL" THEN "REJECTED" ELSE status[e]
      /\ events'[e] = IF e \in claimed /\ status[e] = "APPROVAL"
                        THEN Append(events[e], "REJECTED") ELSE events[e]
      /\ approval'[e] = IF e \in claimed THEN "EXPIRED" ELSE approval[e]
      /\ audit'[e] = IF e \in claimed /\ status[e] = "APPROVAL"
                       THEN Append(audit[e], "EXPIRED") ELSE audit[e]
      /\ dispatches' = dispatches
  BY DEF SweepCommit, Rejects
<1>2. e \in claimed => approval[e] # None
  BY DEF GateInv, Sweeping
<1>3. CASE e \in claimed /\ status[e] = "APPROVAL"
  <2>1. AtGate(e)
    BY <1>2, <1>3, WaitingAtGate
  <2>2. Settles(e, "EXPIRED")
    BY <1>1, <1>3, <2>1 DEF Settles, AtGate
  <2> QED  BY <2>2 DEF GateStep
<1>4. CASE e \in claimed /\ status[e] # "APPROVAL"
  BY <1>1, <1>2, <1>4 DEF GateStep, Lapses
<1>5. CASE e \notin claimed
  BY <1>1, <1>5 DEF GateStep, Same
<1> QED  BY <1>3, <1>4, <1>5

LEMMA GateSteps ==
  ASSUME GateInv, [Next]_vars, NEW e \in Executions PROVE GateStep(e)
<1>1. CASE UNCHANGED <<status, events, approval, dispatches, audit, idempotency>>
  BY <1>1 DEF GateStep, Same
<1> QED
  BY <1>1, Writers, StartSteps, DecideSteps, StatusSteps, SweepSteps

LEMMA AppendPair ==
  ASSUME NEW x, NEW y PROVE Append(<<x>>, y) = <<x, y>>
<1> DEFINE S == {x, y}
<1>1. <<x, y>> \in Seq(S) /\ Append(<<x>>, y) \in Seq(S)
  OBVIOUS
<1>2. Len(Append(<<x>>, y)) = 2 /\ Append(<<x>>, y)[1] = x /\ Append(<<x>>, y)[2] = y
  OBVIOUS
<1>3. \A i \in 1..2 : Append(<<x>>, y)[i] = <<x, y>>[i]
  BY <1>2
<1> QED  BY <1>1, <1>2, <1>3, SeqEqual

LEMMA StageNext ==
  ASSUME NEW e \in Executions, GateInv, IInv', GateStep(e) PROVE Stage(e)'
<1>0. Stage(e) /\ StatusIsLastEvent /\ events[e] \in Seq(ExecutionStatus)
  BY DEF GateInv, IInv, TypeOK
<1>1. CASE Same(e)
  BY <1>0, <1>1 DEF Same, Stage, Unstarted, NeverGated, AtGate, PastGate, Undecided, Approved, Refused
<1>2. ASSUME NEW d \in Decisions, Starts(e, d) PROVE Stage(e)'
  <2>1. Unstarted(e)
    <3>1. events[e] = <<>>
      <4>1. events[e] # <<>> => events[e][Len(events[e])] \in ExecutionStatus
        BY <1>0
      <4> QED  BY <1>0, <1>2, <4>1, NoneAssumption DEF Starts, StatusIsLastEvent
    <3> QED  BY <1>0, <3>1 DEF Stage, NeverGated, AtGate, PastGate
  <2>2. audit'[e] = <<"POLICY_CHECK">>
    BY <1>2, <2>1 DEF Starts, Unstarted
  <2>3. CASE d = "GATED"
    <3>1. AtGate(e)'
      BY <1>2, <2>1, <2>2, <2>3 DEF Starts, Unstarted, AtGate, StartStatus
    <3> QED  BY <3>1 DEF Stage
  <2>4. CASE d # "GATED"
    <3>1. NeverGated(e)'
      BY <1>2, <2>1, <2>2, <2>4 DEF Starts, Unstarted, NeverGated, StartStatus, Decisions
    <3> QED  BY <3>1 DEF Stage
  <2> QED  BY <2>3, <2>4
<1>3. ASSUME NEW verdict \in {"APPROVED", "REJECTED", "EXPIRED"}, Settles(e, verdict)
      PROVE  Stage(e)'
  <2>1. events[e] = <<"APPROVAL">> /\ audit[e] = <<"POLICY_CHECK">>
    BY <1>3 DEF Settles, AtGate
  <2>2. events'[e] = <<"APPROVAL", status'[e]>> /\ audit'[e] = <<"POLICY_CHECK", verdict>>
    <3>1. /\ Append(<<"APPROVAL">>, status'[e]) = <<"APPROVAL", status'[e]>>
          /\ Append(<<"POLICY_CHECK">>, verdict) = <<"POLICY_CHECK", verdict>>
      BY AppendPair
    <3>2. events'[e] = Append(events[e], status'[e]) /\ audit'[e] = Append(audit[e], verdict)
      BY <1>3 DEF Settles
    <3> QED  BY <2>1, <3>1, <3>2
  <2>3. /\ status'[e] = IF verdict = "APPROVED" THEN "EXECUTION" ELSE "REJECTED"
        /\ approval'[e] = verdict
        /\ e \in dispatches' <=> verdict = "APPROVED"
    BY <1>3 DEF Settles
  <2>4. Len(events'[e]) > 1 /\ events'[e][1] = "APPROVAL" /\ events'[e][2] = status'[e]
    BY <2>2
  <2>5. status'[e] \in AfterGate /\ approval'[e] # None
    BY <2>3, NoneAssumption DEF AfterGate, ApprovalStatus, Verdicts
  <2>6. Approved(e)' \/ Refused(e)'
    BY <2>2, <2>3, <2>4 DEF Approved, Refused
  <2> QED  BY <2>4, <2>5, <2>6 DEF Stage, PastGate
<1>4. ASSUME NEW s \in ExecutionStatus, GoesOn(e, s) PROVE Stage(e)'
  <2>0. /\ events'[e] = Append(events[e], s) /\ status'[e] = s /\ CanTransition(status[e], s)
        /\ approval'[e] = approval[e] /\ audit'[e] = audit[e]
        /\ e \in dispatches' <=> e \in dispatches
    BY <1>4 DEF GoesOn
  <2>1. events[e] # <<>> /\ status[e] = events[e][Len(events[e])]
    BY <1>0, <1>4 DEF GoesOn, StatusIsLastEvent
  <2>2. /\ Len(events'[e]) > 1 /\ events'[e] # <<>> /\ events'[e][1] = events[e][1]
        /\ Len(events[e]) > 1 => events'[e][2] = events[e][2]
    BY <1>0, <2>0, <2>1
  <2>3. CASE NeverGated(e)
    BY <2>0, <2>2, <2>3 DEF NeverGated, Stage
  <2>4. CASE AtGate(e)
    <3>1. status[e] = "APPROVAL"
      BY <2>1, <2>4 DEF AtGate
    <3>2. s \in AfterGate
      BY <2>0, <3>1, GateTable DEF CanTransition
    <3>3. events'[e][1] = "APPROVAL" /\ approval'[e] # None /\ Undecided(e)'
      BY <2>0, <2>2, <2>4, NoneAssumption DEF AtGate, Undecided, ApprovalStatus
    <3> QED  BY <2>0, <2>2, <3>2, <3>3 DEF Stage, PastGate
  <2>5. CASE PastGate(e)
    <3>1. s \in AfterGate
      BY <2>0, <2>5, GateTable DEF CanTransition, PastGate
    <3>2. ~Refused(e)
      BY <2>0, TransitionsFacts DEF Refused, CanTransition
    <3>3. Undecided(e)' \/ Approved(e)'
      BY <2>0, <2>2, <2>5, <3>2 DEF PastGate, Undecided, Approved
    <3> QED  BY <2>0, <2>2, <2>5, <3>1, <3>3 DEF Stage, PastGate
  <2> QED  BY <1>0, <2>1, <2>3, <2>4, <2>5 DEF Stage, Unstarted
<1>5. CASE Lapses(e)
  <2>1. ~AtGate(e) /\ ~Unstarted(e) /\ ~NeverGated(e)
    BY <1>0, <1>5 DEF Lapses, AtGate, Unstarted, NeverGated, StatusIsLastEvent
  <2>2. PastGate(e)'
    BY <1>0, <1>5, <2>1, NoneAssumption
    DEF Lapses, Stage, PastGate, Undecided, Approved, Refused, ApprovalStatus
  <2> QED  BY <2>2 DEF Stage
<1> QED  BY <1>1, <1>2, <1>3, <1>4, <1>5 DEF GateStep

(* An approval row, once there, stays. *)
LEMMA ApprovalStays ==
  ASSUME GateInv, [Next]_vars, NEW e \in Executions, approval[e] # None
  PROVE  approval'[e] # None
<1>1. "PENDING" # None /\ "EXPIRED" # None /\ "APPROVED" # None /\ "REJECTED" # None
  BY NoneAssumption DEF ApprovalStatus, Verdicts
<1>2. GateStep(e)
  BY GateSteps
<1> QED
  BY <1>1, <1>2 DEF GateStep, Same, Lapses, Starts, Settles, GoesOn

(* A status changes only when the transaction that locks its row commits.  *)
LEMMA WritesUnderLock ==
  ASSUME IInv, [Next]_vars, NEW e \in Executions, status'[e] # status[e],
         NEW q \in Processes, holder[ExecutionRow(e)] = q
  PROVE  pc'[q] = "idle"
<1>0. TypeInv
  BY DEF IInv, TypeInv
<1>1. ASSUME NEW p \in Processes, EndTransaction(p) PROVE pc'[p] = "idle"
  BY <1>0, <1>1 DEF TypeInv, TypeOK, EndTransaction
<1>2. ASSUME NEW p \in Clients, EndTransaction(p), pc[p] = "commit",
             NEW s, status' = [status EXCEPT ![call[p].execution] = s]
      PROVE  pc'[q] = "idle"
  <2>1. holder[ExecutionRow(call[p].execution)] = p
    BY <1>2 DEF IInv, LocksHeld, ClientLocks
  <2>2. e = call[p].execution
    BY <1>0, <1>2 DEF TypeInv, TypeOK
  <2> QED  BY <1>1, <1>2, <2>1, <2>2 DEF Processes
<1>3. ASSUME NEW p \in Clients,
             \/ StartCommit(p) /\ ~Rollback(p)
             \/ DecideCommit(p) /\ SequenceFree(p)
             \/ StatusCommit(p) /\ SequenceFree(p)
      PROVE  pc'[q] = "idle"
  BY <1>2, <1>3 DEF StartCommit, DecideCommit, StatusCommit, WriteStatus
<1>4. ASSUME NEW p \in Sweepers, SweepCommit(p) PROVE pc'[q] = "idle"
  <2>1. e \in sweep[p].claimed /\ EndTransaction(p)
    BY <1>4 DEF SweepCommit, Rejects
  <2>2. holder[ExecutionRow(e)] = p
    BY <2>1 DEF IInv, LocksHeld, SweeperLocks
  <2> QED  BY <1>1, <2>1, <2>2 DEF Processes
<1> QED  BY <1>3, <1>4, Writers

LEMMA DecidingNext ==
  ASSUME GateInv, [Next]_vars, NEW p \in Clients PROVE Deciding(p)'
<1> DEFINE e == call[p].execution
<1> SUFFICES ASSUME pc'[p] \in {"read", "commit"}, call'[p] \in DecideCalls
             PROVE  status'[call'[p].execution] = "APPROVAL" /\ approval'[call'[p].execution] # None
  BY DEF Deciding
<1>0. IInv /\ p \in Processes /\ TypeInv
  BY DEF GateInv, Processes, IInv, TypeInv
<1>1. Moves(p)
  BY <1>0, ConnectionsMove
<1>2. /\ call'[p] = call[p]
      /\ \/ pc[p] \in {"read", "commit", "insert"}
         \/ pc[p] = "verdict" /\ ~TicketRefused(call[p])
  BY <1>1 DEF Moves, Stays, Begins, Proceeds
<1>3. pc[p] # "insert" /\ e \in Executions
  BY <1>0, <1>2, CallKinds DEF IInv, CallFits
<1>4. status[e] = "APPROVAL" /\ approval[e] # None
  <2>1. CASE pc[p] \in {"read", "commit"}
    BY <1>2, <2>1 DEF GateInv, Deciding
  <2>2. CASE pc[p] = "verdict"
    BY <1>0, <1>2, <2>2, NoneAssumption
    DEF IInv, GuardsStayTrue, GuardTrue, TicketRefused, ApprovalStatus
  <2> QED  BY <1>2, <1>3, <2>1, <2>2
<1>5. holder[ExecutionRow(e)] = p
  BY <1>0, <1>2, <1>3 DEF IInv, LocksHeld, ClientLocks
<1>6. status'[e] = status[e]
  BY <1>0, <1>3, <1>5, WritesUnderLock
<1>7. approval'[e] # None
  BY <1>3, <1>4, ApprovalStays
<1> QED  BY <1>2, <1>4, <1>6, <1>7

LEMMA SweepingNext ==
  ASSUME GateInv, IInv', [Next]_vars, NEW p \in Sweepers PROVE Sweeping(p)'
<1> SUFFICES ASSUME NEW e \in sweep'[p].todo \cup sweep'[p].claimed PROVE approval'[e] # None
  BY DEF Sweeping
<1>0. p \in Processes /\ TypeInv
  BY DEF Processes, GateInv, IInv, TypeInv
<1>1. e \in Executions
  BY <1>0 DEF IInv, TypeOK
<1>2. Collects(p)
  BY <1>0, ConnectionsMove DEF Moves
<1>3. approval[e] # None
  BY <1>2, NoneAssumption DEF Collects, GateInv, Sweeping, ApprovalStatus
<1> QED  BY <1>1, <1>3, ApprovalStays

LEMMA GateInvInit == Init => GateInv
<1> SUFFICES ASSUME Init PROVE GateInv
  OBVIOUS
<1>1. \A e \in Executions : Stage(e)
  BY DEF Init, Stage, Unstarted
<1>2. (\A p \in Clients : Deciding(p)) /\ (\A p \in Sweepers : Sweeping(p))
  BY DEF Init, Deciding, Sweeping, NoSweep, Processes
<1> QED  BY <1>1, <1>2, IInvInit DEF GateInv

LEMMA GateInvNext == GateInv /\ [Next]_vars => GateInv'
<1> SUFFICES ASSUME GateInv, [Next]_vars PROVE GateInv'
  OBVIOUS
<1>1. IInv'
  BY IInvNext DEF GateInv
<1>2. \A e \in Executions : Stage(e)'
  BY <1>1, GateSteps, StageNext
<1>3. (\A p \in Clients : Deciding(p)') /\ (\A p \in Sweepers : Sweeping(p)')
  BY <1>1, DecidingNext, SweepingNext
<1> QED  BY <1>1, <1>2, <1>3 DEF GateInv

(* What the audit of an execution may be. *)
LEMMA AuditShapes ==
  ASSUME GateInv, NEW e \in Executions
  PROVE  \/ audit[e] = <<>> /\ Entries(e) = {}
         \/ audit[e] = <<"POLICY_CHECK">> /\ Entries(e) = {"POLICY_CHECK"}
         \/ \E v \in {"APPROVED", "REJECTED", "EXPIRED"} :
              audit[e] = <<"POLICY_CHECK", v>> /\ Entries(e) = {"POLICY_CHECK", v}
<1>1. \/ audit[e] = <<>>
      \/ audit[e] = <<"POLICY_CHECK">>
      \/ \E v \in {"APPROVED", "REJECTED", "EXPIRED"} : audit[e] = <<"POLICY_CHECK", v>>
  BY DEF GateInv, Stage, Unstarted, NeverGated, AtGate, PastGate, Undecided, Approved, Refused
<1>2. CASE audit[e] = <<>>
  BY <1>2 DEF Entries
<1>3. CASE audit[e] = <<"POLICY_CHECK">>
  BY <1>3 DEF Entries
<1>4. ASSUME NEW v \in {"APPROVED", "REJECTED", "EXPIRED"}, audit[e] = <<"POLICY_CHECK", v>>
      PROVE  Entries(e) = {"POLICY_CHECK", v}
  <2>1. DOMAIN audit[e] = {1, 2} /\ audit[e][1] = "POLICY_CHECK" /\ audit[e][2] = v
    BY <1>4
  <2> QED  BY <2>1 DEF Entries
<1> QED  BY <1>1, <1>2, <1>3, <1>4

(* For any number of clients, sweepers and executions, work is released    *)
(* exactly when nothing gated it or an approver let it pass.               *)
THEOREM DispatchJustifiedTheorem == Spec => []DispatchJustified
<1>1. ASSUME GateInv, NEW e \in Executions
      PROVE  e \in dispatches <=> \/ events[e] # <<>> /\ events[e][1] = "INTAKE"
                                  \/ "APPROVED" \in Entries(e)
  <2>1. Stage(e)
    BY <1>1 DEF GateInv
  <2>2. "APPROVED" \in Entries(e) <=> audit[e] = <<"POLICY_CHECK", "APPROVED">>
    BY <1>1, AuditShapes
  <2>3. <<"POLICY_CHECK">> # <<"POLICY_CHECK", "APPROVED">> /\ <<>> # <<"POLICY_CHECK", "APPROVED">>
    OBVIOUS
  <2>4. \A v : <<"POLICY_CHECK", v>> = <<"POLICY_CHECK", "APPROVED">> => v = "APPROVED"
    OBVIOUS
  <2>5. CASE PastGate(e)
    <3>1. events[e][1] # "INTAKE"
      BY <2>5 DEF PastGate
    <3> QED  BY <2>2, <2>3, <2>4, <2>5, <3>1 DEF PastGate, Undecided, Approved, Refused
  <2>6. CASE AtGate(e)
    BY <2>2, <2>3, <2>6 DEF AtGate
  <2> QED  BY <2>1, <2>2, <2>3, <2>5, <2>6 DEF Stage, Unstarted, NeverGated
<1>2. GateInv => DispatchJustified
  BY <1>1 DEF DispatchJustified
<1> QED  BY <1>2, GateInvInit, GateInvNext, PTL DEF Spec

(* At most one verdict is recorded for a gate, and the execution went      *)
(* where it says.                                                          *)
THEOREM VerdictHonouredTheorem == Spec => []VerdictHonoured
<1>1. ASSUME GateInv, NEW e \in Executions
      PROVE  /\ Cardinality({i \in DOMAIN audit[e] : audit[e][i] # "POLICY_CHECK"}) <= 1
             /\ "APPROVED" \in Entries(e) => Len(events[e]) > 1 /\ events[e][2] = "EXECUTION"
             /\ Entries(e) \cap {"REJECTED", "EXPIRED"} # {} =>
                  status[e] = "REJECTED" /\ e \notin dispatches
  <2> DEFINE V == {i \in DOMAIN audit[e] : audit[e][i] # "POLICY_CHECK"}
  <2>1. V = {} \/ V = {2}
    <3>1. CASE audit[e] = <<>> \/ audit[e] = <<"POLICY_CHECK">>
      BY <3>1
    <3>2. ASSUME NEW v \in {"APPROVED", "REJECTED", "EXPIRED"}, audit[e] = <<"POLICY_CHECK", v>>
          PROVE  V = {2}
      BY <3>2
    <3> QED  BY <1>1, <3>1, <3>2, AuditShapes
  <2>2. Cardinality(V) <= 1
    <3>1. Cardinality({}) = 0 /\ Cardinality({2}) = 1
      BY FS_EmptySet, FS_Singleton
    <3> QED  BY <2>1, <3>1
  <2>3. ASSUME NEW v \in {"APPROVED", "REJECTED", "EXPIRED"}, v \in Entries(e)
        PROVE  audit[e] = <<"POLICY_CHECK", v>>
    BY <1>1, <2>3, AuditShapes
  <2>4. ASSUME NEW v \in {"APPROVED", "REJECTED", "EXPIRED"}, audit[e] = <<"POLICY_CHECK", v>>
        PROVE  /\ Len(events[e]) > 1
               /\ v = "APPROVED" => events[e][2] = "EXECUTION"
               /\ v # "APPROVED" => status[e] = "REJECTED" /\ e \notin dispatches
    <3>1. audit[e] # <<>> /\ audit[e] # <<"POLICY_CHECK">>
      BY <2>4
    <3>2. PastGate(e) /\ (Approved(e) \/ Refused(e))
      BY <1>1, <3>1 DEF GateInv, Stage, Unstarted, NeverGated, AtGate, PastGate, Undecided
    <3>3. Approved(e) => v = "APPROVED"
      BY <2>4 DEF Approved
    <3>4. Refused(e) => v # "APPROVED"
      BY <2>4 DEF Refused
    <3> QED  BY <3>2, <3>3, <3>4 DEF PastGate, Approved, Refused
  <2> QED  BY <2>2, <2>3, <2>4
<1>2. GateInv => VerdictHonoured
  BY <1>1 DEF VerdictHonoured
<1> QED  BY <1>2, GateInvInit, GateInvNext, PTL DEF Spec

(* An execution that waits at the gate start() gave it can be decided.     *)
THEOREM WaitingIsDecidableTheorem == Spec => []WaitingIsDecidable
<1>1. ASSUME GateInv, NEW e \in Executions, Len(events[e]) = 1, status[e] = "APPROVAL"
      PROVE  approval[e] = "PENDING"
  <2>1. Stage(e) /\ StatusIsLastEvent /\ events[e] # <<>>
    <3>1. events[e] = <<>> => Len(events[e]) = 0
      OBVIOUS
    <3> QED  BY <1>1, <3>1 DEF GateInv, IInv
  <2>2. events[e][1] = "APPROVAL"
    BY <1>1, <2>1 DEF StatusIsLastEvent
  <2> QED  BY <1>1, <2>1, <2>2 DEF Stage, Unstarted, NeverGated, AtGate, PastGate
<1>2. GateInv => WaitingIsDecidable
  BY <1>1 DEF WaitingIsDecidable
<1> QED  BY <1>2, GateInvInit, GateInvNext, PTL DEF Spec

(* The transactions, with their locks, crashes and races, implement the    *)
(* lifecycle the kernel promises: every step starts, advances or leaves    *)
(* each execution, and releases work only where it may.                    *)
THEOREM ImplementsLifecycleTheorem == Spec => ImplementsLifecycle
<1>1. Init => Lifecycle!Init
  BY DEF Init, Lifecycle!Init
<1>2. ASSUME GateInv, GateInv', [Next]_vars
      PROVE  [Lifecycle!Next]_<<events, dispatches>>
  <2>1. events' \in [Executions -> Seq(ExecutionStatus)] /\ dispatches' \in SUBSET Executions
    BY <1>2 DEF GateInv, IInv, TypeOK
  <2>2. ASSUME NEW e \in Executions
        PROVE  Lifecycle!Begin(e) \/ Lifecycle!Advance(e) \/ Lifecycle!Rest(e)
    <3>0. GateStep(e) /\ Stage(e) /\ StatusIsLastEvent /\ events[e] \in Seq(ExecutionStatus)
      BY <1>2, GateSteps DEF GateInv, IInv, TypeOK
    <3>1. CASE Same(e) \/ Lapses(e)
      BY <3>1 DEF Same, Lapses, Lifecycle!Rest
    <3>2. ASSUME NEW d \in Decisions, Starts(e, d) PROVE Lifecycle!Begin(e)
      <4>1. events[e] # <<>> => events[e][Len(events[e])] \in ExecutionStatus
        BY <3>0
      <4>2. events[e] = <<>>
        BY <3>0, <3>2, <4>1, NoneAssumption DEF Starts, StatusIsLastEvent
      <4>3. e \notin dispatches
        BY <3>0, <4>2 DEF Stage, Unstarted, NeverGated, AtGate, PastGate
      <4>4. StartStatus(d) \in StartStatuses /\ (StartStatus(d) = "INTAKE" <=> d = "OPEN")
        BY DEF StartStatus, StartStatuses, Decisions
      <4>5. events'[e] = <<StartStatus(d)>> /\ (e \in dispatches' <=> d = "OPEN")
        BY <3>2, <4>3 DEF Starts
      <4>6. events'[e] = <<"INTAKE">> <=> d = "OPEN"
        BY <4>4, <4>5
      <4> QED  BY <4>2, <4>4, <4>5, <4>6 DEF Lifecycle!Begin, Lifecycle!StartStatuses, StartStatuses
    <3>3. ASSUME NEW s \in ExecutionStatus, events[e] # <<>>, CanTransition(status[e], s),
                 events'[e] = Append(events[e], s),
                 e \in dispatches => e \in dispatches',
                 e \in dispatches' => e \in dispatches \/ (status[e] = "APPROVAL" /\ s = "EXECUTION")
          PROVE  Lifecycle!Advance(e)
      <4>1. events[e][Len(events[e])] = status[e]
        BY <3>0, <3>3 DEF StatusIsLastEvent
      <4>2. Lifecycle!CanTransition(events[e][Len(events[e])], s) /\ s \in Lifecycle!ExecutionStatus
        BY <3>3, <4>1 DEF Lifecycle!CanTransition, CanTransition,
           Lifecycle!transitions, transitions, Lifecycle!ExecutionStatus, ExecutionStatus
      <4> QED  BY <3>3, <4>1, <4>2 DEF Lifecycle!Advance
    <3>4. ASSUME NEW s \in ExecutionStatus, GoesOn(e, s) PROVE Lifecycle!Advance(e)
      <4>1. events[e] # <<>>
        BY <3>0, <3>4 DEF GoesOn, StatusIsLastEvent
      <4> QED  BY <3>3, <3>4, <4>1 DEF GoesOn
    <3>5. ASSUME NEW v \in {"APPROVED", "REJECTED", "EXPIRED"}, Settles(e, v)
          PROVE  Lifecycle!Advance(e)
      <4> DEFINE s == IF v = "APPROVED" THEN "EXECUTION" ELSE "REJECTED"
      <4>1. events[e] = <<"APPROVAL">> /\ e \notin dispatches
        BY <3>5 DEF Settles, AtGate
      <4>2. status[e] = "APPROVAL"
        BY <3>0, <4>1 DEF StatusIsLastEvent
      <4>3. s \in ExecutionStatus /\ CanTransition("APPROVAL", s)
        BY TableFacts DEF ExecutionStatus
      <4>4. events'[e] = Append(events[e], s) /\ (e \in dispatches' <=> v = "APPROVED")
        BY <3>5 DEF Settles
      <4> QED  BY <3>3, <4>1, <4>2, <4>3, <4>4
    <3> QED  BY <3>0, <3>1, <3>2, <3>4, <3>5 DEF GateStep
  <2> QED
    BY <2>1, <2>2 DEF Lifecycle!Next, Lifecycle!ExecutionStatus, ExecutionStatus
<1> QED
  BY <1>1, <1>2, GateInvInit, GateInvNext, PTL
  DEF Spec, ImplementsLifecycle, Lifecycle!Spec, Lifecycle!vars
=============================================================================
