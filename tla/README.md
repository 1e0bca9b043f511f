# Formal models of the LOG_ON execution kernel

This directory holds TLA+ models of the execution kernel in `src/src`, the TLC
configurations that check them on small instances, and proofs, checked by the
TLA+ proof system, that hold for every instance. Paths below are relative to the
repository root; line numbers refer to the commit the models were written from.

## 1. The system

An *execution* is one request of an agent. It is a row with a status, an
append-only log of the statuses it went through, and, depending on policy, an
approval that a human decides and a dispatch row that a publisher turns into a
queue job. PostgreSQL is authoritative; the queue carries execution ids only.

| component | state it keeps | operations | talks to |
| --- | --- | --- | --- |
| state machine (`kernel/state-machine.ts`, `types.ts`) | none | `canTransition`, `assertTransition` | called by every writer of a status |
| PostgreSQL execution service (`kernel/postgres-execution-service.ts`, `postgres-store.ts`, `approvals.ts`) | executions, events, approvals, dispatches, audit, idempotency, tenants | `start`, `decideApproval`, `transition`, `fail`, `expireApprovalsOnce` | shared rows and locks of the database |
| database schema (`db/migrations`) | the tables above, with keys and checks | none | bounds what the service can write |
| in-memory kernel (`kernel/execution-kernel.ts`, `event-log.ts`, `audit.ts`, `evidence.ts`) | event list, audit list, evidence list | `start`, `transition`, `fail` | none (a facade for tests and embedding) |
| dispatch outbox (`queue/execution-outbox-publisher.ts`, store `claimDispatches`, `markDispatch*`) | status, lease and attempts of a dispatch row | claim, enqueue, mark | database, queue |
| queue and worker (`queue/execution-queue.ts`, `execution-worker.ts`, `runtime/controlled-execution-handler.ts`) | BullMQ jobs; none of its own | `enqueue`, job handler | Redis, execution service |
| polling loops (`queue/execution-outbox-dispatcher.ts`, `runtime/approval-expiry-sweeper.ts`) | timer, `running`, `publishing`/`sweeping`, back-off | `start`, `stop`, `runOnce`, `tick` | publisher, execution service |
| runtime (`runtime/execution-runtime.ts`, `runtime/main.ts`) | `started`, `stopping` | `start`, `stop`, shutdown on a signal | all of the loops, queue, pool |
| policy, permissions, registry (`kernel/policy.ts`, `permissions.ts`, `registry.ts`, `schemas.ts`, `canonical-json.ts`) | registry map | decision functions | called by `start` |
| control-plane API (`control-plane/main.ts`, `auth.ts`) | none | list, detail, decide; principal resolution | execution service, database |
| control-plane UI (`apps/control-plane/app/page.tsx`) | selection, detail, list, busy flags | poll, select, approve | API |
| observability, model gateway | none | spans; an interface without implementation | - |

What is hard in it, and what makes it correct:

* *Transactions interleave at READ COMMITTED.* `max(sequence)` is read in one
  statement and used in another; a status is checked in one and overwritten in
  another; the sweep works on a snapshot with `SKIP LOCKED`. Correct when the
  status column is always the last logged event, every log follows the
  transition table, and nothing a transaction read goes stale before COMMIT.
* *A gate has several closers*: approvers, the sweep, a decision that arrives
  after the expiry, `fail()`. Correct when at most one verdict is recorded, the
  execution goes where the verdict says, work is released iff the gate allowed
  it, and an execution that waits at the gate `start()` gave it can always still be
  decided and does not wait for ever. The gates that `transition()` reaches have no
  approval and are another matter (section 6).
* *Clients retry*: one idempotency key must stand for one request, and a retry
  must get the first answer instead of a primary-key error.
* *Locks are taken in several orders*: correct when no cycle of waits exists.
* *Delivery is at least once*: leases expire under a slow publisher, jobs are
  delivered twice, processes die between enqueue and mark. Correct when every
  dispatch row eventually becomes a job and duplicates have no second effect.
* *Loops are started and stopped* while a publish is in flight, and shutdown
  must not close a connection under its user.
* *UI responses arrive out of order.*

`PROJECT.json` lists each hazard at its line with the properties that cover it,
or the reason none does yet.

## 2. Modules

| module | what it is |
| --- | --- |
| `StateMachine` | statuses, terminal statuses, the transition table, the start status that policy chooses, and what a legal log is; constant-level |
| `ExecutionLifecycle` | the abstract specification: a log per execution and the set of released executions; every step creates, moves or rejects executions, and an execution is released when it is created without a gate or moved from APPROVAL to EXECUTION |
| `PostgresKernel` | the execution service, statement by statement, with locks, rollbacks and clocks |
| `MCPostgresKernel` | constants for TLC: processes, executions and the sets of calls of each run |
| `DispatchOutbox` | publishers with leases, the external queue, worker slots and the controlled handler, composed with the kernel as `ExecutionLifecycle` describes it |
| `MCDispatchOutbox` | the statuses that other callers of the kernel move executions to, per run |
| `StateMachineProofs` | lemmas about the transition table and legal logs |
| `PostgresKernelProofs`, `DispatchOutboxProofs` | theorems about the two modules |
| `InMemoryKernel` | the in-memory facade |
| `PollingPromise` | what a polling loop promises its callers: one call at a time, and a `stop()` that returns after the call under way |
| `PollingLoop`, `MCPollingLoop` | the dispatcher's timers, ticks, `publishing` flag and back-off; the sweeper is the same loop |
| `PollingLoopProofs` | theorems about it, the implementation of `PollingPromise` included |
| `RuntimeShutdown` | the runtime process: signals, `ExecutionRuntime.stop()`, two `PollingPromise`s, worker, queue and pool |
| `RuntimeShutdownProofs` | theorems about it |
| `Principals` | `auth.ts`: principals and roles, as operators |
| `ControlPlaneApi`, `MCControlPlaneApi` | requests of the control plane, query by query, on the shared tables |
| `ControlPlaneApiProofs` | theorems about it |
| `ControlPlaneUi`, `MCControlPlaneUi` | the operator's page and its requests |
| `ControlPlaneUiProofs` | theorems about it |
| `ToolAccess` | tool policy and permission check, as operators |
| `AccessProofs` | theorems about `Principals` and `ToolAccess` |

### PostgresKernel and the code

* **Rows.** `status`, `events`, `approval`, `dispatches`, `audit`, `idempotency`
  and `tenants` are the committed tables. An approval is named by its
  execution, because `start()` is the only place that inserts one and inserts one
  per execution. `None` is an absent row.
* **Transactions.** `withTransaction` gives each call a connection: a process of
  the model, with its next statement in `pc`. Locks are taken statement by
  statement and kept to the end (`holder`); all the writes of a transaction
  appear in its last action, as READ COMMITTED shows them to the others. `Abort`
  rolls back at any statement: an SQL error, a broken connection or a process
  that dies. The wait for a transaction's first lock is merged with its begin.
* **start()** (lines 33-160 of the service): `StartTenant` (the tenant upsert,
  which waits for another open transaction that inserts the same tenant),
  `StartLockKey` (the advisory lock), `StartLookup` (reuse, conflict, or go on),
  `StartInsert` (the execution row; the primary key refuses a taken id),
  `StartCommit` (event, approval or dispatch, audit, idempotency record). The
  request hash is the record of execution, tenant and policy decision.
* **decideApproval()**: `DecideBegin` (lock the execution, require APPROVAL),
  `DecideLockTicket` (lock the approval row the caller names, which may be of
  another execution), `DecideVerdict` (mismatch, not pending and expiry checks),
  `ReadSequence` (`max(sequence)`), `DecideCommit`. An expired approval is marked
  EXPIRED and the execution rejected in the same transaction, and only then the
  error is raised, as the code does.
* **transition(), fail()**: `TransitionBegin`/`FailBegin`, `ReadSequence`,
  `StatusCommit`.
* **expireApprovalsOnce()**: `SweepBegin` takes the snapshot, `SweepClaim` and
  `SweepSkip` are `FOR UPDATE OF e SKIP LOCKED LIMIT n`, `SweepMark` the row lock
  of the UPDATE on the approval (interleaved with the claims, as the executor
  pipelines them), `SweepCommit` the loop that rejects what still waits, and
  COMMIT.
* **Time.** `TimePasses` lets `expires_at` pass on the application's clock (which
  `decideApproval` compares with `Date.now()`) and on the database's (which the
  sweep compares with `now()`) independently: the clocks may disagree.
* **Left out.** Payloads, reasons, actor ids and timestamps; a call that fails
  its first check (it writes nothing and releases at once); `createApproval`'s
  and `createDispatch`'s `ON CONFLICT` for rows that cannot exist yet.

### DispatchOutbox and the code

* **The kernel** appears through what `PostgresKernel` is checked to implement:
  a transaction is one step. `KernelStart` and `KernelMove` are the calls of
  everybody but the handler; `Targets` says where they may move an execution. A
  row appears with an ungated start and with an approver's decision, never with
  a bare `transition()`.
* **publishOnce()** (`queue/execution-outbox-publisher.ts:31-67`).
  `claimDispatches` and each mark are single statements of the database and single
  actions. `ClaimDispatches` takes any set of ready rows up to the limit,
  because `SKIP LOCKED` passes over the rows that others have locked. The loop
  is `EnqueueSucceeds`/`EnqueueFails` (an error may reach the caller although the
  job was added), then `MarkDispatchSucceeded`, `MarkSucceededRaises` (the mark
  raises with or without having committed, and the catch block marks the row
  failed) or `MarkDispatchFailed`; `MarkFailedRaises` is the mark of the catch
  block raising, which ends the batch. `PublisherStops` is a crash at any point.
* **The lease** is membership in `lapsed`: `LeaseLapses` is time passing
  `locked_until`. No mark checks who holds the lease, so the mark of a slow
  publisher can return a row to PENDING that another one has just marked
  DISPATCHED or claimed. The model has these steps; the job id absorbs them.
* **The queue** (BullMQ, external): one job per `jobId`, kept for ever in
  whatever state (`removeOnComplete` and `removeOnFail` are false), 3 attempts,
  one repeated delivery after a lost lock (`maxStalledCount` of the library), and
  a result only from the slot that holds the lock. `Stall` takes the lock from a
  slot that may still be running the handler.
* **The handler** (`runtime/controlled-execution-handler.ts:21-74`): `HandlerReads`
  (unknown execution and APPROVAL raise, INTAKE is moved, all else is a
  duplicate), `HandlerTransitions` (the kernel's answer may be lost; an invalid
  transition leads to a second look), `HandlerRereads`, `HandlerTransitionFails`.
* **Left out.** The attempts column and error texts of a row, the Redis URL, the
  event listeners, `close()`.

### PollingLoop, RuntimeShutdown and the code

* **Chains.** A tick that ends while `running` arms the next timer: a *chain*.
  `chain[c]` says what a chain is at (`armed`, `publishing`, or between the
  settling of its call and the rest of `tick()`), `timer` which chain's timer the
  field of that name holds. `clearTimeout` reaches that timer only: a tick whose
  call is under way when `stop()` and `start()` follow each other goes on, and
  the loop has two chains from then on. `Chains` bounds them.
* **Microtasks.** When a call settles, `publishing` is reset in the `finally` of
  `runOnce()` and the tick continues in a later microtask. Nothing but other
  microtasks comes between (`NoMicrotask`); several ticks may be waiting.
* **Options.** `options` and `eager` (do callers start the loop while a `stop()`
  waits?) are chosen in `Init` and never change. `pollIntervalMs` and
  `maxBackoffMs` are the clamps of the constructor.
* **The sweeper** has no back-off: it is the loop in which every call succeeds.
* **Shutdown.** `RuntimeShutdown` uses the two loops through `PollingPromise`.
  A `once` listener is gone after it fired: the same signal again kills the
  process (`SignalAgain`), the other signal finds `stopping` set (`Signal`).
  `SweeperStopped` to `PoolEnded` are the awaits of `ExecutionRuntime.stop()` and
  of `shutdown()`, each with the call that follows it; any close may reject.
* **Left out.** Start-up errors before the listeners are registered.

### Principals, ControlPlaneApi, ControlPlaneUi and the code

* **Requests.** `pc[c]` is the await that the request on connection `c` is at.
  `Receive` is everything before the first query (principal, body, role);
  `ListExecutions`; `GetExecution`, `ReadEvents`, `ReadApprovals`, `GetReturns`
  (the row first, then the parts in any order on other connections);
  `CheckOwnership`, then `Decide`, `DecideExpired` or `DecideFails`. Between any
  two of them the kernel's other callers commit (`KernelStart`, `KernelMove`,
  `KernelExpire`), in one step each: `PostgresKernel` has their statements. Two
  details of it are kept: the sweep may overwrite a verdict, and the answer to a
  COMMIT may be lost (422 for a decision that stands). `decidedBy` is the column,
  which every expiry signs with `logon.approval.expiry` (`ExpiryActor`), and `audit`
  what the audit log says of the gate: who settled it and how. An expiry of an
  execution that waits (`Expiry`) writes both, by the sweep as by a late decision;
  the sweep over a decision writes the approval only. `start()` may give any of the
  statuses that policy chooses, a refusal included.
* **The page.** `inFlight` is the bag of requests under way, each with the tenant
  of the render that sent it, an approval with the tenant of its own headers
  (`ApprovalHeaders`) and, for the property, the one connected at the click; they are answered and arrive in any order, or fail.
  `chained` marks the two reloads that `approve()` awaits. `RowRead` and
  `DetailAnswered` are the two moments at which the API reads a detail.
  `PrincipalArrives` is `/api/me`: in production it sets the tenant, and the
  effects may run again. `devMode` is chosen in `Init`.
* **Left out.** `/health` and `/api/me` on the server, row mapping, query limits,
  rendering, error texts, the loading flags; what a list contains does not change.

### ToolAccess and the code

`evaluateToolPolicy` and `checkToolPermission` are functions that no code of the
repository calls yet; `AccessProofs` proves what they guarantee to whoever will. An `expiresAt` that does not parse is as good as none: the comparison with
`NaN` is false, so such a permission never expires.

Definitions named `Faulty...` and `NeverRejects` are not used by `Spec`. Each is a
plausible mistake in the definition that follows it; `PROJECT.json` pairs it with
the property that must then fail, which shows that the property depends on that
line of the code.

## 3. What the runs check

| run | instance | shows |
| --- | --- | --- |
| `kernel_races` | 2 clients, 1 sweeper, 2 gated executions, every target of `transition()` on one of them | start, decide (also with the other's approval), transition, fail and expire, with rollbacks anywhere: `StatusIsLastEvent`, `LegalHistory`, `DispatchJustified`, `VerdictHonoured`, `WaitingIsDecidable`, `ReadsStayValid` |
| `kernel_sweepers` | 1 client, 2 sweepers in batches of two, 2 executions | `NoDeadlock`, and `ImplementsLifecycle`: every commit, the batch of a sweep included, is one step of `ExecutionLifecycle` |
| `kernel_keys` | 3 clients, 1 key, 2 tenants, 2 execution ids | `AnswersAgree`, `RetryNeverCollides`: retries, conflicting bodies and ids claimed twice under one key |
| `kernel_gate` | 2 clients, 1 sweeper, 1 execution, gated by `start()` or brought to a late gate by `transition()`, fairness | `GateCloses` (of the gate of `start()`), `ApprovalSettles` |
| `outbox_delivery` | 2 publishers, 2 worker slots, 1 execution; other callers approve, fail, overtake the worker; fairness | `DispatchedHasJob`, `CompletedIsAccepted`, `GateBeforeQueue`, `FinishedStaysFinished`, `ImplementsLifecycle` (with publishers and handlers the kernel's promises still hold) and `WorkIsAccepted`: a dispatched execution leaves INTAKE, or its job is kept as failed |
| `outbox_batch` | 2 publishers in batches of two, 2 executions, fairness | `DispatchSettles`: no release is lost |
| `polling_loop` | 2 callers, 1 direct caller of `runOnce()`, 3 chains, options at their bounds, fairness | `NonOverlap`, `SingleChain`, `BackoffBounded`, `ImplementsPromise` (the loop is a `PollingPromise`), `PollsForever`, and `KeepsPromise`: its liveness too |
| `runtime_shutdown` | 2 signals, 2 worker slots, both loops, fairness | `ConnectionsOutliveWork`, `CleanExit`, `ShutdownCompletes` |
| `api` | 2 connections, 4 callers, 2 executions of 2 tenants, gated, ungated or refused by policy | `DecisionAuthorized`, `AnswersAreTrue`, `ActiveIsReached`, `ReadsAreScoped` |
| `ui_page` | 2 executions, 2 tenants to connect to, 2 requests at a time, production and development, fairness | `ShownWasTrue`, `DecisionsStayInTenant`, `ButtonsReturn`, `Settles` |
| `kernel_expiry_overwrite` | the races of two gated executions without the whole table | a violation, see section 6 |
| `inmemory_invalid_transition` | 1 execution, capped log | a violation, see section 6 |

**Bounds.** No counter needs a cap: the transition table is acyclic, so a log is
at most as long as the table's longest path, and every row is created once. Two
executions are enough for a decision that names the wrong approval and for a
batch; two clients and a sweeper (or two sweepers) for every pair of racing
closers, and for cycles of waits through the three kinds of lock a decision and a
sweep share; three clients for a first attempt, its retry and a conflicting
request. The calls of each run are given by `Calls`, so that each question gets
the calls that matter for it and no others. Deadlock checking is off because
executions that finished leave nothing to do; `NoDeadlock` asks the question
that matters instead, that no set of transactions waits in a cycle.

In `DispatchOutbox` the counters are bounded by the code's own values (3 attempts)
and the library's default (1 stall). Two publishers and two slots are enough for
every pair that shares a row or a job; two executions in one batch for a batch
that is left half done.

`Chains` is the one bound of `PollingLoop`: three chains are two restarts during
a stop, which is one more than it takes for two ticks to meet; `Start` waits for a
free chain. Two callers give a stop that waits while another starts. The options
are one pair below both clamps and one pair whose doubled poll interval exceeds
the maximum back-off. `MaxRequests` bounds what the page and the operator send
(two: an answer that is overtaken by another); the second reload of `approve()`
comes on top. In `api` two connections are every pair of requests that race;
connections are interchangeable, which the symmetry uses. `Moves` is a failure of
the one execution that both the approver and the viewer can reach: it closes the
gate behind a decision, and it follows one.

**Fairness.** `FairSpec` of `PostgresKernel` assumes that a connection which can run its next
statement eventually does (the database schedules it), that a decision under way
is not aborted, and that a row is not found locked, at the same statement every
single time (strong fairness of the steps of a decision or a sweep), that the
sweeper is polled for ever (`ApprovalExpirySweeper.tick` reschedules itself also
after an error) and that clocks advance. Nothing forces a client to call: the
gate closes by the sweep alone. `SKIP LOCKED` would allow a sweep to skip a row
for ever if calls that always abort held it at every poll; strong fairness of
`SweepClaim` excludes that schedule.

`PublishSpec` assumes that some publisher is polled for ever and takes the
oldest rows first (`ORDER BY` of `claimDispatches`), so that no ready row is
passed over for ever; that the calls for one row do not fail every single time
(strong fairness per row: a crash or an error may hit any attempt, and any
number of them); that a catch block is left; and that leases are finite. It
requires nothing of any particular publisher: `PublisherStops` may always strike
again. `FairSpec` of `DispatchOutbox` adds that the handler's calls return or
raise, that a waiting job gets a slot, and that the queue takes back the job of a
dead slot. It does not assume that the handler ever succeeds: three failures are
allowed, and `WorkIsAccepted` names what they lead to.

`FairSpec` of `PollingLoop` assumes that timers fire and microtasks run, and that
a call to database and queue settles, one way or the other (both clients time
out). `RuntimeShutdown` assumes the same of both loops, and that handlers return
and ready awaits go on; nothing makes a close succeed, since exit 1 is an end
too. `ControlPlaneUi` assumes that every request is answered or fails and that its
answer is taken. Its weak fairness per kind of request (`Late`, `Awaited`) says
that of requests of one kind while others keep being sent, and the strong
fairness of `Fresh` that reads of the selected execution do not fail every time.
That auto refresh is left on, and that the operator's hands are off from some
moment on, are premises of `Settles` and not assumptions of the module.

## 4. What is proved

`PostgresKernelProofs` proves, for any sets of executions, tenants, keys, clients
and sweepers, any set of calls and any batch size:

| theorem | statement |
| --- | --- |
| `TypeCorrect` | `Spec => [](TypeOK /\ CallFits)` |
| `StatusIsLastEventTheorem` | `Spec => []StatusIsLastEvent` |
| `LegalHistoryTheorem` | `Spec => []LegalHistory` |
| `ReadsStayValidTheorem` | `Spec => []ReadsStayValid` |
| `RetryNeverCollidesTheorem` | `Spec => []RetryNeverCollides` |
| `AnswersAgreeTheorem` | `Spec => []AnswersAgree` |
| `NoDeadlockTheorem` | `Spec => []NoDeadlock` |
| `DispatchJustifiedTheorem` | `Spec => []DispatchJustified` |
| `VerdictHonouredTheorem` | `Spec => []VerdictHonoured` |
| `WaitingIsDecidableTheorem` | `Spec => []WaitingIsDecidable` |
| `ImplementsLifecycleTheorem` | `Spec => ImplementsLifecycle` |

Assumptions: those of `PostgresKernel` (calls are well-formed records, clients and
sweepers are disjoint, `None` is none of the values it stands beside, the batch
size is within the code's clamp).

The argument is the inductive invariant `IInv`. `StatusIsLastEvent` and
`LegalHistory` alone are not inductive: a commit writes a target that was checked
statements ago. `IInv` adds what makes the old check still true: `CallFits` (which
call is at which statement), `LocksHeld` (which locks a statement implies),
`GuardsStayTrue` (an execution about to be inserted is absent, a decision's
execution waits in APPROVAL) and `ReadsStayValid` (the checked transition is still
legal, the computed sequence number still the next). For each action the proof
shows what it does to its own connection's facts (`Own...`), and one lemma
(`OthersKeep`) shows the rest: an action that writes an execution's row holds
its lock, so another connection's facts, which are about rows that it holds
itself, stay as they were. `IInvInit` and `IInvNext` assemble this.

Three invariants stand on `IInv`, each for one of the kernel's promises:

* **Keys.** `KeyInv` adds `Remembered`: every answer given under a key is the
  record of that key. A start that has looked its key up holds the key's lock
  until COMMIT (`KeyHeld`), so nobody records the key meanwhile
  (`RetryNeverCollides`), and a record once made stays. That two answers agree
  follows, since both are the one record.
* **Locks.** `LocksHeld` says which locks a statement implies; `LockInv` adds the
  converse, `Holds`: a connection holds no others. Then each kind of wait is only
  for connections further along (`WaitsAscend`): a start that waits for its key
  for starts past it, an insert for deciders and sweeps, a decider for deciders
  and sweeps, and a sweep for deciders that wait for nobody. That two sweeps
  never wait for each other rests on the order inside a sweep: it claims the
  executions, skipping locked ones, before it locks any approval, so two sweeps
  hold different executions. In any set of connections one furthest along waits
  for none of the others.
* **The gate.** `GateInv` adds `Stage`: the log, the approval, the audit log and
  the release of an execution together are in one of four stages (unstarted,
  never gated, at the gate, past it), and what a connection that is about to
  settle an approval still knows of it (`Deciding`, `Sweeping`). `PastGate` needs
  a fact of the transition table: nothing reachable after a gate leads back to
  APPROVAL (`GateTable`). `GateSteps` says what any step does to the rows of one
  execution: nothing, a start, a move past the gate's statuses, or one verdict.
  `DispatchJustified`, `VerdictHonoured`, `WaitingIsDecidable` and the refinement
  of `ExecutionLifecycle` are read off `Stage` and `GateSteps`. A late expiry may
  still overwrite the approval's status (section 6); `PastGate` therefore says of
  the approval only that it exists.

`DispatchOutboxProofs` proves, for any sets of executions, publishers and
workers, any targets, any batch size in the code's clamp and any limits of the
queue:

| theorem | statement |
| --- | --- |
| `TypeCorrect` | `Spec => []TypeOK` |
| `DispatchedHasJobTheorem` | `Spec => []DispatchedHasJob` |
| `CompletedIsAcceptedTheorem` | `Spec => []CompletedIsAccepted` |
| `GateBeforeQueueTheorem` | `Spec => []GateBeforeQueue` |
| `FinishedStaysFinishedTheorem` | `Spec => FinishedStaysFinished` |
| `ImplementsLifecycleTheorem` | `Spec => Lifecycle!Spec` |

Six lemmas say what any step may do to a log, a row, a job, a lock, a handler and
a publisher; the rest is about these six and not about the actions. The
invariant `IInv` adds to the properties what they rest on. That a DISPATCHED row
has a job needs `SucceededHasJob` (the publisher that marks it has enqueued it)
and that jobs never go away. That a completed job is accepted needs
`ReturnsAccepted` (a handler about to return has seen its execution out of
INTAKE; nothing in the table goes back there) and `OwnerActive` (only the holder
of the lock completes a job). `GateBeforeQueue` needs the chain `JobsRowed`,
`ClaimsRowed`, `RowsReleased`, and for the last `Histories`: an execution that
stands at APPROVAL when its row appears either started in INTAKE or stands at its
first event, which is lemma `GateOpens` about legal logs.

`PollingLoopProofs` proves, for any callers, chains and direct callers and for all
integer options:

| theorem | statement |
| --- | --- |
| `TypeCorrect` | `Spec => []TypeOK` |
| `NonOverlapTheorem` | `Spec => []NonOverlap` |
| `StoppedIsQuietTheorem` | `Spec => []StoppedIsQuiet` |
| `SingleChainTheorem` | `Spec => []SingleChain` |
| `BackoffBoundedTheorem` | `Spec => []BackoffBounded` |
| `ImplementsPromiseTheorem` | `Spec => ImplementsPromise` |

Assumptions: options are integers, the chains are no direct callers, `None` is no
chain. `BackoffBounded` allows a back-off above the maximum in one case only, which
the code has: the first one, twice the poll interval, is not capped. `NonOverlap` rests on `Exclusive` (`publishing` is set exactly while a call
is under way) and `SingleChain` on `Polite` (unless somebody starts the loop
during a `stop()`, the only armed timer is the one that `stop()` can clear).

`RuntimeShutdownProofs` proves `TypeCorrect`, `ConnectionsOutliveWorkTheorem` and
`CleanExitTheorem` for any signals and any concurrency of the worker. The invariant
says that at most one signal shuts down, that it finds the runtime started, and
that what has been awaited stays quiet: what each step of the shutdown may rely on.

`ControlPlaneApiProofs` proves, for any executions, tenants, headers, environment
and number of connections, and whatever executions the others move:

| theorem | statement |
| --- | --- |
| `TypeCorrect` | `Spec => []TypeOK` |
| `DecisionAuthorizedTheorem` | `Spec => []DecisionAuthorized` |
| `AnswersAreTrueTheorem` | `Spec => []AnswersAreTrue` |
| `ActiveIsReachedTheorem` | `Spec => []ActiveIsReached` |
| `ReadsAreScopedTheorem` | `Spec => []ReadsAreScoped` |

The invariant adds `Serving` (what the checks made so far let a request go on
with), `Audited` (an execution that the audit log settles is past its gate, so that
nobody settles it again), `Reading` (the status a detail read first is in the log for ever, and in
whatever was read of the log) and `Settled` (an execution that somebody was told
to have decided is not pending, which no step but its start makes it). `Audited`
needs `GateTable`: nothing reachable after a gate leads back to APPROVAL. Two lemmas
say what a step may do to the rows and to the connections; the rest is about
these two and not about the actions.

`ControlPlaneUiProofs` proves, for any executions, tenants and verdicts and any
number of requests under way:

| theorem | statement |
| --- | --- |
| `TypeCorrect` | `Spec => []TypeOK` |
| `ShownWasTrueTheorem` | `Spec => []ShownWasTrue` |
| `DecisionsStayInTenantTheorem` | `Spec => DecisionsStayInTenant` |

The invariant adds `Honest` (what a detail on its way says was true when it was
read, and statuses only advance, so it is still no more than the truth when it
arrives; and that an approval under way carries the tenant connected at its click)
and `Buttons`: `approve()` is alone with its request, and then with one
reload of each kind. The latter is what makes the last of the chained reloads the
one that enables the buttons again. Requests under way are a bag; `Exchange` says
what a step may do to it (take out at most one request, put in a set of others)
and a few lemmas show that each use of `(+)` and `(-)` in the model is of that
kind.

`AccessProofs` proves what the functions of `Principals` and `ToolAccess`
guarantee: `OnlyClaimsCount` (behind a proxy nothing but the injected claims
matters), `FailsClosed` (nobody is resolved without them, or decides without a
deciding role), `ToolsKeepTheGate`, `PermissionServesOne` and
`PermissionsOnlyLapse`.

**Only model-checked**: the liveness properties (`GateCloses`, `ApprovalSettles`,
`DispatchSettles`, `WorkIsAccepted`, `PollsForever`, `KeepsPromise`,
`ShutdownCompletes`, `ButtonsReturn`, `Settles`), because liveness under fairness
is out of reach of the proof system used here.

## 5. Plan

Done, in this order: `PostgresKernel` with `ExecutionLifecycle`, the transactions
every other part relies on; `DispatchOutbox`, composed with the lifecycle;
`PollingLoop`, and `RuntimeShutdown` which composes two of its promises with the
connections; `ControlPlaneApi` and `ControlPlaneUi`; the decision functions of
principals and tools.

Every safety invariant, action property and step simulation that a passing run
checks has a theorem. Worth stating next, on the abstract side:
lemmas about `ExecutionLifecycle` alone (a released execution never waits, a
finished one never moves), which both refinements then carry over to
`PostgresKernel` and `DispatchOutbox`; and what holds of `InMemoryKernel` as long
as no id is started twice and no finished execution is failed.

## 6. Findings

* **An approval that was decided can be marked EXPIRED**
  (`kernel_expiry_overwrite`). `claimExpiredApprovals` reads the approval's status
  in its snapshot but locks the execution row only, and its UPDATE repeats no
  condition on the status. A decision that commits between the two is
  overwritten: the execution continues and is dispatched while its approval says
  EXPIRED, decided by `logon.approval.expiry`. The comment of
  `expireApprovalsOnce` says it marks expired PENDING approvals. The execution
  itself is safe: `VerdictHonoured` holds.
* **The in-memory kernel records transitions outside the table**
  (`inmemory_invalid_transition`): `start` and `fail` append without
  `assertTransition`, while `docs/SYSTEM_0_IMPLEMENTATION.md:42` lists rejection of
  invalid transitions as an invariant.

Four things the models show that are neither right nor wrong by any statement of
the repository:

* An execution that `transition()` brings to APPROVAL (from TOOL_PERMISSION_CHECK or
  VALIDATION) has no approval: neither a decision nor the sweep ever closes that
  gate, and it waits until another `transition()` or `fail()`.
  `docs/SYSTEM_0_IMPLEMENTATION.md:33` names approval enforcement there as the next
  slice. `GateCloses` and `WaitingIsDecidable` are therefore about the gate of
  `start()`.
* `start()` during a `stop()` leaves two chains of ticks, twice the polling rate
  and shared back-off; calls still never overlap (`NonOverlap`). `main` never does
  it. A tick that finds a direct `runOnce()` under way counts as a success and
  clears the back-off.
* In development mode a detail requested before connecting to another tenant may
  arrive afterwards; the page then shows the old tenant's execution with its
  buttons. The decision carries the headers of the new tenant, and the API refuses it
  (`DecisionsStayInTenant`).
* A list that arrives late may select an execution of the tenant left behind;
  polling then asks for it in vain until the operator selects another.

## 7. Not modelled

* Observability and the model gateway: no state of the system depends on them.
* Routing, `/health`, `/api/me` on the server, row mapping and rendering: pure
  input and output.
* The registry map, `schemas.ts`, `canonical-json.ts`, the parsing of Redis URLs:
  sequential code without state that other parts see; unit tests reach it.
* Evidence records: written by nobody but the in-memory facade's embedder.
* BullMQ, PostgreSQL, Node.js and the proxy are external; the models hold what the
  code relies on.
