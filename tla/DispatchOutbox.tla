----------------------------- MODULE DispatchOutbox -----------------------------
(***************************************************************************)
(* From a dispatch row to the worker: ExecutionOutboxPublisher claims rows *)
(* under a lease, adds a job for each to the queue and marks the row; the  *)
(* worker runs createControlledExecutionHandler for each delivery of the   *)
(* job.  Publishers, workers, the database and the queue fail at any step. *)
(*                                                                         *)
(* The kernel appears through what ExecutionLifecycle promises of it: its  *)
(* transactions are single steps here.  BullMQ is external: it keeps one   *)
(* job per jobId, delivers it at least once, retries it Attempts times and *)
(* gives a job whose worker lost its lock to another one.                  *)
(***************************************************************************)
EXTENDS StateMachine, FiniteSets

CONSTANTS
  Executions,
  Publishers,   \* processes that call publishOnce
  Workers,      \* slots of the workers: one delivery at a time each
  Targets,      \* the statuses other callers of the kernel move executions to
  BatchSize,    \* limit of claimDispatches
  Attempts,     \* attempts of defaultJobOptions
  MaxStalls,    \* deliveries the queue repeats after a lost lock
  None          \* no dispatch row, no lock holder, nothing being worked on

ASSUME TargetsAssumption == Targets \subseteq ExecutionStatus
ASSUME DisjointAssumption ==
  /\ Publishers \cap Workers = {}
  /\ None \notin Publishers \cup Workers \cup Executions \cup {"PENDING", "PROCESSING", "DISPATCHED"}
ASSUME LimitsAssumption == BatchSize \in 1..100 /\ Attempts \in Nat \ {0} /\ MaxStalls \in Nat

VARIABLES
  events,   \* logon_execution_events of each execution
  row,      \* logon_execution_dispatches.status
  lapsed,   \* the rows whose locked_until has passed
  claims,   \* what each publisher has claimed and not yet published
  job,      \* the queue's job for each execution
  owner,    \* the worker slot that holds the job's lock
  pc,       \* the next step of each publisher and worker slot
  item      \* the execution that step is about

database == <<events, row, lapsed>>
queue    == <<job, owner>>
vars     == <<database, claims, queue, pc, item>>

DispatchStatus == {"PENDING", "PROCESSING", "DISPATCHED"}
JobState == {"absent", "waiting", "active", "completed", "failed"}
Processes == Publishers \cup Workers

Status(e) == events[e][Len(events[e])]

Jobs == [state : JobState, attempts : Nat, stalls : Nat]
NoJob == [state |-> "absent", attempts |-> 0, stalls |-> 0]

Init ==
  /\ events = [e \in Executions |-> <<>>]
  /\ row = [e \in Executions |-> None]
  /\ lapsed = {}
  /\ claims = [p \in Publishers |-> {}]
  /\ job = [e \in Executions |-> NoJob]
  /\ owner = [e \in Executions |-> None]
  /\ pc = [p \in Processes |-> "idle"]
  /\ item = [p \in Processes |-> None]

Goto(p, label) == pc' = [pc EXCEPT ![p] = label]

-----------------------------------------------------------------------------
(* The kernel.  A dispatch row appears with an ungated first event, or     *)
(* with an approver's decision (not with a bare transition()); ON CONFLICT *)
(* DO NOTHING keeps a row that exists.                                     *)

FaultyReleasing(s) == s \in {"INTAKE", "APPROVAL"}
Releasing(s) == s = "INTAKE"

Dispatch(e) == row' = [row EXCEPT ![e] = IF @ = None THEN "PENDING" ELSE @]

KernelStart(e, s) ==
  /\ events[e] = <<>>
  /\ events' = [events EXCEPT ![e] = <<s>>]
  /\ IF Releasing(s) THEN Dispatch(e) ELSE UNCHANGED row
  /\ UNCHANGED <<lapsed, claims, queue, pc, item>>

KernelMove(e, s) ==
  /\ events[e] # <<>> /\ CanTransition(Status(e), s)
  /\ events' = [events EXCEPT ![e] = Append(@, s)]
  /\ \/ UNCHANGED row
     \/ /\ Status(e) = "APPROVAL" /\ s = "EXECUTION"
        /\ Dispatch(e)
  /\ UNCHANGED <<lapsed, claims, queue, pc, item>>

-----------------------------------------------------------------------------
(* publishOnce(). *)

FaultyReady(e) == row[e] \in {"PENDING"}
Ready(e) == \/ row[e] = "PENDING"
            \/ row[e] = "PROCESSING" /\ e \in lapsed

(* Rows that other transactions have locked are skipped, so the batch may  *)
(* be any set of ready rows.                                               *)
ClaimDispatches(p, batch) ==
  /\ pc[p] = "idle"
  /\ batch # {} /\ Cardinality(batch) <= BatchSize
  /\ \A e \in batch : Ready(e)
  /\ row' = [e \in Executions |-> IF e \in batch THEN "PROCESSING" ELSE row[e]]
  /\ lapsed' = lapsed \ batch
  /\ claims' = [claims EXCEPT ![p] = batch]
  /\ Goto(p, "publish")
  /\ UNCHANGED <<events, queue, item>>

(* The loop takes the claims in the order the statement returned them.     *)
(* queue.add finds the job of the same jobId, in whatever state, or adds   *)
(* one; an error may reach the caller after the job was added.             *)
FaultyAdded(j) == IF j.state = "active" THEN j ELSE [j EXCEPT !.state = "waiting"]
Added(j) == IF j.state = "absent" THEN [j EXCEPT !.state = "waiting"] ELSE j

Add(e) == job' = [job EXCEPT ![e] = Added(job[e])]

EnqueueSucceeds(p, e) ==
  /\ pc[p] = "publish" /\ e \in claims[p]
  /\ Add(e)
  /\ claims' = [claims EXCEPT ![p] = @ \ {e}]
  /\ item' = [item EXCEPT ![p] = e]
  /\ Goto(p, "succeeded")
  /\ UNCHANGED <<database, owner>>

FaultyOnError == "succeeded"
OnError == "failed"

EnqueueFails(p, e) ==
  /\ pc[p] = "publish" /\ e \in claims[p]
  /\ Add(e) \/ UNCHANGED job
  /\ claims' = [claims EXCEPT ![p] = @ \ {e}]
  /\ item' = [item EXCEPT ![p] = e]
  /\ Goto(p, OnError)
  /\ UNCHANGED <<database, owner>>

FaultyUnpublished == "FAILED"
Unpublished == "PENDING"

Mark(p, status) ==
  /\ row' = [row EXCEPT ![item[p]] = status]
  /\ lapsed' = lapsed \ {item[p]}

NextClaim(p) ==
  /\ Goto(p, IF claims[p] = {} THEN "idle" ELSE "publish")
  /\ item' = [item EXCEPT ![p] = None]

MarkDispatchSucceeded(p) ==
  /\ pc[p] = "succeeded"
  /\ Mark(p, "DISPATCHED")
  /\ NextClaim(p)
  /\ UNCHANGED <<events, claims, queue>>

(* The mark's transaction raises, with or without having committed: the    *)
(* catch block marks the dispatch failed although the job is there.        *)
MarkSucceededRaises(p) ==
  /\ pc[p] = "succeeded"
  /\ Mark(p, "DISPATCHED") \/ UNCHANGED <<row, lapsed>>
  /\ Goto(p, "failed")
  /\ UNCHANGED <<events, claims, queue, item>>

(* No lease is checked: the row may be another publisher's by now.         *)
MarkDispatchFailed(p) ==
  /\ pc[p] = "failed"
  /\ Mark(p, Unpublished)
  /\ NextClaim(p)
  /\ UNCHANGED <<events, claims, queue>>

(* The process dies, or markDispatchFailed raises out of publishOnce: the  *)
(* rest of the batch stays PROCESSING.                                     *)
Abandon(p) ==
  /\ claims' = [claims EXCEPT ![p] = {}]
  /\ item' = [item EXCEPT ![p] = None]
  /\ Goto(p, "idle")

PublisherStops(p) ==
  /\ pc[p] # "idle" /\ Abandon(p)
  /\ UNCHANGED <<database, queue>>

MarkFailedRaises(p) ==
  /\ pc[p] = "failed" /\ Mark(p, Unpublished) /\ Abandon(p)
  /\ UNCHANGED <<events, queue>>

LeaseLapses(e) ==
  /\ row[e] = "PROCESSING" /\ e \notin lapsed
  /\ lapsed' = lapsed \cup {e}
  /\ UNCHANGED <<events, row, claims, queue, pc, item>>

-----------------------------------------------------------------------------
(* The queue delivers, and the handler runs. *)

Delivered(j) == [j EXCEPT !.state = "active"]

Deliver(w, e) ==
  /\ pc[w] = "idle" /\ job[e].state = "waiting"
  /\ job' = [job EXCEPT ![e] = Delivered(job[e])]
  /\ owner' = [owner EXCEPT ![e] = w]
  /\ item' = [item EXCEPT ![w] = e]
  /\ Goto(w, "handle")
  /\ UNCHANGED <<database, claims>>

(* Reading the latest event decides what the handler does with the job.    *)
FaultyVerdict(e) ==
  IF events[e] = <<>> \/ Status(e) = "APPROVAL" THEN "raise" ELSE "return"
Verdict(e) ==
  IF events[e] = <<>> \/ Status(e) = "APPROVAL" THEN "raise"
  ELSE IF Status(e) = "INTAKE" THEN "transition" ELSE "return"

HandlerReads(w) ==
  /\ pc[w] = "handle"
  /\ Goto(w, Verdict(item[w])) \/ Goto(w, "raise")          \* a query may fail
  /\ UNCHANGED <<database, claims, queue, item>>

FaultyAccepts(e) == Status(e) # "CONTEXT"
Accepts(e) == CanTransition(Status(e), "CONTEXT")

HandlerTransitions(w) ==
  /\ pc[w] = "transition"
  /\ IF Accepts(item[w])
       THEN /\ events' = [events EXCEPT ![item[w]] = Append(@, "CONTEXT")]
            /\ Goto(w, "return") \/ Goto(w, "raise")        \* the answer may be lost
       ELSE UNCHANGED events /\ Goto(w, "reread")           \* InvalidExecutionTransitionError
  /\ UNCHANGED <<row, lapsed, claims, queue, item>>

FaultyTransitionError == "return"
TransitionError == "raise"

HandlerTransitionFails(w) ==
  /\ pc[w] = "transition"
  /\ Goto(w, TransitionError)
  /\ UNCHANGED <<database, claims, queue, item>>

HandlerRereads(w) ==
  /\ pc[w] = "reread"
  /\ \/ Status(item[w]) = "CONTEXT" /\ Goto(w, "return")
     \/ Goto(w, "raise")                 \* another status, or the query fails
  /\ UNCHANGED <<database, claims, queue, item>>

(* The queue takes the result only from the slot that still holds the lock. *)
Finish(w, e, finished) ==
  /\ IF owner[e] = w
       THEN /\ job' = [job EXCEPT ![e] = finished]
            /\ owner' = [owner EXCEPT ![e] = None]
       ELSE UNCHANGED queue
  /\ item' = [item EXCEPT ![w] = None]
  /\ Goto(w, "idle")
  /\ UNCHANGED <<database, claims>>

Completed(j) == [j EXCEPT !.state = "completed"]

JobReturns(w) ==
  /\ pc[w] = "return"
  /\ Finish(w, item[w], Completed(job[item[w]]))

Raised(j) == [state    |-> IF j.attempts + 1 < Attempts THEN "waiting" ELSE "failed",
              attempts |-> j.attempts + 1,
              stalls   |-> j.stalls]

JobRaises(w) ==
  /\ pc[w] = "raise"
  /\ Finish(w, item[w], Raised(job[item[w]]))

(* A slot that stops renewing its lock, blocked or dead, loses the job; a  *)
(* blocked one goes on running the handler.                                *)
Stalled(j) == [state    |-> IF j.stalls < MaxStalls THEN "waiting" ELSE "failed",
               attempts |-> j.attempts,
               stalls   |-> j.stalls + 1]

Stall(e) ==
  /\ job[e].state = "active"
  /\ job' = [job EXCEPT ![e] = Stalled(job[e])]
  /\ owner' = [owner EXCEPT ![e] = None]
  /\ UNCHANGED <<database, claims, pc, item>>

WorkerDies(w) ==
  /\ pc[w] # "idle"
  /\ Goto(w, "idle")
  /\ item' = [item EXCEPT ![w] = None]
  /\ UNCHANGED <<database, claims, queue>>

-----------------------------------------------------------------------------
Kernel ==
  \E e \in Executions :
    \/ \E s \in StartStatuses : KernelStart(e, s)
    \/ \E s \in Targets : KernelMove(e, s)

Publisher(p) ==
  \/ \E batch \in SUBSET Executions : ClaimDispatches(p, batch)
  \/ \E e \in Executions : EnqueueSucceeds(p, e) \/ EnqueueFails(p, e)
  \/ MarkDispatchSucceeded(p) \/ MarkSucceededRaises(p)
  \/ MarkDispatchFailed(p) \/ MarkFailedRaises(p) \/ PublisherStops(p)

Handler(w) ==
  \/ HandlerReads(w) \/ HandlerTransitions(w) \/ HandlerTransitionFails(w)
  \/ HandlerRereads(w) \/ JobReturns(w) \/ JobRaises(w)

Next ==
  \/ Kernel
  \/ \E p \in Publishers : Publisher(p)
  \/ \E w \in Workers : Handler(w) \/ WorkerDies(w) \/ \E e \in Executions : Deliver(w, e)
  \/ \E e \in Executions : LeaseLapses(e) \/ Stall(e)

Spec == Init /\ [][Next]_vars

(* Fairness.  Some publisher is polled for ever and rows are claimed       *)
(* oldest first; the database and the queue do not fail at the same call   *)
(* for a row every time (strong fairness); a catch block is left; leases   *)
(* are finite.                                                             *)
PublisherFairness ==
  /\ \A p \in Publishers : WF_vars(MarkDispatchFailed(p))
  /\ \A e \in Executions :
       /\ SF_vars(\E p \in Publishers, batch \in SUBSET Executions :
                    e \in batch /\ ClaimDispatches(p, batch))
       /\ SF_vars(\E p \in Publishers : EnqueueSucceeds(p, e))
       /\ SF_vars(\E p \in Publishers : item[p] = e /\ MarkDispatchSucceeded(p))
       /\ WF_vars(LeaseLapses(e))

(* The queue has a free slot for a waiting job in the end and takes back a *)
(* job whose slot is dead; the handler's calls return or raise.            *)
Lost(e) == job[e].state = "active" /\ ~\E w \in Workers : owner[e] = w /\ item[w] = e

WorkerFairness ==
  /\ \A w \in Workers : WF_vars(Handler(w))
  /\ \A e \in Executions : /\ SF_vars(\E w \in Workers : Deliver(w, e))
                           /\ WF_vars(Lost(e) /\ Stall(e))

PublishSpec == Spec /\ PublisherFairness
FairSpec == Spec /\ PublisherFairness /\ WorkerFairness

-----------------------------------------------------------------------------
(* Properties. *)

PcOfPublisher == {"idle", "publish", "succeeded", "failed"}
PcOfWorker == {"idle", "handle", "transition", "reread", "return", "raise"}

(* Every row, job, claim and program counter holds a value of its kind.    *)
TypeOK ==
  /\ events \in [Executions -> Seq(ExecutionStatus)]
  /\ row \in [Executions -> DispatchStatus \cup {None}]
  /\ lapsed \in SUBSET Executions
  /\ claims \in [Publishers -> SUBSET Executions]
  /\ job \in [Executions -> Jobs]
  /\ owner \in [Executions -> Workers \cup {None}]
  /\ pc \in [Processes -> PcOfPublisher \cup PcOfWorker]
  /\ item \in [Processes -> Executions \cup {None}]

(* A row marked DISPATCHED has its job, although any publisher may mark    *)
(* the row of any other whose lease ran out, and may fail between the two  *)
(* stores (the outbox "protects the PostgreSQL-to-Redis handoff").         *)
DispatchedHasJob ==
  \A e \in Executions : row[e] = "DISPATCHED" => job[e].state # "absent"

(* A job that completed has brought its execution out of INTAKE, whichever *)
(* of several deliveries did it and in whatever order they finished.       *)
Accepted(e) == events[e] # <<>> /\ Status(e) # "INTAKE"

CompletedIsAccepted ==
  \A e \in Executions : job[e].state = "completed" => Accepted(e)

(* Work that start() put behind an approval reaches the queue only after   *)
(* the approval (the comment on the handler's APPROVAL branch).            *)
GateBeforeQueue ==
  \A e \in Executions :
    job[e].state # "absent" =>
      /\ events[e] # <<>>
      /\ \/ events[e][1] = "INTAKE"
         \/ Len(events[e]) > 1 /\ events[e][2] = "EXECUTION"

(* A finished job is never delivered again, also when a late or failed     *)
(* mark puts its row back to PENDING and it is enqueued once more.         *)
FinishedStaysFinished ==
  [][\A e \in Executions :
       job[e].state \in {"completed", "failed"} => job'[e] = job[e]]_vars

(* With the publishers and the worker's handler added, the kernel's        *)
(* histories and releases are still those of the abstract specification.   *)
Lifecycle == INSTANCE ExecutionLifecycle
               WITH history <- events, outbox <- {e \in Executions : row[e] # None}
ImplementsLifecycle == Lifecycle!Spec

(* No release is lost: every dispatch row becomes a job and is marked so,  *)
(* whatever fails on the way.                                              *)
DispatchSettles ==
  \A e \in Executions : row[e] # None ~> row[e] = "DISPATCHED" /\ job[e].state # "absent"

(* Every dispatched execution leaves INTAKE, unless its job used up all    *)
(* its attempts and is kept as failed.                                     *)
WorkIsAccepted ==
  \A e \in Executions :
    row[e] # None ~> Accepted(e) \/ job[e].state = "failed"
=============================================================================
