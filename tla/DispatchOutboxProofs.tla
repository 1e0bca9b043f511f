------------------------- MODULE DispatchOutboxProofs -------------------------
(***************************************************************************)
(* Theorems about DispatchOutbox, for any sets of executions, publishers   *)
(* and workers, any batch size and any limits of the queue.                *)
(*                                                                         *)
(* What one step may do to a log, a row, a job, a lock, a handler and a    *)
(* publisher is said once each (LogsGrow, RowsMove, JobsMove, OwnersMove,  *)
(* HandlersMove, PublishersMove); the inductive invariant and the          *)
(* refinement follow from these six facts and not from the actions.        *)
(***************************************************************************)
EXTENDS DispatchOutbox, StateMachineProofs

(* What a process works on is known at every step that uses it.            *)
ItemsFit ==
  /\ \A p \in Publishers : /\ pc[p] \in PcOfPublisher
                           /\ pc[p] \in {"succeeded", "failed"} => item[p] \in Executions
  /\ \A w \in Workers : /\ pc[w] \in PcOfWorker
                        /\ pc[w] # "idle" => item[w] \in Executions

TypeInv == TypeOK /\ ItemsFit

-----------------------------------------------------------------------------
(* The queue's operations on one job. *)

LEMMA JobTypes ==
  ASSUME NEW j \in Jobs
  PROVE  /\ Added(j) \in Jobs     /\ Added(j).state # "absent"
         /\ Delivered(j) \in Jobs /\ Delivered(j).state = "active"
         /\ Completed(j) \in Jobs /\ Completed(j).state = "completed"
         /\ Raised(j) \in Jobs    /\ Raised(j).state \in {"waiting", "failed"}
         /\ Stalled(j) \in Jobs   /\ Stalled(j).state \in {"waiting", "failed"}
<1>1. Added(j) \in Jobs /\ Added(j).state # "absent"
  BY DEF Added, Jobs, JobState
<1>2. Delivered(j) \in Jobs /\ Delivered(j).state = "active"
  BY DEF Delivered, Jobs, JobState
<1>3. Completed(j) \in Jobs /\ Completed(j).state = "completed"
  BY DEF Completed, Jobs, JobState
<1>4. Raised(j) \in Jobs /\ Raised(j).state \in {"waiting", "failed"}
  BY LimitsAssumption DEF Raised, Jobs, JobState
<1>5. Stalled(j) \in Jobs /\ Stalled(j).state \in {"waiting", "failed"}
  BY LimitsAssumption DEF Stalled, Jobs, JobState
<1> QED
  BY <1>1, <1>2, <1>3, <1>4, <1>5

-----------------------------------------------------------------------------
(* Types. *)

(* Initially every variable has its type. *)
LEMMA TypeInvInit == Init => TypeInv
BY DisjointAssumption
DEF Init, TypeInv, TypeOK, ItemsFit, Processes, NoJob, Jobs, JobState, DispatchStatus,
    PcOfPublisher, PcOfWorker

(* Every step keeps the types and what a process is at work on. *)
LEMMA TypeInvNext == TypeInv /\ [Next]_vars => TypeInv'
<1> SUFFICES ASSUME TypeInv, [Next]_vars
             PROVE  TypeInv'
  OBVIOUS
<1> USE DisjointAssumption DEF TypeInv, TypeOK, ItemsFit, Processes, PcOfPublisher, PcOfWorker,
                               database, queue, Goto
<1>1. ASSUME NEW e \in Executions, NEW s \in StartStatuses, KernelStart(e, s)
      PROVE  TypeInv'
  <2>1. s \in ExecutionStatus
    BY DEF StartStatuses, ExecutionStatus
  <2>2. events' \in [Executions -> Seq(ExecutionStatus)]
    BY <1>1, <2>1 DEF KernelStart
  <2>3. row' \in [Executions -> DispatchStatus \cup {None}]
    BY <1>1 DEF KernelStart, Dispatch, DispatchStatus
  <2> QED
    BY <1>1, <2>2, <2>3 DEF KernelStart
<1>2. ASSUME NEW e \in Executions, NEW s \in Targets, KernelMove(e, s)
      PROVE  TypeInv'
  <2>1. s \in ExecutionStatus
    BY TargetsAssumption
  <2>2. events' \in [Executions -> Seq(ExecutionStatus)]
    BY <1>2, <2>1 DEF KernelMove
  <2>3. row' \in [Executions -> DispatchStatus \cup {None}]
    BY <1>2 DEF KernelMove, Dispatch, DispatchStatus
  <2> QED
    BY <1>2, <2>2, <2>3 DEF KernelMove
<1>3. ASSUME NEW p \in Publishers, NEW batch \in SUBSET Executions, ClaimDispatches(p, batch)
      PROVE  TypeInv'
  BY <1>3 DEF ClaimDispatches, DispatchStatus
<1>4. ASSUME NEW p \in Publishers, NEW e \in Executions,
             EnqueueSucceeds(p, e) \/ EnqueueFails(p, e)
      PROVE  TypeInv'
  <2>1. Added(job[e]) \in Jobs
    BY JobTypes
  <2>2. job' = [job EXCEPT ![e] = Added(job[e])] \/ job' = job
    BY <1>4 DEF EnqueueSucceeds, EnqueueFails, Add
  <2>3. job' \in [Executions -> Jobs]
    BY <2>1, <2>2
  <2>4. /\ claims' \in [Publishers -> SUBSET Executions]
        /\ UNCHANGED <<events, row, lapsed, owner>>
    BY <1>4 DEF EnqueueSucceeds, EnqueueFails
  <2>5. pc' = [pc EXCEPT ![p] = "succeeded"] \/ pc' = [pc EXCEPT ![p] = "failed"]
    BY <1>4 DEF EnqueueSucceeds, EnqueueFails, OnError
  <2>6. item' = [item EXCEPT ![p] = e]
    BY <1>4 DEF EnqueueSucceeds, EnqueueFails
  <2> QED
    BY <2>3, <2>4, <2>5, <2>6
<1>5. ASSUME NEW p \in Publishers,
             MarkDispatchSucceeded(p) \/ MarkSucceededRaises(p) \/ MarkDispatchFailed(p)
               \/ MarkFailedRaises(p) \/ PublisherStops(p)
      PROVE  TypeInv'
  <2>1. row' \in [Executions -> DispatchStatus \cup {None}] /\ lapsed' \in SUBSET Executions
    BY <1>5 DEF MarkDispatchSucceeded, MarkSucceededRaises, MarkDispatchFailed,
                MarkFailedRaises, PublisherStops, Mark, DispatchStatus, Unpublished
  <2>2. claims' \in [Publishers -> SUBSET Executions]
    BY <1>5 DEF MarkDispatchSucceeded, MarkSucceededRaises, MarkDispatchFailed,
                MarkFailedRaises, PublisherStops, Abandon
  <2>3. UNCHANGED <<events, job, owner>>
    BY <1>5 DEF MarkDispatchSucceeded, MarkSucceededRaises, MarkDispatchFailed,
                MarkFailedRaises, PublisherStops
  <2>4. /\ pc' \in [Processes -> PcOfPublisher \cup PcOfWorker]
        /\ item' \in [Processes -> Executions \cup {None}]
        /\ ItemsFit'
    BY <1>5 DEF MarkDispatchSucceeded, MarkSucceededRaises, MarkDispatchFailed,
                MarkFailedRaises, PublisherStops, Abandon, NextClaim
  <2> QED
    BY <2>1, <2>2, <2>3, <2>4
<1>6. ASSUME NEW w \in Workers, NEW e \in Executions, Deliver(w, e)
      PROVE  TypeInv'
  <2>1. job' \in [Executions -> Jobs]
    BY <1>6, JobTypes DEF Deliver
  <2> QED
    BY <1>6, <2>1 DEF Deliver
<1>7. ASSUME NEW w \in Workers, HandlerReads(w) \/ HandlerRereads(w) \/ HandlerTransitionFails(w)
      PROVE  TypeInv'
  <2>1. \A e \in Executions : Verdict(e) \in PcOfWorker
    BY DEF Verdict
  <2> QED
    BY <1>7, <2>1 DEF HandlerReads, HandlerRereads, HandlerTransitionFails, TransitionError
<1>8. ASSUME NEW w \in Workers, HandlerTransitions(w)
      PROVE  TypeInv'
  <2>1. item[w] \in Executions /\ "CONTEXT" \in ExecutionStatus
    BY <1>8 DEF HandlerTransitions, ExecutionStatus
  <2>2. events' = [events EXCEPT ![item[w]] = Append(events[item[w]], "CONTEXT")] \/ events' = events
    BY <1>8 DEF HandlerTransitions
  <2>3. Append(events[item[w]], "CONTEXT") \in Seq(ExecutionStatus)
    BY <2>1
  <2>4. events' \in [Executions -> Seq(ExecutionStatus)]
    BY <2>2, <2>3
  <2> QED
    BY <1>8, <2>4 DEF HandlerTransitions
<1>9. ASSUME NEW w \in Workers, JobReturns(w) \/ JobRaises(w)
      PROVE  TypeInv'
  <2>1. item[w] \in Executions
    BY <1>9 DEF JobReturns, JobRaises
  <2>2. job' \in [Executions -> Jobs]
    <3>1. Completed(job[item[w]]) \in Jobs /\ Raised(job[item[w]]) \in Jobs
      BY <2>1, JobTypes
    <3>2. \/ job' = job
          \/ job' = [job EXCEPT ![item[w]] = Completed(job[item[w]])]
          \/ job' = [job EXCEPT ![item[w]] = Raised(job[item[w]])]
      BY <1>9 DEF JobReturns, JobRaises, Finish
    <3> QED
      BY <2>1, <3>1, <3>2
  <2>3. owner' \in [Executions -> Workers \cup {None}]
    BY <1>9, <2>1 DEF JobReturns, JobRaises, Finish
  <2> QED
    BY <1>9, <2>2, <2>3 DEF JobReturns, JobRaises, Finish
<1>10. ASSUME NEW e \in Executions, LeaseLapses(e)
       PROVE  TypeInv'
  BY <1>10 DEF LeaseLapses
<1>11. ASSUME NEW e \in Executions, Stall(e)
       PROVE  TypeInv'
  <2>1. job' \in [Executions -> Jobs]
    BY <1>11, JobTypes DEF Stall
  <2> QED
    BY <1>11, <2>1 DEF Stall
<1>12. ASSUME NEW w \in Workers, WorkerDies(w)
       PROVE  TypeInv'
  BY <1>12 DEF WorkerDies
<1>13. CASE UNCHANGED vars
  BY <1>13 DEF vars
<1> QED
  BY <1>1, <1>2, <1>3, <1>4, <1>5, <1>6, <1>7, <1>8, <1>9, <1>10, <1>11, <1>12, <1>13
  DEF Next, Kernel, Publisher, Handler

-----------------------------------------------------------------------------
(* The invariant. *)

(* A held lock is a lock on an active job. *)
OwnerActive == \A e \in Executions : owner[e] # None => job[e].state = "active"

(* The handler moves or looks again only at an execution that exists. *)
HandlerKnows ==
  \A w \in Workers : pc[w] \in {"transition", "reread"} => events[item[w]] # <<>>

(* The handler returns only when its execution has left INTAKE. *)
ReturnsAccepted == \A w \in Workers : pc[w] = "return" => Accepted(item[w])

(* Publishers work on rows that exist. *)
ClaimsRowed ==
  \A p \in Publishers :
    /\ \A e \in claims[p] : row[e] # None
    /\ pc[p] \in {"succeeded", "failed"} => row[item[p]] # None

(* After a successful enqueue the job is there. *)
SucceededHasJob ==
  \A p \in Publishers : pc[p] = "succeeded" => job[item[p]].state # "absent"

(* Jobs come from rows, and rows from releases. *)
JobsRowed == \A e \in Executions : job[e].state # "absent" => row[e] # None

Released(e) ==
  /\ events[e] # <<>>
  /\ \/ events[e][1] = "INTAKE"
     \/ Len(events[e]) > 1 /\ events[e][2] = "EXECUTION"

RowsReleased == \A e \in Executions : row[e] # None => Released(e)

Histories == \A e \in Executions : Legal(events[e])

IInv ==
  /\ TypeInv
  /\ OwnerActive /\ HandlerKnows /\ ReturnsAccepted
  /\ ClaimsRowed /\ SucceededHasJob /\ JobsRowed /\ RowsReleased /\ Histories
  /\ DispatchedHasJob /\ CompletedIsAccepted

(* Nothing exists initially. *)
LEMMA IInvInit == Init => IInv
<1> SUFFICES ASSUME Init PROVE IInv
  OBVIOUS
<1>1. TypeInv
  BY TypeInvInit
<1>2. OwnerActive /\ JobsRowed /\ RowsReleased /\ DispatchedHasJob /\ CompletedIsAccepted
  BY DisjointAssumption
  DEF Init, OwnerActive, JobsRowed, RowsReleased, DispatchedHasJob, CompletedIsAccepted, NoJob
<1>3. HandlerKnows /\ ReturnsAccepted /\ ClaimsRowed /\ SucceededHasJob
  BY DEF Init, HandlerKnows, ReturnsAccepted, ClaimsRowed, SucceededHasJob, Processes
<1>4. Histories
  BY DEF Init, Histories, Legal
<1> QED
  BY <1>1, <1>2, <1>3, <1>4 DEF IInv

-----------------------------------------------------------------------------
(* What one step does to a log, a row, a job and a process. *)

(* Only the kernel and the handler's transition write events. *)
LEMMA EventsRest ==
  ASSUME [Next]_vars
  PROVE  \/ events' = events
         \/ \E f \in Executions, s \in StartStatuses : KernelStart(f, s)
         \/ \E f \in Executions, s \in Targets : KernelMove(f, s)
         \/ \E w \in Workers : HandlerTransitions(w)
<1>1. ASSUME NEW p \in Publishers, Publisher(p)
      PROVE  events' = events
  BY <1>1 DEF Publisher, ClaimDispatches, EnqueueSucceeds, EnqueueFails, MarkDispatchSucceeded,
              MarkSucceededRaises, MarkDispatchFailed, MarkFailedRaises, PublisherStops, database
<1>2. ASSUME NEW w \in Workers, Handler(w), ~HandlerTransitions(w)
      PROVE  events' = events
  BY <1>2 DEF Handler, HandlerReads, HandlerTransitionFails, HandlerRereads, JobReturns,
              JobRaises, Finish, database
<1>3. ASSUME NEW w \in Workers, WorkerDies(w) \/ \E f \in Executions : Deliver(w, f)
      PROVE  events' = events
  BY <1>3 DEF WorkerDies, Deliver, database
<1>4. ASSUME NEW f \in Executions, LeaseLapses(f) \/ Stall(f)
      PROVE  events' = events
  BY <1>4 DEF LeaseLapses, Stall, database
<1>5. CASE UNCHANGED vars
  BY <1>5 DEF vars, database
<1> QED
  BY <1>1, <1>2, <1>3, <1>4, <1>5 DEF Next, Kernel

LogGrows(e) ==
  \/ events'[e] = events[e]
  \/ /\ events[e] = <<>>
     /\ \E s \in StartStatuses : events'[e] = <<s>>
  \/ /\ events[e] # <<>>
     /\ \E s \in ExecutionStatus : CanTransition(Status(e), s) /\ events'[e] = Append(events[e], s)

(* Every log only grows, and along the table. *)
LEMMA LogsGrow ==
  ASSUME TypeInv, HandlerKnows, [Next]_vars, NEW e \in Executions
  PROVE  LogGrows(e)
<1> USE DEF TypeInv, TypeOK
<1>1. ASSUME NEW f \in Executions, NEW s \in StartStatuses, KernelStart(f, s)
      PROVE  LogGrows(e)
  BY <1>1 DEF KernelStart, LogGrows
<1>2. ASSUME NEW f \in Executions, NEW s \in Targets, KernelMove(f, s)
      PROVE  LogGrows(e)
  BY <1>2, TargetsAssumption DEF KernelMove, LogGrows
<1>3. ASSUME NEW w \in Workers, HandlerTransitions(w)
      PROVE  LogGrows(e)
  <2>1. item[w] \in Executions /\ events[item[w]] # <<>> /\ "CONTEXT" \in ExecutionStatus
    BY <1>3 DEF HandlerTransitions, HandlerKnows, ItemsFit, ExecutionStatus
  <2>2. CASE Accepts(item[w])
    <3>1. events' = [events EXCEPT ![item[w]] = Append(@, "CONTEXT")]
      BY <1>3, <2>2 DEF HandlerTransitions
    <3>2. CASE e = item[w]
      BY <2>1, <2>2, <3>1, <3>2 DEF LogGrows, Accepts
    <3>3. CASE e # item[w]
      BY <3>1, <3>3 DEF LogGrows
    <3> QED
      BY <3>2, <3>3
  <2>3. CASE ~Accepts(item[w])
    BY <1>3, <2>3 DEF HandlerTransitions, LogGrows
  <2> QED
    BY <2>2, <2>3
<1>4. events' = events => LogGrows(e)
  BY DEF LogGrows
<1> QED
  BY <1>1, <1>2, <1>3, <1>4, EventsRest

StartRows(e) ==
  events[e] = <<>> /\ events'[e] = <<"INTAKE">> => row'[e] # None

(* An ungated start has its dispatch row at once. *)
LEMMA StartsRow ==
  ASSUME TypeInv, HandlerKnows, [Next]_vars, NEW e \in Executions
  PROVE  StartRows(e)
<1> SUFFICES ASSUME events[e] = <<>>, events'[e] = <<"INTAKE">>
             PROVE  row'[e] # None
  BY DEF StartRows
<1> USE DisjointAssumption DEF TypeInv, TypeOK
<1>1. ASSUME NEW f \in Executions, NEW s \in StartStatuses, KernelStart(f, s)
      PROVE  row'[e] # None
  <2>1. f = e
    BY <1>1 DEF KernelStart
  <2>2. s = "INTAKE"
    BY <1>1, <2>1 DEF KernelStart
  <2> QED
    BY <1>1, <2>1, <2>2 DEF KernelStart, Releasing, Dispatch
<1>2. ASSUME NEW f \in Executions, NEW s \in Targets, KernelMove(f, s)
      PROVE  FALSE
  BY <1>2 DEF KernelMove
<1>3. ASSUME NEW w \in Workers, HandlerTransitions(w)
      PROVE  FALSE
  <2>1. item[w] \in Executions /\ item[w] # e
    BY <1>3 DEF HandlerTransitions, HandlerKnows, ItemsFit
  <2>2. events' = [events EXCEPT ![item[w]] = Append(events[item[w]], "CONTEXT")] \/ events' = events
    BY <1>3 DEF HandlerTransitions
  <2>3. events'[e] = events[e] /\ <<>> # <<"INTAKE">>
    BY <2>1, <2>2
  <2> QED
    BY <2>3
<1>4. ASSUME events' = events
      PROVE  FALSE
  <2>1. <<>> # <<"INTAKE">>
    OBVIOUS
  <2>2. events'[e] = events[e]
    BY <1>4
  <2> QED
    BY <2>1, <2>2
<1> QED
  BY <1>1, <1>2, <1>3, <1>4, EventsRest

RowMoves(e) ==
  \/ row'[e] = row[e]
  \/ /\ row[e] = None /\ row'[e] = "PENDING"
     /\ \/ events[e] = <<>> /\ events'[e] = <<"INTAKE">>
        \/ /\ events[e] # <<>> /\ Status(e) = "APPROVAL"
           /\ events'[e] = Append(events[e], "EXECUTION")
  \/ row[e] # None /\ row'[e] \in {"PENDING", "PROCESSING"}
  \/ /\ row[e] # None /\ row'[e] = "DISPATCHED"
     /\ \E p \in Publishers : pc[p] = "succeeded" /\ item[p] = e

(* A row appears only with a release, and is marked DISPATCHED only after  *)
(* a successful enqueue.                                                   *)
LEMMA RowsMove ==
  ASSUME TypeInv, ClaimsRowed, [Next]_vars, NEW e \in Executions
  PROVE  RowMoves(e)
<1> USE DisjointAssumption DEF TypeInv, TypeOK
<1>1. ASSUME NEW f \in Executions, NEW s \in StartStatuses, KernelStart(f, s)
      PROVE  RowMoves(e)
  BY <1>1 DEF KernelStart, Releasing, Dispatch, RowMoves
<1>2. ASSUME NEW f \in Executions, NEW s \in Targets, KernelMove(f, s)
      PROVE  RowMoves(e)
  BY <1>2 DEF KernelMove, Dispatch, RowMoves
<1>3. ASSUME NEW p \in Publishers, NEW batch \in SUBSET Executions, ClaimDispatches(p, batch)
      PROVE  RowMoves(e)
  BY <1>3 DEF ClaimDispatches, Ready, RowMoves
<1>4. ASSUME NEW p \in Publishers,
             MarkDispatchSucceeded(p) \/ MarkSucceededRaises(p) \/ MarkDispatchFailed(p)
               \/ MarkFailedRaises(p)
      PROVE  RowMoves(e)
  <2>1. item[p] \in Executions /\ row[item[p]] # None
    BY <1>4 DEF MarkDispatchSucceeded, MarkSucceededRaises, MarkDispatchFailed,
                MarkFailedRaises, ClaimsRowed, ItemsFit
  <2>2. CASE MarkDispatchSucceeded(p) \/ MarkSucceededRaises(p)
    BY <2>1, <2>2 DEF MarkDispatchSucceeded, MarkSucceededRaises, Mark, RowMoves
  <2>3. CASE MarkDispatchFailed(p) \/ MarkFailedRaises(p)
    BY <2>1, <2>3 DEF MarkDispatchFailed, MarkFailedRaises, Mark, Unpublished, RowMoves
  <2> QED
    BY <1>4, <2>2, <2>3
<1>5. ASSUME NEW p \in Publishers,
             PublisherStops(p)
               \/ \E f \in Executions : EnqueueSucceeds(p, f) \/ EnqueueFails(p, f)
      PROVE  row' = row
  BY <1>5 DEF PublisherStops, EnqueueSucceeds, EnqueueFails, database
<1>6. ASSUME NEW w \in Workers, Handler(w)
      PROVE  row' = row
  BY <1>6 DEF Handler, HandlerReads, HandlerTransitions, HandlerTransitionFails, HandlerRereads,
              JobReturns, JobRaises, Finish, database
<1>7. ASSUME NEW w \in Workers, WorkerDies(w) \/ \E f \in Executions : Deliver(w, f)
      PROVE  row' = row
  BY <1>7 DEF WorkerDies, Deliver, database
<1>8. ASSUME NEW f \in Executions, LeaseLapses(f) \/ Stall(f)
      PROVE  row' = row
  BY <1>8 DEF LeaseLapses, Stall, database
<1>9. CASE UNCHANGED vars
  BY <1>9 DEF vars, database, RowMoves
<1>10. row' = row => RowMoves(e)
  BY DEF RowMoves
<1> QED
  BY <1>1, <1>2, <1>3, <1>4, <1>5, <1>6, <1>7, <1>8, <1>9, <1>10 DEF Next, Kernel, Publisher

JobMoves(e) ==
  \/ job'[e] = job[e]
  \/ /\ job[e].state = "absent" /\ job'[e].state # "absent" /\ job'[e].state # "completed"
     /\ \E p \in Publishers : e \in claims[p]
  \/ /\ job[e].state \in {"waiting", "active"}
     /\ job'[e].state \in {"waiting", "active", "failed"}
  \/ /\ job[e].state = "active" /\ job'[e].state = "completed"
     /\ \E w \in Workers : pc[w] = "return" /\ item[w] = e

(* A job appears only for a claimed row, moves only while it is unfinished *)
(* and completes only when a handler has returned.                         *)
LEMMA JobsMove ==
  ASSUME TypeInv, OwnerActive, [Next]_vars, NEW e \in Executions
  PROVE  JobMoves(e)
<1> USE DisjointAssumption DEF TypeInv, TypeOK
<1>1. ASSUME NEW p \in Publishers, NEW f \in Executions,
             EnqueueSucceeds(p, f) \/ EnqueueFails(p, f)
      PROVE  JobMoves(e)
  <2>1. f \in claims[p]
    BY <1>1 DEF EnqueueSucceeds, EnqueueFails
  <2>2. job' = job \/ job' = [job EXCEPT ![f] = Added(job[f])]
    BY <1>1 DEF EnqueueSucceeds, EnqueueFails, Add
  <2>3. job[f].state # "absent" => Added(job[f]) = job[f]
    BY DEF Added
  <2>4. Added(job[f]).state \notin {"absent", "completed"} \/ Added(job[f]) = job[f]
    BY DEF Added, Jobs, JobState
  <2> QED
    BY <2>1, <2>2, <2>3, <2>4 DEF JobMoves
<1>2. ASSUME NEW w \in Workers, NEW f \in Executions, Deliver(w, f)
      PROVE  JobMoves(e)
  BY <1>2, JobTypes DEF Deliver, JobMoves
<1>3. ASSUME NEW w \in Workers, JobReturns(w)
      PROVE  JobMoves(e)
  <2>1. item[w] \in Executions
    BY <1>3 DEF JobReturns, ItemsFit
  <2>2. CASE owner[item[w]] = w
    <3>1. job[item[w]].state = "active"
      BY <2>1, <2>2 DEF OwnerActive
    <3>2. job' = [job EXCEPT ![item[w]] = Completed(job[item[w]])]
      BY <1>3, <2>2 DEF JobReturns, Finish
    <3>3. Completed(job[item[w]]).state = "completed" /\ pc[w] = "return"
      BY <1>3, <2>1, JobTypes DEF JobReturns
    <3> QED
      BY <2>1, <3>1, <3>2, <3>3 DEF JobMoves
  <2>3. CASE owner[item[w]] # w
    BY <1>3, <2>3 DEF JobReturns, Finish, JobMoves, queue
  <2> QED
    BY <2>2, <2>3
<1>4. ASSUME NEW w \in Workers, JobRaises(w)
      PROVE  JobMoves(e)
  <2>1. item[w] \in Executions
    BY <1>4 DEF JobRaises, ItemsFit
  <2>2. CASE owner[item[w]] = w
    <3>1. job[item[w]].state = "active"
      BY <2>1, <2>2 DEF OwnerActive
    <3>2. job' = [job EXCEPT ![item[w]] = Raised(job[item[w]])]
      BY <1>4, <2>2 DEF JobRaises, Finish
    <3>3. Raised(job[item[w]]).state \in {"waiting", "failed"}
      BY <2>1, JobTypes
    <3> QED
      BY <2>1, <3>1, <3>2, <3>3 DEF JobMoves
  <2>3. CASE owner[item[w]] # w
    BY <1>4, <2>3 DEF JobRaises, Finish, JobMoves, queue
  <2> QED
    BY <2>2, <2>3
<1>5. ASSUME NEW f \in Executions, Stall(f)
      PROVE  JobMoves(e)
  BY <1>5, JobTypes DEF Stall, JobMoves
<1>6. ASSUME Kernel
      PROVE  job' = job
  BY <1>6 DEF Kernel, KernelStart, KernelMove, queue
<1>7. ASSUME NEW p \in Publishers, Publisher(p),
             ~\E f \in Executions : EnqueueSucceeds(p, f) \/ EnqueueFails(p, f)
      PROVE  job' = job
  BY <1>7 DEF Publisher, ClaimDispatches, MarkDispatchSucceeded, MarkSucceededRaises,
              MarkDispatchFailed, MarkFailedRaises, PublisherStops, queue
<1>8. ASSUME NEW w \in Workers, Handler(w), ~JobReturns(w), ~JobRaises(w)
      PROVE  job' = job
  BY <1>8 DEF Handler, HandlerReads, HandlerTransitions, HandlerTransitionFails, HandlerRereads,
              queue
<1>9. ASSUME NEW w \in Workers, WorkerDies(w)
      PROVE  job' = job
  BY <1>9 DEF WorkerDies, queue
<1>10. ASSUME NEW f \in Executions, LeaseLapses(f)
       PROVE  job' = job
  BY <1>10 DEF LeaseLapses, queue
<1>11. CASE UNCHANGED vars
  BY <1>11 DEF vars, queue, JobMoves
<1>12. job' = job => JobMoves(e)
  BY DEF JobMoves
<1> QED
  BY <1>1, <1>2, <1>3, <1>4, <1>5, <1>6, <1>7, <1>8, <1>9, <1>10, <1>11, <1>12
  DEF Next

OwnerMoves(e) ==
  \/ owner'[e] = None
  \/ owner'[e] = owner[e] /\ (job[e].state = "active" => job'[e] = job[e])
  \/ job'[e].state = "active"

(* A lock is taken with the delivery and given up with the job. *)
LEMMA OwnersMove ==
  ASSUME TypeInv, [Next]_vars, NEW e \in Executions
  PROVE  OwnerMoves(e)
<1> USE DisjointAssumption DEF TypeInv, TypeOK
<1>1. ASSUME NEW p \in Publishers, NEW f \in Executions,
             EnqueueSucceeds(p, f) \/ EnqueueFails(p, f)
      PROVE  OwnerMoves(e)
  <2>1. job' = job \/ job' = [job EXCEPT ![f] = Added(job[f])]
    BY <1>1 DEF EnqueueSucceeds, EnqueueFails, Add
  <2>2. job[f].state = "active" => Added(job[f]) = job[f]
    BY DEF Added
  <2>3. owner' = owner
    BY <1>1 DEF EnqueueSucceeds, EnqueueFails
  <2> QED
    BY <2>1, <2>2, <2>3 DEF OwnerMoves
<1>2. ASSUME NEW w \in Workers, NEW f \in Executions, Deliver(w, f)
      PROVE  OwnerMoves(e)
  BY <1>2, JobTypes DEF Deliver, OwnerMoves
<1>3. ASSUME NEW w \in Workers, JobReturns(w) \/ JobRaises(w)
      PROVE  OwnerMoves(e)
  <2>1. item[w] \in Executions
    BY <1>3 DEF JobReturns, JobRaises, ItemsFit
  <2>2. CASE owner[item[w]] = w
    <3>1. \E j : job' = [job EXCEPT ![item[w]] = j]
      BY <1>3, <2>2 DEF JobReturns, JobRaises, Finish
    <3>2. owner' = [owner EXCEPT ![item[w]] = None]
      BY <1>3, <2>2 DEF JobReturns, JobRaises, Finish
    <3> QED
      BY <2>1, <3>1, <3>2 DEF OwnerMoves
  <2>3. CASE owner[item[w]] # w
    BY <1>3, <2>3 DEF JobReturns, JobRaises, Finish, OwnerMoves, queue
  <2> QED
    BY <2>2, <2>3
<1>4. ASSUME NEW f \in Executions, Stall(f)
      PROVE  OwnerMoves(e)
  BY <1>4 DEF Stall, OwnerMoves
<1>5. ASSUME Kernel
      PROVE  UNCHANGED queue
  BY <1>5 DEF Kernel, KernelStart, KernelMove
<1>6. ASSUME NEW p \in Publishers, Publisher(p),
             ~\E f \in Executions : EnqueueSucceeds(p, f) \/ EnqueueFails(p, f)
      PROVE  UNCHANGED queue
  BY <1>6 DEF Publisher, ClaimDispatches, MarkDispatchSucceeded, MarkSucceededRaises,
              MarkDispatchFailed, MarkFailedRaises, PublisherStops
<1>7. ASSUME NEW w \in Workers, Handler(w), ~JobReturns(w), ~JobRaises(w)
      PROVE  UNCHANGED queue
  BY <1>7 DEF Handler, HandlerReads, HandlerTransitions, HandlerTransitionFails, HandlerRereads
<1>8. ASSUME NEW w \in Workers, WorkerDies(w)
      PROVE  UNCHANGED queue
  BY <1>8 DEF WorkerDies
<1>9. ASSUME NEW f \in Executions, LeaseLapses(f)
      PROVE  UNCHANGED queue
  BY <1>9 DEF LeaseLapses
<1>10. CASE UNCHANGED vars
  BY <1>10 DEF vars, queue, OwnerMoves
<1>11. UNCHANGED queue => OwnerMoves(e)
  BY DEF OwnerMoves, queue
<1> QED
  BY <1>1, <1>2, <1>3, <1>4, <1>5, <1>6, <1>7, <1>8, <1>9, <1>10, <1>11
  DEF Next

HandlerMoves(w) ==
  \/ pc'[w] \in {"idle", "handle", "raise"}
  \/ pc'[w] = pc[w] /\ item'[w] = item[w]
  \/ /\ pc[w] = "handle" /\ pc'[w] = Verdict(item[w])
     /\ item'[w] = item[w] /\ events' = events
  \/ /\ pc[w] = "transition" /\ pc'[w] = "reread" /\ item'[w] = item[w]
  \/ /\ pc[w] = "transition" /\ pc'[w] = "return" /\ item'[w] = item[w]
     /\ events'[item[w]] = Append(events[item[w]], "CONTEXT")
  \/ /\ pc[w] = "reread" /\ pc'[w] = "return" /\ item'[w] = item[w]
     /\ Status(item[w]) = "CONTEXT" /\ events' = events

(* What a handler may do next. *)
LEMMA HandlersMove ==
  ASSUME TypeInv, [Next]_vars, NEW w \in Workers
  PROVE  HandlerMoves(w)
<1> USE DisjointAssumption DEF TypeInv, TypeOK, Processes
<1>1. ASSUME NEW v \in Workers, v # w, Handler(v)
      PROVE  pc'[w] = pc[w] /\ item'[w] = item[w]
  BY <1>1 DEF Handler, HandlerReads, HandlerTransitions, HandlerTransitionFails, HandlerRereads,
              JobReturns, JobRaises, Finish, Goto
<1>2. ASSUME NEW v \in Workers, v # w,
             WorkerDies(v) \/ \E f \in Executions : Deliver(v, f)
      PROVE  pc'[w] = pc[w] /\ item'[w] = item[w]
  BY <1>2 DEF WorkerDies, Deliver, Goto
<1>3. ASSUME NEW p \in Publishers, Publisher(p)
      PROVE  pc'[w] = pc[w] /\ item'[w] = item[w]
  BY <1>3 DEF Publisher, ClaimDispatches, EnqueueSucceeds, EnqueueFails, MarkDispatchSucceeded,
              MarkSucceededRaises, MarkDispatchFailed, MarkFailedRaises, PublisherStops,
              NextClaim, Abandon, Goto
<1>4. ASSUME Kernel \/ \E e \in Executions : LeaseLapses(e) \/ Stall(e)
      PROVE  pc'[w] = pc[w] /\ item'[w] = item[w]
  BY <1>4 DEF Kernel, KernelStart, KernelMove, LeaseLapses, Stall
<1>5. ASSUME HandlerReads(w)
      PROVE  HandlerMoves(w)
  BY <1>5 DEF HandlerReads, HandlerMoves, Goto, database
<1>6. ASSUME HandlerTransitions(w)
      PROVE  HandlerMoves(w)
  <2>1. item[w] \in Executions
    BY <1>6 DEF HandlerTransitions, ItemsFit
  <2> QED
    BY <1>6, <2>1 DEF HandlerTransitions, HandlerMoves, Goto
<1>7. ASSUME HandlerTransitionFails(w)
      PROVE  HandlerMoves(w)
  BY <1>7 DEF HandlerTransitionFails, TransitionError, HandlerMoves, Goto
<1>8. ASSUME HandlerRereads(w)
      PROVE  HandlerMoves(w)
  BY <1>8 DEF HandlerRereads, HandlerMoves, Goto, database
<1>9. ASSUME JobReturns(w) \/ JobRaises(w) \/ WorkerDies(w) \/ \E f \in Executions : Deliver(w, f)
      PROVE  HandlerMoves(w)
  BY <1>9 DEF JobReturns, JobRaises, WorkerDies, Deliver, Finish, HandlerMoves, Goto
<1>10. CASE UNCHANGED vars
  BY <1>10 DEF vars, HandlerMoves
<1>11. pc'[w] = pc[w] /\ item'[w] = item[w] => HandlerMoves(w)
  BY DEF HandlerMoves
<1> QED
  BY <1>1, <1>2, <1>3, <1>4, <1>5, <1>6, <1>7, <1>8, <1>9, <1>10, <1>11 DEF Next, Handler

PublisherMoves(p) ==
  /\ \A e \in claims'[p] : e \in claims[p] \/ Ready(e)
  /\ pc'[p] \in {"succeeded", "failed"} =>
       \/ /\ pc[p] \in {"succeeded", "failed"} /\ item'[p] = item[p]
          /\ pc'[p] = "succeeded" => pc[p] = "succeeded"
       \/ /\ item'[p] \in claims[p]
          /\ pc'[p] = "succeeded" => job'[item'[p]].state # "absent"

(* What a publisher may do next. *)
LEMMA PublishersMove ==
  ASSUME TypeInv, [Next]_vars, NEW p \in Publishers
  PROVE  PublisherMoves(p)
<1> USE DisjointAssumption DEF TypeInv, TypeOK, Processes
<1>1. ASSUME NEW q \in Publishers, q # p, Publisher(q)
      PROVE  claims'[p] = claims[p] /\ pc'[p] = pc[p] /\ item'[p] = item[p]
  BY <1>1 DEF Publisher, ClaimDispatches, EnqueueSucceeds, EnqueueFails, MarkDispatchSucceeded,
              MarkSucceededRaises, MarkDispatchFailed, MarkFailedRaises, PublisherStops,
              NextClaim, Abandon, Goto
<1>2. ASSUME NEW w \in Workers,
             Handler(w) \/ WorkerDies(w) \/ \E f \in Executions : Deliver(w, f)
      PROVE  claims'[p] = claims[p] /\ pc'[p] = pc[p] /\ item'[p] = item[p]
  BY <1>2 DEF Handler, HandlerReads, HandlerTransitions, HandlerTransitionFails, HandlerRereads,
              JobReturns, JobRaises, Finish, WorkerDies, Deliver, Goto
<1>3. ASSUME Kernel \/ \E e \in Executions : LeaseLapses(e) \/ Stall(e)
      PROVE  claims'[p] = claims[p] /\ pc'[p] = pc[p] /\ item'[p] = item[p]
  BY <1>3 DEF Kernel, KernelStart, KernelMove, LeaseLapses, Stall
<1>4. ASSUME NEW batch \in SUBSET Executions, ClaimDispatches(p, batch)
      PROVE  PublisherMoves(p)
  BY <1>4 DEF ClaimDispatches, PublisherMoves, Goto
<1>5. ASSUME NEW e \in Executions, EnqueueSucceeds(p, e)
      PROVE  PublisherMoves(p)
  <2>1. job'[e].state # "absent"
    BY <1>5, JobTypes DEF EnqueueSucceeds, Add
  <2>2. e \in claims[p] /\ item'[p] = e /\ claims'[p] \subseteq claims[p]
    BY <1>5 DEF EnqueueSucceeds
  <2> QED
    BY <2>1, <2>2 DEF PublisherMoves
<1>6. ASSUME NEW e \in Executions, EnqueueFails(p, e)
      PROVE  PublisherMoves(p)
  BY <1>6 DEF EnqueueFails, OnError, PublisherMoves, Goto
<1>7. ASSUME MarkDispatchSucceeded(p) \/ MarkDispatchFailed(p)
      PROVE  PublisherMoves(p)
  BY <1>7 DEF MarkDispatchSucceeded, MarkDispatchFailed, NextClaim, PublisherMoves, Goto
<1>8. ASSUME MarkSucceededRaises(p)
      PROVE  PublisherMoves(p)
  BY <1>8 DEF MarkSucceededRaises, PublisherMoves, Goto
<1>9. ASSUME MarkFailedRaises(p) \/ PublisherStops(p)
      PROVE  PublisherMoves(p)
  BY <1>9 DEF MarkFailedRaises, PublisherStops, Abandon, PublisherMoves, Goto
<1>10. CASE UNCHANGED vars
  BY <1>10 DEF vars, PublisherMoves
<1>11. claims'[p] = claims[p] /\ pc'[p] = pc[p] /\ item'[p] = item[p] => PublisherMoves(p)
  BY DEF PublisherMoves
<1> QED
  BY <1>1, <1>2, <1>3, <1>4, <1>5, <1>6, <1>7, <1>8, <1>9, <1>10, <1>11 DEF Next, Publisher

-----------------------------------------------------------------------------
(* The invariant is inductive. *)

(* What a growing log keeps: it stays legal, out of INTAKE and released. *)
LEMMA GrowthKeeps ==
  ASSUME TypeInv, Histories, NEW e \in Executions, LogGrows(e)
  PROVE  /\ Legal(events'[e])
         /\ events[e] # <<>> => events'[e] # <<>>
         /\ Accepted(e) => Accepted(e)'
         /\ Released(e) => Released(e)'
<1> USE DEF TypeInv, TypeOK
<1>1. CASE events'[e] = events[e]
  BY <1>1 DEF Histories, Accepted, Released, Status
<1>2. ASSUME events[e] = <<>>, NEW s \in StartStatuses, events'[e] = <<s>>
      PROVE  /\ Legal(events'[e]) /\ ~Accepted(e) /\ ~Released(e)
  BY <1>2, LegalStart DEF Accepted, Released
<1>3. ASSUME events[e] # <<>>, NEW s \in ExecutionStatus,
             CanTransition(Status(e), s), events'[e] = Append(events[e], s)
      PROVE  /\ Legal(events'[e]) /\ events'[e] # <<>>
             /\ Accepted(e)' /\ (Released(e) => Released(e)')
  <2>1. events[e] \in Seq(ExecutionStatus) /\ Status(e) \in ExecutionStatus
    BY <1>3 DEF Status
  <2>2. Legal(events'[e]) /\ events'[e] # <<>> /\ Status(e)' = s
    BY <1>3, <2>1, LegalAppend DEF Histories, Status
  <2>3. s # "INTAKE"
    BY <1>3, <2>1, TransitionsType DEF CanTransition
  <2>4. Released(e) => Released(e)'
    <3>1. Len(events'[e]) = Len(events[e]) + 1 /\ Len(events[e]) \in Nat \ {0}
      BY <1>3, <2>1
    <3>2. \A i \in 1..Len(events[e]) : events'[e][i] = events[e][i]
      BY <1>3, <2>1
    <3>3. events'[e][1] = events[e][1] /\ (Len(events[e]) > 1 => events'[e][2] = events[e][2])
      BY <3>1, <3>2
    <3>4. Len(events[e]) > 1 => Len(events'[e]) > 1
      BY <3>1
    <3> QED
      BY <2>2, <3>3, <3>4 DEF Released
  <2> QED
    BY <2>2, <2>3, <2>4 DEF Accepted
<1> QED
  BY <1>1, <1>2, <1>3 DEF LogGrows

(* Every step of the system keeps the invariant. *)
LEMMA IInvNext == IInv /\ [Next]_vars => IInv'
<1> SUFFICES ASSUME IInv, [Next]_vars
             PROVE  IInv'
  OBVIOUS
<1> USE DisjointAssumption
<1>1. TypeInv /\ TypeInv'
  BY TypeInvNext DEF IInv
<1>2. \A e \in Executions : LogGrows(e) /\ RowMoves(e) /\ JobMoves(e) /\ OwnerMoves(e)
  BY <1>1, LogsGrow, RowsMove, JobsMove, OwnersMove DEF IInv
<1>3. \A e \in Executions :
        /\ Legal(events'[e])
        /\ events[e] # <<>> => events'[e] # <<>>
        /\ Accepted(e) => Accepted(e)'
        /\ Released(e) => Released(e)'
  BY <1>1, <1>2, GrowthKeeps DEF IInv
<1>4. \A e \in Executions : /\ row[e] # None => row'[e] # None
                            /\ job[e].state # "absent" => job'[e].state # "absent"
  <2> TAKE e \in Executions
  <2>1. row[e] # None => row'[e] # None
    BY <1>2 DEF RowMoves
  <2>2. job[e].state # "absent" => job'[e].state # "absent"
    BY <1>2 DEF JobMoves
  <2> QED
    BY <2>1, <2>2
<1>5. OwnerActive'
  <2> SUFFICES ASSUME NEW e \in Executions, owner'[e] # None
               PROVE  job'[e].state = "active"
    BY DEF OwnerActive
  <2> QED
    BY <1>2 DEF OwnerMoves, OwnerActive, IInv
<1>6. HandlerKnows' /\ ReturnsAccepted'
  <2> SUFFICES ASSUME NEW w \in Workers
               PROVE  /\ pc'[w] \in {"transition", "reread"} => events'[item'[w]] # <<>>
                      /\ pc'[w] = "return" => Accepted(item[w])'
    BY DEF HandlerKnows, ReturnsAccepted
  <2>1. HandlerMoves(w)
    BY <1>1, HandlersMove
  <2>2. pc[w] # "idle" => item[w] \in Executions
    BY <1>1 DEF TypeInv, ItemsFit
  <2>3. CASE pc'[w] \in {"idle", "handle", "raise"}
    BY <2>3
  <2>4. CASE pc'[w] = pc[w] /\ item'[w] = item[w]
    <3>1. pc[w] \in {"transition", "reread"} => events[item[w]] # <<>>
      BY DEF IInv, HandlerKnows
    <3>2. pc[w] = "return" => Accepted(item[w])
      BY DEF IInv, ReturnsAccepted
    <3>3. ASSUME pc[w] = "return" PROVE Accepted(item[w])'
      <4>1. item[w] \in Executions /\ Accepted(item[w])
        BY <2>2, <3>2, <3>3
      <4>2. events'[item[w]] # <<>> /\ events'[item[w]][Len(events'[item[w]])] # "INTAKE"
        BY <1>3, <4>1 DEF Accepted, Status
      <4> QED
        BY <2>4, <4>2 DEF Accepted, Status
    <3> QED
      BY <1>3, <2>2, <2>4, <3>1, <3>3
  <2>5. CASE /\ pc[w] = "handle" /\ pc'[w] = Verdict(item[w])
             /\ item'[w] = item[w] /\ events' = events
    BY <2>5 DEF Verdict, Accepted, Status
  <2>6. CASE pc[w] = "transition" /\ pc'[w] = "reread" /\ item'[w] = item[w]
    <3>1. item[w] \in Executions /\ events[item[w]] # <<>>
      BY <2>2, <2>6 DEF IInv, HandlerKnows
    <3> QED
      BY <1>3, <2>6, <3>1
  <2>7. CASE /\ pc[w] = "transition" /\ pc'[w] = "return" /\ item'[w] = item[w]
             /\ events'[item[w]] = Append(events[item[w]], "CONTEXT")
    <3>1. item[w] \in Executions /\ events[item[w]] \in Seq(ExecutionStatus)
      BY <1>1, <2>2, <2>7 DEF TypeInv, TypeOK
    <3>2. Append(events[item[w]], "CONTEXT") # <<>>
      BY <3>1
    <3>3. LET h == Append(events[item[w]], "CONTEXT") IN h[Len(h)] = "CONTEXT"
      BY <3>1
    <3> QED
      BY <2>7, <3>2, <3>3 DEF Accepted, Status
  <2>8. CASE /\ pc[w] = "reread" /\ pc'[w] = "return" /\ item'[w] = item[w]
             /\ Status(item[w]) = "CONTEXT" /\ events' = events
    <3>1. events[item[w]] # <<>>
      BY <2>8 DEF IInv, HandlerKnows
    <3> QED
      BY <2>8, <3>1 DEF Accepted, Status
  <2> QED
    BY <2>1, <2>3, <2>4, <2>5, <2>6, <2>7, <2>8 DEF HandlerMoves
<1>7. ClaimsRowed' /\ SucceededHasJob'
  <2> SUFFICES ASSUME NEW p \in Publishers
               PROVE  /\ \A e \in claims'[p] : row'[e] # None
                      /\ pc'[p] \in {"succeeded", "failed"} => row'[item'[p]] # None
                      /\ pc'[p] = "succeeded" => job'[item'[p]].state # "absent"
    BY DEF ClaimsRowed, SucceededHasJob
  <2>1. PublisherMoves(p)
    BY <1>1, PublishersMove
  <2>2. /\ claims[p] \subseteq Executions /\ claims'[p] \subseteq Executions
        /\ pc[p] \in {"succeeded", "failed"} => item[p] \in Executions
    BY <1>1 DEF TypeInv, TypeOK, ItemsFit
  <2>3. /\ \A e \in claims[p] : row[e] # None
        /\ pc[p] \in {"succeeded", "failed"} => row[item[p]] # None
        /\ pc[p] = "succeeded" => job[item[p]].state # "absent"
    BY DEF IInv, ClaimsRowed, SucceededHasJob
  <2>4. \A e \in claims'[p] : row'[e] # None
    BY <1>4, <2>1, <2>2, <2>3 DEF PublisherMoves, Ready
  <2>5. pc'[p] \in {"succeeded", "failed"} => row'[item'[p]] # None
    BY <1>4, <2>1, <2>2, <2>3 DEF PublisherMoves
  <2>6. pc'[p] = "succeeded" => job'[item'[p]].state # "absent"
    BY <1>4, <2>1, <2>2, <2>3 DEF PublisherMoves
  <2> QED
    BY <2>4, <2>5, <2>6
<1>8. JobsRowed'
  <2> SUFFICES ASSUME NEW e \in Executions, job'[e].state # "absent"
               PROVE  row'[e] # None
    BY DEF JobsRowed
  <2>1. job[e].state # "absent" \/ \E p \in Publishers : e \in claims[p]
    BY <1>2 DEF JobMoves
  <2>2. row[e] # None
    BY <2>1 DEF IInv, JobsRowed, ClaimsRowed
  <2> QED
    BY <1>4, <2>2
<1>9. RowsReleased'
  <2> SUFFICES ASSUME NEW e \in Executions, row'[e] # None
               PROVE  Released(e)'
    BY DEF RowsReleased
  <2>1. CASE row[e] # None
    BY <1>3, <2>1 DEF IInv, RowsReleased
  <2>2. CASE row[e] = None /\ events'[e] = <<"INTAKE">>
    BY <2>2 DEF Released
  <2>3. CASE /\ row[e] = None /\ events[e] # <<>> /\ Status(e) = "APPROVAL"
             /\ events'[e] = Append(events[e], "EXECUTION")
    <3>1. events[e] \in Seq(ExecutionStatus) /\ Legal(events[e])
      BY <1>1 DEF TypeInv, TypeOK, IInv, Histories
    <3>2. \/ events[e][1] = "INTAKE"
          \/ Len(events'[e]) > 1 /\ events'[e][2] = "EXECUTION"
      BY <2>3, <3>1, GateOpens DEF Status
    <3>3. events'[e] # <<>> /\ events'[e][1] = events[e][1]
      BY <2>3, <3>1
    <3> QED
      BY <3>2, <3>3 DEF Released
  <2> QED
    BY <1>2, <2>1, <2>2, <2>3 DEF RowMoves
<1>10. Histories'
  BY <1>3 DEF Histories
<1>11. DispatchedHasJob'
  <2> SUFFICES ASSUME NEW e \in Executions, row'[e] = "DISPATCHED"
               PROVE  job'[e].state # "absent"
    BY DEF DispatchedHasJob
  <2>1. row[e] = "DISPATCHED" \/ \E p \in Publishers : pc[p] = "succeeded" /\ item[p] = e
    BY <1>2 DEF RowMoves
  <2>2. job[e].state # "absent"
    BY <2>1 DEF IInv, DispatchedHasJob, SucceededHasJob
  <2> QED
    BY <1>4, <2>2
<1>12. CompletedIsAccepted'
  <2> SUFFICES ASSUME NEW e \in Executions, job'[e].state = "completed"
               PROVE  Accepted(e)'
    BY DEF CompletedIsAccepted
  <2>1. \/ job[e].state = "completed"
        \/ \E w \in Workers : pc[w] = "return" /\ item[w] = e
    BY <1>2 DEF JobMoves
  <2>2. Accepted(e)
    BY <2>1 DEF IInv, CompletedIsAccepted, ReturnsAccepted
  <2> QED
    BY <1>3, <2>2
<1> QED
  BY <1>1, <1>5, <1>6, <1>7, <1>8, <1>9, <1>10, <1>11, <1>12 DEF IInv

-----------------------------------------------------------------------------
(* Theorems. *)

(* Every row, job, claim and program counter keeps its type, whatever      *)
(* fails and whoever interferes.                                           *)
THEOREM TypeCorrect == Spec => []TypeOK
<1>1. Spec => []TypeInv
  BY TypeInvInit, TypeInvNext, PTL DEF Spec
<1>2. TypeInv => TypeOK
  BY DEF TypeInv
<1> QED
  BY <1>1, <1>2, PTL

(* A row marked DISPATCHED has its job, whichever publishers claim, lose   *)
(* and mark it and whatever fails between the database and the queue.      *)
THEOREM DispatchedHasJobTheorem == Spec => []DispatchedHasJob
<1>1. IInv => DispatchedHasJob
  BY DEF IInv
<1> QED
  BY <1>1, IInvInit, IInvNext, PTL DEF Spec

(* A completed job has brought its execution out of INTAKE, for any number *)
(* of deliveries, stalls and retries.                                      *)
THEOREM CompletedIsAcceptedTheorem == Spec => []CompletedIsAccepted
<1>1. IInv => CompletedIsAccepted
  BY DEF IInv
<1> QED
  BY <1>1, IInvInit, IInvNext, PTL DEF Spec

(* Nothing that start() put behind an approval reaches the queue before    *)
(* the approval.                                                           *)
THEOREM GateBeforeQueueTheorem == Spec => []GateBeforeQueue
<1>1. IInv => GateBeforeQueue
  BY DEF IInv, JobsRowed, RowsReleased, Released, GateBeforeQueue
<1> QED
  BY <1>1, IInvInit, IInvNext, PTL DEF Spec

(* A job that completed or used up its attempts never runs again.          *)
THEOREM FinishedStaysFinishedTheorem == Spec => FinishedStaysFinished
<1>1. ASSUME IInv, [Next]_vars, NEW e \in Executions, job[e].state \in {"completed", "failed"}
      PROVE  job'[e] = job[e]
  BY <1>1, JobsMove DEF IInv, JobMoves
<1>2. IInv /\ [Next]_vars =>
        [\A e \in Executions :
           job[e].state \in {"completed", "failed"} => job'[e] = job[e]]_vars
  BY <1>1
<1> QED
  BY <1>2, IInvInit, IInvNext, PTL DEF Spec, FinishedStaysFinished

(* Publishers and handlers keep the lifecycle the kernel promises: every   *)
(* behaviour of this module is one of ExecutionLifecycle.                  *)
THEOREM ImplementsLifecycleTheorem == Spec => ImplementsLifecycle
<1> DEFINE outbox == {e \in Executions : row[e] # None}
<1>1. Init => Lifecycle!Init
  BY DEF Init, Lifecycle!Init
<1>2. ASSUME IInv, IInv', [Next]_vars
      PROVE  [Lifecycle!Next]_<<events, outbox>>
  <2>1. events' \in [Executions -> Seq(ExecutionStatus)]
    BY <1>2 DEF IInv, TypeInv, TypeOK
  <2>2. ASSUME NEW e \in Executions
        PROVE  Lifecycle!Begin(e) \/ Lifecycle!Advance(e) \/ Lifecycle!Rest(e)
    <3>1. LogGrows(e) /\ RowMoves(e) /\ StartRows(e)
      BY <1>2, LogsGrow, RowsMove, StartsRow DEF IInv
    <3>2. /\ e \in outbox <=> row[e] # None
          /\ e \in outbox' <=> row'[e] # None
      OBVIOUS
    <3>3. /\ row[e] # None => row'[e] # None
          /\ row[e] = None /\ row'[e] # None =>
               \/ events[e] = <<>> /\ events'[e] = <<"INTAKE">>
               \/ /\ events[e] # <<>> /\ Status(e) = "APPROVAL"
                  /\ events'[e] = Append(events[e], "EXECUTION")
      BY <3>1, DisjointAssumption DEF RowMoves
    <3>4. row[e] # None => events[e] # <<>>
      BY <1>2 DEF IInv, RowsReleased, Released
    <3>5. CASE events'[e] = events[e]
      <4>1. row[e] = None => row'[e] = None
        <5>1. events[e] \in Seq(ExecutionStatus)
          BY <1>2 DEF IInv, TypeInv, TypeOK
        <5>2. events[e] # Append(events[e], "EXECUTION") /\ <<>> # <<"INTAKE">>
          BY <5>1
        <5> QED
          BY <3>3, <3>5, <5>2
      <4> QED
        BY <3>2, <3>3, <3>5, <4>1 DEF Lifecycle!Rest
    <3>6. ASSUME events[e] = <<>>, NEW s \in StartStatuses, events'[e] = <<s>>
          PROVE  Lifecycle!Begin(e)
      BY <3>1, <3>2, <3>3, <3>4, <3>6 DEF Lifecycle!Begin, StartRows,
         Lifecycle!StartStatuses, StartStatuses
    <3>7. ASSUME events[e] # <<>>, NEW s \in ExecutionStatus,
                 CanTransition(Status(e), s), events'[e] = Append(events[e], s)
          PROVE  Lifecycle!Advance(e)
      <4>1. events[e] \in Seq(ExecutionStatus)
        BY <1>2 DEF IInv, TypeInv, TypeOK
      <4>2. Append(events[e], s) = Append(events[e], "EXECUTION") => s = "EXECUTION"
        BY <4>1
      <4>3. row[e] = None /\ row'[e] # None => Status(e) = "APPROVAL" /\ s = "EXECUTION"
        BY <3>3, <3>7, <4>2
      <4> QED
        BY <3>2, <3>3, <3>7, <4>3 DEF Lifecycle!Advance, Lifecycle!CanTransition, CanTransition,
           Lifecycle!transitions, transitions, Lifecycle!ExecutionStatus, ExecutionStatus, Status
    <3> QED
      BY <3>1, <3>5, <3>6, <3>7 DEF LogGrows
  <2> QED
    BY <2>1, <2>2 DEF Lifecycle!Next, Lifecycle!ExecutionStatus, ExecutionStatus
<1> QED
  BY <1>1, <1>2, IInvInit, IInvNext, PTL DEF Spec, ImplementsLifecycle, Lifecycle!Spec, Lifecycle!vars
=============================================================================
