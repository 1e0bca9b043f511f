---------------------------- MODULE RuntimeShutdown ----------------------------
(***************************************************************************)
(* The runtime process from start to exit:   main's signal handlers and    *)
(* ExecutionRuntime.stop(), which stops sweeper, dispatcher, worker and    *)
(* queue one after the other while each may have work under way.           *)
(*                                                                         *)
(* The two polling loops are their PollingPromise.  The worker (BullMQ)    *)
(* and the pool (pg) are external: close() takes no more jobs and resolves *)
(* when the active ones have ended; any close may reject.                  *)
(***************************************************************************)
CONSTANTS
  Signals,   \* SIGINT, SIGTERM
  Slots      \* the worker's concurrency

VARIABLES
  started,                        \* ExecutionRuntime.started
  dRunning, dBusy, dStopping,     \* the dispatcher
  sRunning, sBusy, sStopping,     \* the approval sweeper
  jobs,                           \* slots whose handler runs
  workerOpen, queueOpen, poolOpen,
  signalled,                      \* signals whose once-listener has fired
  stopping,                       \* main's variable
  pc,                             \* where the shutdown of each signal is
  wasStarted,                     \* which branch of stop() it took
  process                         \* running, killed, or the exit code

dispatcher  == <<dRunning, dBusy, dStopping>>
sweeper     == <<sRunning, sBusy, sStopping>>
connections == <<workerOpen, queueOpen, poolOpen>>
control     == <<started, signalled, stopping, pc, wasStarted>>
vars == <<dispatcher, sweeper, connections, control, jobs, process>>

Dispatcher == INSTANCE PollingPromise
                WITH Callers <- Signals,
                     running <- dRunning, busy <- dBusy, stopping <- dStopping
Sweeper == INSTANCE PollingPromise
             WITH Callers <- Signals,
                  running <- sRunning, busy <- sBusy, stopping <- sStopping

(* What the shutdown of a signal awaits. *)
Steps == {"idle", "sweeper", "dispatcher", "worker", "publisher", "pool"}

(* main() runs up to runtime.start() without yielding: both loops have     *)
(* been started, the worker consumes, the listeners are registered.        *)
Init ==
  /\ started = TRUE
  /\ dRunning = TRUE /\ dBusy = FALSE /\ dStopping = {}
  /\ sRunning = TRUE /\ sBusy = FALSE /\ sStopping = {}
  /\ jobs = {}
  /\ workerOpen = TRUE /\ queueOpen = TRUE /\ poolOpen = TRUE
  /\ signalled = {} /\ stopping = FALSE
  /\ pc = [s \in Signals |-> "idle"]
  /\ wasStarted = [s \in Signals |-> FALSE]
  /\ process = "running"

Alive == process = "running"
Goto(s, step) == pc' = [pc EXCEPT ![s] = step]

-----------------------------------------------------------------------------
(* Work. *)

DispatcherWorks ==
  /\ Alive
  /\ Dispatcher!Poll \/ Dispatcher!Settle
  /\ UNCHANGED <<sweeper, connections, control, jobs, process>>

SweeperWorks ==
  /\ Alive
  /\ Sweeper!Poll \/ Sweeper!Settle
  /\ UNCHANGED <<dispatcher, connections, control, jobs, process>>

FaultyTakesJobs == poolOpen
TakesJobs == workerOpen

JobStarts(w) ==
  /\ Alive /\ TakesJobs /\ w \notin jobs
  /\ jobs' = jobs \cup {w}
  /\ UNCHANGED <<dispatcher, sweeper, connections, control, process>>

JobEnds(w) ==
  /\ Alive /\ w \in jobs
  /\ jobs' = jobs \ {w}
  /\ UNCHANGED <<dispatcher, sweeper, connections, control, process>>

-----------------------------------------------------------------------------
(* Signals.  A listener registered with once() is gone after it has fired: *)
(* a second signal of the same kind kills the process.                     *)

FaultyMayShutDown == TRUE
MayShutDown == ~stopping

Signal(s) ==
  /\ Alive /\ s \notin signalled
  /\ signalled' = signalled \cup {s}
  /\ IF MayShutDown
       THEN /\ stopping' = TRUE
            /\ started' = FALSE
            /\ wasStarted' = [wasStarted EXCEPT ![s] = started]
            /\ Sweeper!Stop(s)
            /\ Goto(s, "sweeper")
       ELSE UNCHANGED <<stopping, started, wasStarted, sweeper, pc>>
  /\ UNCHANGED <<dispatcher, connections, jobs, process>>

SignalAgain(s) ==
  /\ Alive /\ s \in signalled
  /\ process' = "killed"
  /\ UNCHANGED <<dispatcher, sweeper, connections, control, jobs>>

-----------------------------------------------------------------------------
(* ExecutionRuntime.stop() and the rest of shutdown().  Each await returns *)
(* and the next call is made in one step.                                  *)

FaultyStopsDispatcher(s) == FALSE
StopsDispatcher(s) == wasStarted[s]

SweeperStopped(s) ==
  /\ Alive /\ pc[s] = "sweeper"
  /\ Sweeper!StopReturns(s)
  /\ IF StopsDispatcher(s)
       THEN Dispatcher!Stop(s) /\ Goto(s, "dispatcher") /\ UNCHANGED workerOpen
       ELSE workerOpen' = FALSE /\ Goto(s, "worker") /\ UNCHANGED dispatcher
  /\ UNCHANGED <<queueOpen, poolOpen, started, signalled, stopping, wasStarted, jobs, process>>

DispatcherStopped(s) ==
  /\ Alive /\ pc[s] = "dispatcher"
  /\ Dispatcher!StopReturns(s)
  /\ workerOpen' = FALSE
  /\ Goto(s, "worker")
  /\ UNCHANGED <<sweeper, queueOpen, poolOpen, started, signalled, stopping, wasStarted, jobs, process>>

WorkerClosed(s) ==
  /\ Alive /\ pc[s] = "worker" /\ jobs = {}
  /\ queueOpen' = FALSE
  /\ Goto(s, "publisher")
  /\ UNCHANGED <<dispatcher, sweeper, workerOpen, poolOpen, started, signalled, stopping, wasStarted, jobs, process>>

PublisherClosed(s) ==
  /\ Alive /\ pc[s] = "publisher"
  /\ poolOpen' = FALSE
  /\ Goto(s, "pool")
  /\ UNCHANGED <<dispatcher, sweeper, workerOpen, queueOpen, started, signalled, stopping, wasStarted, jobs, process>>

PoolEnded(s) ==
  /\ Alive /\ pc[s] = "pool"
  /\ process' = "exit 0"
  /\ UNCHANGED <<dispatcher, sweeper, connections, control, jobs>>

Failure == "exit 1"

CloseRejects(s) ==
  /\ Alive /\ pc[s] \in {"worker", "publisher", "pool"}
  /\ process' = Failure
  /\ UNCHANGED <<dispatcher, sweeper, connections, control, jobs>>

-----------------------------------------------------------------------------
Shutdown(s) ==
  \/ SweeperStopped(s) \/ DispatcherStopped(s) \/ WorkerClosed(s)
  \/ PublisherClosed(s) \/ PoolEnded(s)

Next ==
  \/ DispatcherWorks \/ SweeperWorks
  \/ \E w \in Slots : JobStarts(w) \/ JobEnds(w)
  \/ \E s \in Signals : Signal(s) \/ SignalAgain(s) \/ Shutdown(s) \/ CloseRejects(s)

Spec == Init /\ [][Next]_vars

(* Calls under way settle, handlers return, and awaits that are ready go   *)
(* on.                                                                     *)
Fairness ==
  /\ WF_vars(dBusy /\ DispatcherWorks) /\ WF_vars(sBusy /\ SweeperWorks)
  /\ \A w \in Slots : WF_vars(JobEnds(w))
  /\ \A s \in Signals : WF_vars(Shutdown(s))

FairSpec == Spec /\ Fairness

-----------------------------------------------------------------------------
(* Properties. *)

(* Flags, slots and steps hold values of their kind.                       *)
TypeOK ==
  /\ \A flag \in {started, dRunning, dBusy, sRunning, sBusy, workerOpen,
                   queueOpen, poolOpen, stopping} : flag \in BOOLEAN
  /\ dStopping \in SUBSET Signals /\ sStopping \in SUBSET Signals
  /\ signalled \in SUBSET Signals /\ jobs \in SUBSET Slots
  /\ pc \in [Signals -> Steps] /\ wasStarted \in [Signals -> BOOLEAN]
  /\ process \in {"running", "killed", "exit 0", "exit 1"}

(* No publish is under way on a closed queue, and no publish, sweep or     *)
(* handler on an ended pool: stop() closes each only after its last user.  *)
ConnectionsOutliveWork ==
  /\ ~queueOpen => ~dBusy
  /\ ~poolOpen => ~dBusy /\ ~sBusy /\ jobs = {}

(* "Graceful shutdown is handled on SIGINT / SIGTERM": exit code 0 means   *)
(* that no publish, sweep or handler was cut off, also when the other      *)
(* signal arrives during the shutdown.                                     *)
CleanExit == process = "exit 0" => ~dBusy /\ ~sBusy /\ jobs = {}

(* A signal ends the process whatever work is under way when it arrives.   *)
ShutdownCompletes == signalled # {} ~> process # "running"
=============================================================================
