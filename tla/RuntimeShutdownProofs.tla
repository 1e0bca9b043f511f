-------------------------- MODULE RuntimeShutdownProofs --------------------------
(***************************************************************************)
(* The safety of RuntimeShutdown for any signals and any concurrency of    *)
(* the worker.                                                             *)
(***************************************************************************)
EXTENDS RuntimeShutdown, TLAPS

AfterSweeper == {"dispatcher", "worker", "publisher", "pool"}
AfterDispatcher == {"worker", "publisher", "pool"}
AfterWorker == {"publisher", "pool"}

(* One signal at most shuts down, and it finds the runtime started. *)
OneShutdown ==
  /\ ~stopping => started
  /\ \A s \in Signals : pc[s] # "idle" => stopping /\ wasStarted[s]
  /\ \A s, t \in Signals : pc[s] # "idle" /\ pc[t] # "idle" => s = t

(* What has been stopped and awaited stays quiet. *)
StoppedInOrder ==
  \A s \in Signals :
    /\ pc[s] # "idle" => ~sRunning
    /\ pc[s] \in AfterSweeper => ~sBusy /\ ~dRunning
    /\ pc[s] \in AfterDispatcher => ~dBusy /\ ~workerOpen
    /\ pc[s] \in AfterWorker => jobs = {}

(* A connection is closed by the shutdown that has come so far. *)
ClosedInOrder ==
  /\ ~queueOpen => \E s \in Signals : pc[s] \in AfterWorker
  /\ ~poolOpen => \E s \in Signals : pc[s] = "pool"
  /\ process = "exit 0" => \E s \in Signals : pc[s] = "pool"

IInv == TypeOK /\ OneShutdown /\ StoppedInOrder /\ ClosedInOrder

LEMMA IInvInit == Init => IInv
BY DEF Init, IInv, TypeOK, Steps, OneShutdown, StoppedInOrder, ClosedInOrder,
       AfterSweeper, AfterDispatcher, AfterWorker

(* What each step does to the parts of the invariant. *)
LEMMA IInvNext == IInv /\ [Next]_vars => IInv'
<1> SUFFICES ASSUME IInv, [Next]_vars PROVE IInv'
  OBVIOUS
<1> USE DEF IInv, TypeOK, Steps, OneShutdown, StoppedInOrder, ClosedInOrder,
            AfterSweeper, AfterDispatcher, AfterWorker, Alive, Goto,
            dispatcher, sweeper, connections, control
<1>1. ASSUME DispatcherWorks PROVE IInv'
  <2>1. TypeOK'
    BY <1>1 DEF DispatcherWorks, Dispatcher!Poll, Dispatcher!Settle
  <2>2. OneShutdown'
    BY <1>1 DEF DispatcherWorks, Dispatcher!Poll, Dispatcher!Settle
  <2>3. StoppedInOrder'
    BY <1>1 DEF DispatcherWorks, Dispatcher!Poll, Dispatcher!Settle
  <2>4. ClosedInOrder'
    BY <1>1 DEF DispatcherWorks, Dispatcher!Poll, Dispatcher!Settle
  <2> QED
    BY <2>1, <2>2, <2>3, <2>4
<1>2. ASSUME SweeperWorks PROVE IInv'
  <2>1. TypeOK'
    BY <1>2 DEF SweeperWorks, Sweeper!Poll, Sweeper!Settle
  <2>2. OneShutdown'
    BY <1>2 DEF SweeperWorks, Sweeper!Poll, Sweeper!Settle
  <2>3. StoppedInOrder'
    BY <1>2 DEF SweeperWorks, Sweeper!Poll, Sweeper!Settle
  <2>4. ClosedInOrder'
    BY <1>2 DEF SweeperWorks, Sweeper!Poll, Sweeper!Settle
  <2> QED
    BY <2>1, <2>2, <2>3, <2>4
<1>3. ASSUME NEW w \in Slots, JobStarts(w) PROVE IInv'
  BY <1>3 DEF JobStarts, TakesJobs
<1>4. ASSUME NEW w \in Slots, JobEnds(w) PROVE IInv'
  BY <1>4 DEF JobEnds
<1>5. ASSUME NEW s \in Signals, Signal(s) PROVE IInv'
  <2>1. CASE stopping
    BY <1>5, <2>1 DEF Signal, MayShutDown
  <2>2. CASE ~stopping
    BY <1>5, <2>2 DEF Signal, MayShutDown, Sweeper!Stop
  <2> QED
    BY <2>1, <2>2
<1>6. ASSUME NEW s \in Signals, SignalAgain(s) PROVE IInv'
  BY <1>6 DEF SignalAgain
<1>7. ASSUME NEW s \in Signals, SweeperStopped(s) PROVE IInv'
  <2>1. TypeOK'
    <3>1. Dispatcher!Stop(s) /\ pc' = [pc EXCEPT ![s] = "dispatcher"] /\ UNCHANGED workerOpen
      BY <1>7 DEF SweeperStopped, StopsDispatcher
    <3>2. pc' \in [Signals -> Steps] /\ dRunning' \in BOOLEAN /\ dStopping' \in SUBSET Signals
      BY <3>1 DEF Dispatcher!Stop
    <3>3. dBusy' = dBusy /\ sRunning' = sRunning /\ sBusy' = sBusy /\ sStopping' \in SUBSET Signals
      BY <1>7, <3>1 DEF SweeperStopped, Sweeper!StopReturns, Dispatcher!Stop
    <3> QED
      BY <1>7, <3>1, <3>2, <3>3 DEF SweeperStopped
  <2>2. OneShutdown'
    BY <1>7 DEF SweeperStopped, StopsDispatcher, Sweeper!StopReturns, Dispatcher!Stop
  <2>3. StoppedInOrder'
    BY <1>7 DEF SweeperStopped, StopsDispatcher, Sweeper!StopReturns, Dispatcher!Stop
  <2>4. ClosedInOrder'
    BY <1>7 DEF SweeperStopped, StopsDispatcher, Sweeper!StopReturns, Dispatcher!Stop
  <2> QED
    BY <2>1, <2>2, <2>3, <2>4
<1>8. ASSUME NEW s \in Signals, DispatcherStopped(s) PROVE IInv'
  BY <1>8 DEF DispatcherStopped, Dispatcher!StopReturns
<1>9. ASSUME NEW s \in Signals, WorkerClosed(s) PROVE IInv'
  BY <1>9 DEF WorkerClosed
<1>10. ASSUME NEW s \in Signals, PublisherClosed(s) PROVE IInv'
  BY <1>10 DEF PublisherClosed
<1>11. ASSUME NEW s \in Signals, PoolEnded(s) PROVE IInv'
  BY <1>11 DEF PoolEnded
<1>12. ASSUME NEW s \in Signals, CloseRejects(s) PROVE IInv'
  BY <1>12 DEF CloseRejects, Failure
<1>13. ASSUME UNCHANGED vars PROVE IInv'
  BY <1>13 DEF vars
<1> QED
  BY <1>1, <1>2, <1>3, <1>4, <1>5, <1>6, <1>7, <1>8, <1>9, <1>10, <1>11, <1>12, <1>13
     DEF Next, Shutdown

-----------------------------------------------------------------------------
(* Flags, slots and steps keep their types. *)
THEOREM TypeCorrect == Spec => []TypeOK
BY IInvInit, IInvNext, PTL DEF Spec, IInv

(* The queue and the pool are closed only after their last user. *)
THEOREM ConnectionsOutliveWorkTheorem == Spec => []ConnectionsOutliveWork
<1>1. IInv => ConnectionsOutliveWork
  BY DEF IInv, StoppedInOrder, ClosedInOrder, ConnectionsOutliveWork,
         AfterSweeper, AfterDispatcher, AfterWorker
<1> QED
  BY <1>1, IInvInit, IInvNext, PTL DEF Spec

(* Exit code 0 cuts no publish, sweep or handler off. *)
THEOREM CleanExitTheorem == Spec => []CleanExit
<1>1. IInv => CleanExit
  BY DEF IInv, StoppedInOrder, ClosedInOrder, CleanExit,
         AfterSweeper, AfterDispatcher, AfterWorker
<1> QED
  BY <1>1, IInvInit, IInvNext, PTL DEF Spec
=============================================================================
