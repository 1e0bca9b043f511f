------------------------------ MODULE PollingLoop ------------------------------
(***************************************************************************)
(* ExecutionOutboxDispatcher: start(), stop(), runOnce() and the ticks     *)
(* that reschedule themselves.  ApprovalExpirySweeper is the same loop,    *)
(* in which every call counts as a success.                                *)
(*                                                                         *)
(* One event loop runs everything: timers fire, calls settle and a waiting *)
(* stop() wakes one at a time.  When a tick's call settles, `publishing'   *)
(* is reset one microtask before the tick goes on; only other microtasks   *)
(* come between.  A chain is a tick and the timers it arms in succession.  *)
(***************************************************************************)
EXTENDS Integers, FiniteSets

CONSTANTS
  Callers,        \* whoever calls start() and stop()
  Direct,         \* callers of runOnce() besides the ticks
  Chains,         \* bounds the chains that overlapping restarts create
  Options,        \* pairs of pollIntervalMs and maxBackoffMs
  None            \* no timer

ASSUME ChainsAssumption == None \notin Chains /\ Chains \cap Direct = {}
ASSUME OptionsAssumption == Options \subseteq Int \X Int

VARIABLES
  options,    \* the options the loop is constructed with
  eager,      \* whether its callers start it while a stop() is waiting
  running, publishing,
  timer,      \* the chain whose timer the field `timer' holds
  chain,      \* what each chain is at
  backoff,    \* failureBackoffMs
  stopping,   \* the stop() calls that have not returned
  direct      \* the direct runOnce() calls under way

setting == <<options, eager>>
vars == <<setting, running, publishing, timer, chain, backoff, stopping, direct>>

Least(a, b) == IF a <= b THEN a ELSE b
Greatest(a, b) == IF a >= b THEN a ELSE b

pollIntervalMs == Least(Greatest(options[1], 100), 60000)
maxBackoffMs == Least(Greatest(options[2], pollIntervalMs), 300000)

ChainState == {"none", "armed", "publishing", "succeeded", "failed"}

Init ==
  /\ options \in Options /\ eager \in BOOLEAN
  /\ running = FALSE /\ publishing = FALSE
  /\ timer = None
  /\ chain = [c \in Chains |-> "none"]
  /\ backoff = 0
  /\ stopping = {} /\ direct = {}

Settled == {c \in Chains : chain[c] \in {"succeeded", "failed"}}
NoMicrotask == Settled = {}

-----------------------------------------------------------------------------
(* start() and stop(). *)

MayStart == eager \/ stopping = {}

Start ==
  /\ MayStart
  /\ ~running
  /\ running' = TRUE
  /\ \E c \in Chains :
       /\ chain[c] = "none"
       /\ chain' = [chain EXCEPT ![c] = "armed"]
       /\ timer' = c
  /\ UNCHANGED <<setting, publishing, backoff, stopping, direct>>

(* clearTimeout reaches the timer that the field holds and no other.       *)
FaultyCleared == chain
Cleared == [c \in Chains |-> IF c = timer THEN "none" ELSE chain[c]]

Stop(u) ==
  /\ u \notin stopping
  /\ running' = FALSE
  /\ chain' = Cleared
  /\ timer' = None
  /\ stopping' = stopping \cup {u}
  /\ UNCHANGED <<setting, publishing, backoff, direct>>

MayReturn == ~publishing

(* Whoever awaits the stop goes on after the tick that it waited for.      *)
StopReturns(u) ==
  /\ u \in stopping /\ MayReturn /\ NoMicrotask
  /\ stopping' = stopping \ {u}
  /\ UNCHANGED <<setting, running, publishing, timer, chain, backoff, direct>>

-----------------------------------------------------------------------------
(* tick() and runOnce(). *)

FaultyBusy == FALSE
Busy == publishing

FaultyTickRuns == TRUE
TickRuns == running

(* A tick that finds `publishing' set gets a result without failures.      *)
Tick(c) ==
  /\ chain[c] = "armed" /\ NoMicrotask
  /\ timer' = None
  /\ IF TickRuns /\ ~Busy
       THEN publishing' = TRUE /\ chain' = [chain EXCEPT ![c] = "publishing"]
       ELSE /\ chain' = [chain EXCEPT ![c] = IF TickRuns THEN "succeeded" ELSE "none"]
            /\ UNCHANGED publishing
  /\ UNCHANGED <<setting, running, backoff, stopping, direct>>

(* result.failed = 0, or failures counted, or the call rejects.            *)
CallSettles(c, outcome) ==
  /\ chain[c] = "publishing" /\ NoMicrotask
  /\ publishing' = FALSE
  /\ chain' = [chain EXCEPT ![c] = outcome]
  /\ UNCHANGED <<setting, running, timer, backoff, stopping, direct>>

FaultyNextBackoff(b) == IF b = 0 THEN 2 * pollIntervalMs ELSE 2 * b
NextBackoff(b) == IF b = 0 THEN 2 * pollIntervalMs ELSE Least(maxBackoffMs, 2 * b)

FaultyReschedules(c) == running /\ chain[c] # "failed"
Reschedules(c) == running

TickEnds(c) ==
  /\ c \in Settled
  /\ backoff' = IF chain[c] = "failed" THEN NextBackoff(backoff) ELSE 0
  /\ IF Reschedules(c)
       THEN chain' = [chain EXCEPT ![c] = "armed"] /\ timer' = c
       ELSE chain' = [chain EXCEPT ![c] = "none"] /\ UNCHANGED timer
  /\ UNCHANGED <<setting, running, publishing, stopping, direct>>

DirectCall(d) ==
  /\ d \notin direct /\ ~Busy
  /\ publishing' = TRUE
  /\ direct' = direct \cup {d}
  /\ UNCHANGED <<setting, running, timer, chain, backoff, stopping>>

DirectSettles(d) ==
  /\ d \in direct /\ NoMicrotask
  /\ publishing' = FALSE
  /\ direct' = direct \ {d}
  /\ UNCHANGED <<setting, running, timer, chain, backoff, stopping>>

-----------------------------------------------------------------------------
Loop(c) == Tick(c) \/ TickEnds(c) \/ \E o \in {"succeeded", "failed"} : CallSettles(c, o)

Next ==
  \/ Start
  \/ \E u \in Callers : Stop(u) \/ StopReturns(u)
  \/ \E c \in Chains : Loop(c)
  \/ \E d \in Direct : DirectCall(d) \/ DirectSettles(d)

Spec == Init /\ [][Next]_vars

(* The event loop runs what is due; a call to the database and the queue   *)
(* settles in the end, one way or the other.                               *)
Fairness ==
  /\ \A c \in Chains : WF_vars(Loop(c))
  /\ \A u \in Callers : WF_vars(StopReturns(u))
  /\ \A d \in Direct : WF_vars(DirectSettles(d))

FairSpec == Spec /\ Fairness

-----------------------------------------------------------------------------
(* Properties. *)

InFlight == {c \in Chains : chain[c] = "publishing"} \cup direct

(* Flags, chains and timers hold values of their kind.                     *)
TypeOK ==
  /\ options \in Options /\ {eager, running, publishing} \subseteq BOOLEAN
  /\ timer \in Chains \cup {None}
  /\ chain \in [Chains -> ChainState]
  /\ backoff \in Nat
  /\ stopping \in SUBSET Callers /\ direct \in SUBSET Direct

(* "One publish cycle without overlapping publishers" (the dispatcher's    *)
(* test), also when restarts have left several chains ticking.             *)
NonOverlap == \A a, b \in InFlight : a = b

(* Once every stop() has returned and nobody has started the loop again,   *)
(* no call of a tick is under way, whatever timers were left behind.       *)
StoppedIsQuiet == ~running /\ stopping = {} => \A c \in Chains : chain[c] # "publishing"

(* A loop that is never started during a stop() has at most one chain: its *)
(* polling rate is the configured one however often it is restarted.       *)
SingleChain == ~eager => \A c, d \in Chains : chain[c] # "none" /\ chain[d] # "none" => c = d

(* A back-off never shortens the poll interval and stays within the        *)
(* configured maximum, but for the first one after a success: twice the    *)
(* poll interval, whatever the maximum (publishLoop() does not cap it).    *)
BackoffBounded ==
  \/ backoff = 0
  \/ /\ pollIntervalMs <= backoff
     /\ backoff <= maxBackoffMs \/ backoff = 2 * pollIntervalMs

(* Started, the loop calls publishOnce again and again until it is         *)
(* stopped, whatever the calls return or throw.                            *)
PollsForever == running ~> ~running \/ InFlight # {}

(* The loop is what PollingPromise says, restarts during a stop included.  *)
Promise == INSTANCE PollingPromise
             WITH busy <- \E c \in Chains : chain[c] = "publishing"
ImplementsPromise == Promise!Spec

(* Never started during a stop() and with no other caller of runOnce(), it *)
(* polls again and again, its calls settle, and every stop() returns.      *)
KeepsPromise == ~eager /\ [](direct = {}) => Promise!Fairness
=============================================================================
