--------------------------- MODULE PollingLoopProofs ---------------------------
(***************************************************************************)
(* The safety of PollingLoop for any number of callers, chains and direct  *)
(* callers and for all options.                                            *)
(***************************************************************************)
EXTENDS PollingLoop, TLAPS

(* `publishing' is set exactly while one call is under way. *)
Exclusive ==
  /\ NonOverlap
  /\ publishing <=> InFlight # {}

(* The field `timer' is cleared or overwritten whenever its timer fires. *)
TimerArmed == timer # None => chain[timer] = "armed"

(* Without restarts during a stop() the only timer is the one that stop()  *)
(* can clear, and a stopped loop has no chain.                             *)
Polite ==
  ~eager =>
    /\ stopping # {} => ~running
    /\ \A c \in Chains : chain[c] = "armed" => timer = c /\ running
    /\ ~running /\ stopping = {} => \A c \in Chains : chain[c] = "none"

IInv ==
  /\ TypeOK /\ Exclusive /\ TimerArmed /\ StoppedIsQuiet
  /\ Polite /\ SingleChain /\ BackoffBounded

(* Flags, chains and timers keep their types. *)
LEMMA TypeNext ==
  ASSUME IInv, [Next]_vars
  PROVE  TypeOK'
<1> USE ChainsAssumption DEF IInv, TypeOK, ChainState, setting
<1>1. ASSUME Start PROVE TypeOK'
  BY <1>1 DEF Start, MayStart
<1>2. ASSUME NEW u \in Callers, Stop(u) PROVE TypeOK'
  BY <1>2 DEF Stop, Cleared
<1>3. ASSUME NEW u \in Callers, StopReturns(u) PROVE TypeOK'
  BY <1>3 DEF StopReturns, MayReturn, NoMicrotask, Settled
<1>4. ASSUME NEW c \in Chains, Tick(c) PROVE TypeOK'
  BY <1>4 DEF Tick, TickRuns, Busy, NoMicrotask, Settled
<1>5. ASSUME NEW c \in Chains, NEW o \in {"succeeded", "failed"}, CallSettles(c, o) PROVE TypeOK'
  BY <1>5 DEF CallSettles, NoMicrotask, Settled
<1>6. ASSUME NEW c \in Chains, TickEnds(c) PROVE TypeOK'
  <2>1. backoff' \in Nat
    <3>1. pollIntervalMs \in Nat /\ maxBackoffMs \in Nat
      BY OptionsAssumption DEF pollIntervalMs, maxBackoffMs, Least, Greatest
    <3> QED
      BY <1>6, <3>1 DEF TickEnds, NextBackoff, Least
  <2> QED
    BY <1>6, <2>1 DEF TickEnds, Reschedules, Settled
<1>7. ASSUME NEW d \in Direct, DirectCall(d) PROVE TypeOK'
  BY <1>7 DEF DirectCall, Busy
<1>8. ASSUME NEW d \in Direct, DirectSettles(d) PROVE TypeOK'
  BY <1>8 DEF DirectSettles, NoMicrotask, Settled
<1>9. ASSUME UNCHANGED vars PROVE TypeOK'
  BY <1>9 DEF vars, setting
<1> QED
  BY <1>1, <1>2, <1>3, <1>4, <1>5, <1>6, <1>7, <1>8, <1>9 DEF Next, Loop

(* A call is made only when none is under way, and ends alone. *)
LEMMA ExclusiveNext ==
  ASSUME IInv, [Next]_vars
  PROVE  Exclusive'
<1> USE ChainsAssumption DEF IInv, TypeOK, Exclusive, NonOverlap, InFlight, TimerArmed, ChainState, setting
<1>1. ASSUME Start PROVE Exclusive'
  BY <1>1 DEF Start, MayStart
<1>2. ASSUME NEW u \in Callers, Stop(u) PROVE Exclusive'
  BY <1>2 DEF Stop, Cleared
<1>3. ASSUME NEW u \in Callers, StopReturns(u) PROVE Exclusive'
  BY <1>3 DEF StopReturns, MayReturn, NoMicrotask, Settled
<1>4. ASSUME NEW c \in Chains, Tick(c) PROVE Exclusive'
  BY <1>4 DEF Tick, TickRuns, Busy, NoMicrotask, Settled
<1>5. ASSUME NEW c \in Chains, NEW o \in {"succeeded", "failed"}, CallSettles(c, o) PROVE Exclusive'
  BY <1>5 DEF CallSettles, NoMicrotask, Settled
<1>6. ASSUME NEW c \in Chains, TickEnds(c) PROVE Exclusive'
  BY <1>6 DEF TickEnds, Reschedules, Settled
<1>7. ASSUME NEW d \in Direct, DirectCall(d) PROVE Exclusive'
  BY <1>7 DEF DirectCall, Busy
<1>8. ASSUME NEW d \in Direct, DirectSettles(d) PROVE Exclusive'
  BY <1>8 DEF DirectSettles, NoMicrotask, Settled
<1>9. ASSUME UNCHANGED vars PROVE Exclusive'
  BY <1>9 DEF vars, setting
<1> QED
  BY <1>1, <1>2, <1>3, <1>4, <1>5, <1>6, <1>7, <1>8, <1>9 DEF Next, Loop

(* The field holds an armed timer or none. *)
LEMMA TimerNext ==
  ASSUME IInv, [Next]_vars
  PROVE  TimerArmed'
<1> USE ChainsAssumption DEF IInv, TypeOK, TimerArmed, ChainState, setting
<1>1. ASSUME Start PROVE TimerArmed'
  BY <1>1 DEF Start, MayStart
<1>2. ASSUME NEW u \in Callers, Stop(u) PROVE TimerArmed'
  BY <1>2 DEF Stop, Cleared
<1>3. ASSUME NEW u \in Callers, StopReturns(u) PROVE TimerArmed'
  BY <1>3 DEF StopReturns, MayReturn, NoMicrotask, Settled
<1>4. ASSUME NEW c \in Chains, Tick(c) PROVE TimerArmed'
  BY <1>4 DEF Tick, TickRuns, Busy, NoMicrotask, Settled
<1>5. ASSUME NEW c \in Chains, NEW o \in {"succeeded", "failed"}, CallSettles(c, o) PROVE TimerArmed'
  BY <1>5 DEF CallSettles, NoMicrotask, Settled
<1>6. ASSUME NEW c \in Chains, TickEnds(c) PROVE TimerArmed'
  BY <1>6 DEF TickEnds, Reschedules, Settled
<1>7. ASSUME NEW d \in Direct, DirectCall(d) PROVE TimerArmed'
  BY <1>7 DEF DirectCall, Busy
<1>8. ASSUME NEW d \in Direct, DirectSettles(d) PROVE TimerArmed'
  BY <1>8 DEF DirectSettles, NoMicrotask, Settled
<1>9. ASSUME UNCHANGED vars PROVE TimerArmed'
  BY <1>9 DEF vars, setting
<1> QED
  BY <1>1, <1>2, <1>3, <1>4, <1>5, <1>6, <1>7, <1>8, <1>9 DEF Next, Loop

(* A stop() returns when no call is under way, and no tick starts one after. *)
LEMMA QuietNext ==
  ASSUME IInv, [Next]_vars
  PROVE  StoppedIsQuiet'
<1> USE ChainsAssumption DEF IInv, TypeOK, Exclusive, NonOverlap, InFlight, StoppedIsQuiet, ChainState, TimerArmed, setting
<1>1. ASSUME Start PROVE StoppedIsQuiet'
  BY <1>1 DEF Start, MayStart
<1>2. ASSUME NEW u \in Callers, Stop(u) PROVE StoppedIsQuiet'
  BY <1>2 DEF Stop, Cleared
<1>3. ASSUME NEW u \in Callers, StopReturns(u) PROVE StoppedIsQuiet'
  BY <1>3 DEF StopReturns, MayReturn, NoMicrotask, Settled
<1>4. ASSUME NEW c \in Chains, Tick(c) PROVE StoppedIsQuiet'
  BY <1>4 DEF Tick, TickRuns, Busy, NoMicrotask, Settled
<1>5. ASSUME NEW c \in Chains, NEW o \in {"succeeded", "failed"}, CallSettles(c, o) PROVE StoppedIsQuiet'
  BY <1>5 DEF CallSettles, NoMicrotask, Settled
<1>6. ASSUME NEW c \in Chains, TickEnds(c) PROVE StoppedIsQuiet'
  BY <1>6 DEF TickEnds, Reschedules, Settled
<1>7. ASSUME NEW d \in Direct, DirectCall(d) PROVE StoppedIsQuiet'
  BY <1>7 DEF DirectCall, Busy
<1>8. ASSUME NEW d \in Direct, DirectSettles(d) PROVE StoppedIsQuiet'
  BY <1>8 DEF DirectSettles, NoMicrotask, Settled
<1>9. ASSUME UNCHANGED vars PROVE StoppedIsQuiet'
  BY <1>9 DEF vars, setting
<1> QED
  BY <1>1, <1>2, <1>3, <1>4, <1>5, <1>6, <1>7, <1>8, <1>9 DEF Next, Loop

(* Without restarts during a stop() there is one chain and one timer. *)
LEMMA PoliteNext ==
  ASSUME IInv, [Next]_vars
  PROVE  Polite' /\ SingleChain'
<1> USE ChainsAssumption DEF IInv, TypeOK, Exclusive, InFlight, Polite, SingleChain, ChainState, TimerArmed, setting
<1>1. ASSUME Start PROVE Polite' /\ SingleChain'
  BY <1>1 DEF Start, MayStart
<1>2. ASSUME NEW u \in Callers, Stop(u) PROVE Polite' /\ SingleChain'
  BY <1>2 DEF Stop, Cleared
<1>3. ASSUME NEW u \in Callers, StopReturns(u) PROVE Polite' /\ SingleChain'
  BY <1>3 DEF StopReturns, MayReturn, NoMicrotask, Settled
<1>4. ASSUME NEW c \in Chains, Tick(c) PROVE Polite' /\ SingleChain'
  BY <1>4 DEF Tick, TickRuns, Busy, NoMicrotask, Settled
<1>5. ASSUME NEW c \in Chains, NEW o \in {"succeeded", "failed"}, CallSettles(c, o) PROVE Polite' /\ SingleChain'
  BY <1>5 DEF CallSettles, NoMicrotask, Settled
<1>6. ASSUME NEW c \in Chains, TickEnds(c) PROVE Polite' /\ SingleChain'
  BY <1>6 DEF TickEnds, Reschedules, Settled
<1>7. ASSUME NEW d \in Direct, DirectCall(d) PROVE Polite' /\ SingleChain'
  BY <1>7 DEF DirectCall, Busy
<1>8. ASSUME NEW d \in Direct, DirectSettles(d) PROVE Polite' /\ SingleChain'
  BY <1>8 DEF DirectSettles, NoMicrotask, Settled
<1>9. ASSUME UNCHANGED vars PROVE Polite' /\ SingleChain'
  BY <1>9 DEF vars, setting
<1> QED
  BY <1>1, <1>2, <1>3, <1>4, <1>5, <1>6, <1>7, <1>8, <1>9 DEF Next, Loop

(* The constructor's bounds. *)
LEMMA Clamped ==
  ASSUME options \in Options
  PROVE  /\ pollIntervalMs \in Int /\ 100 <= pollIntervalMs
         /\ maxBackoffMs \in Int /\ pollIntervalMs <= maxBackoffMs
<1>1. options[1] \in Int /\ options[2] \in Int
  BY OptionsAssumption
<1>2. Greatest(options[1], 100) \in Int /\ 100 <= Greatest(options[1], 100)
  BY <1>1 DEF Greatest
<1>3. pollIntervalMs \in Int /\ 100 <= pollIntervalMs /\ pollIntervalMs <= 60000
  BY <1>2 DEF pollIntervalMs, Least
<1>4. /\ Greatest(options[2], pollIntervalMs) \in Int
      /\ pollIntervalMs <= Greatest(options[2], pollIntervalMs)
  BY <1>1, <1>3 DEF Greatest
<1>5. maxBackoffMs \in Int /\ pollIntervalMs <= maxBackoffMs
  BY <1>3, <1>4 DEF maxBackoffMs, Least
<1> QED
  BY <1>3, <1>5

(* Doubling stays between the poll interval and the bound of BackoffBounded. *)
LEMMA BackoffNext ==
  ASSUME IInv, [Next]_vars
  PROVE  BackoffBounded'
<1> USE DEF IInv, TypeOK
<1>1. pollIntervalMs' = pollIntervalMs /\ maxBackoffMs' = maxBackoffMs
  <2>1. options' = options
    BY DEF Next, Loop, vars, setting, Start, Stop, StopReturns, Tick, CallSettles, TickEnds,
       DirectCall, DirectSettles
  <2> QED
    BY <2>1 DEF pollIntervalMs, maxBackoffMs
<1>2. backoff' \in {backoff, 0, NextBackoff(backoff)}
  BY DEF Next, Loop, vars, Start, Stop, StopReturns, Tick, CallSettles, TickEnds,
     DirectCall, DirectSettles
<1>3. \/ NextBackoff(backoff) = 0
      \/ /\ pollIntervalMs <= NextBackoff(backoff)
         /\ \/ NextBackoff(backoff) <= maxBackoffMs
            \/ NextBackoff(backoff) = 2 * pollIntervalMs
  <2>1. pollIntervalMs \in Int /\ maxBackoffMs \in Int
        /\ 0 <= pollIntervalMs /\ pollIntervalMs <= maxBackoffMs
    <3>1. options \in Options
      OBVIOUS
    <3>2. pollIntervalMs \in Int /\ 100 <= pollIntervalMs
          /\ maxBackoffMs \in Int /\ pollIntervalMs <= maxBackoffMs
      BY <3>1, Clamped
    <3> QED
      BY <3>2
  <2> QED
    BY <2>1 DEF NextBackoff, BackoffBounded, Least, Greatest
<1>4. CASE backoff' = backoff
  BY <1>1, <1>4 DEF BackoffBounded
<1>5. CASE backoff' = 0
  BY <1>5 DEF BackoffBounded
<1>6. CASE backoff' = NextBackoff(backoff)
  BY <1>1, <1>3, <1>6 DEF BackoffBounded
<1> QED
  BY <1>2, <1>4, <1>5, <1>6

LEMMA IInvInit == Init => IInv
<1> SUFFICES ASSUME Init PROVE IInv
  OBVIOUS
<1>1. TypeOK
  BY DEF Init, TypeOK, ChainState
<1>2. InFlight = {}
  BY DEF Init, InFlight
<1>3. Exclusive /\ TimerArmed /\ BackoffBounded
  BY <1>2 DEF Init, Exclusive, NonOverlap, TimerArmed, BackoffBounded
<1>4. StoppedIsQuiet /\ Polite /\ SingleChain
  BY DEF Init, StoppedIsQuiet, Polite, SingleChain
<1> QED
  BY <1>1, <1>3, <1>4 DEF IInv

LEMMA IInvNext == IInv /\ [Next]_vars => IInv'
BY TypeNext, ExclusiveNext, TimerNext, QuietNext, PoliteNext, BackoffNext DEF IInv

-----------------------------------------------------------------------------
(* Flags, chains and timers keep their types.                              *)
THEOREM TypeCorrect == Spec => []TypeOK
BY IInvInit, IInvNext, PTL DEF Spec, IInv

(* However often the loop is restarted, and whoever else calls runOnce(),  *)
(* at most one call is under way.                                          *)
THEOREM NonOverlapTheorem == Spec => []NonOverlap
<1>1. IInv => NonOverlap
  BY DEF IInv, Exclusive
<1> QED
  BY <1>1, IInvInit, IInvNext, PTL DEF Spec

(* Once every stop() has returned no tick's call is under way.             *)
THEOREM StoppedIsQuietTheorem == Spec => []StoppedIsQuiet
BY IInvInit, IInvNext, PTL DEF Spec, IInv

(* A loop that is never started during a stop() keeps to one chain.        *)
THEOREM SingleChainTheorem == Spec => []SingleChain
BY IInvInit, IInvNext, PTL DEF Spec, IInv

(* For all options the back-off stays within its bounds.                   *)
THEOREM BackoffBoundedTheorem == Spec => []BackoffBounded
BY IInvInit, IInvNext, PTL DEF Spec, IInv

(* Timers, ticks, chains and direct callers implement the abstract loop.   *)
THEOREM ImplementsPromiseTheorem == Spec => ImplementsPromise
<1> DEFINE busy == \E c \in Chains : chain[c] = "publishing"
<1> USE DEF Promise!vars
<1>1. Init => Promise!Init
  BY DEF Init, Promise!Init
<1>2. ASSUME IInv, [Next]_vars
      PROVE  [Promise!Next]_<<running, busy, stopping>>
  <2> USE <1>2, ChainsAssumption DEF IInv, TypeOK, Exclusive, NonOverlap, InFlight
  <2>1. ASSUME Start PROVE Promise!Start
    BY <2>1 DEF Start, Promise!Start
  <2>2. ASSUME NEW u \in Callers, Stop(u) PROVE Promise!Stop(u)
    BY <2>2 DEF Stop, Cleared, TimerArmed, Promise!Stop
  <2>3. ASSUME NEW u \in Callers, StopReturns(u) PROVE Promise!StopReturns(u)
    BY <2>3 DEF StopReturns, MayReturn, Promise!StopReturns
  <2>4. ASSUME NEW c \in Chains, Tick(c)
        PROVE  Promise!Poll \/ UNCHANGED <<running, busy, stopping>>
    BY <2>4 DEF Tick, TickRuns, Busy, Promise!Poll
  <2>5. ASSUME NEW c \in Chains, NEW o \in {"succeeded", "failed"}, CallSettles(c, o)
        PROVE  Promise!Settle
    BY <2>5 DEF CallSettles, Promise!Settle
  <2>6. ASSUME NEW c \in Chains, TickEnds(c) PROVE UNCHANGED <<running, busy, stopping>>
    BY <2>6 DEF TickEnds, Settled
  <2>7. ASSUME NEW d \in Direct, DirectCall(d) \/ DirectSettles(d)
        PROVE  UNCHANGED <<running, busy, stopping>>
    BY <2>7 DEF DirectCall, DirectSettles
  <2>8. ASSUME UNCHANGED vars PROVE UNCHANGED <<running, busy, stopping>>
    BY <2>8 DEF vars
  <2> QED
    BY <2>1, <2>2, <2>3, <2>4, <2>5, <2>6, <2>7, <2>8 DEF Next, Loop, Promise!Next
<1> QED
  BY <1>1, <1>2, IInvInit, IInvNext, PTL DEF Spec, ImplementsPromise, Promise!Spec
=============================================================================
