---------------------------- MODULE PollingPromise ----------------------------
(***************************************************************************)
(* What ExecutionOutboxDispatcher and ApprovalExpirySweeper promise to     *)
(* whoever starts and stops them: while running, one call after another    *)
(* and never two at once; once a stop has returned, none.  No timer, no    *)
(* tick and no back-off is visible here.                                   *)
(***************************************************************************)
CONSTANT Callers   \* whoever awaits a stop()

VARIABLES
  running,    \* the field of that name
  busy,       \* the loop's publishOnce or expireApprovalsOnce is under way
  stopping    \* the stop() calls that have not returned

vars == <<running, busy, stopping>>

Init == running = FALSE /\ busy = FALSE /\ stopping = {}

Start ==
  /\ running' = TRUE
  /\ UNCHANGED <<busy, stopping>>

Poll ==
  /\ running /\ ~busy
  /\ busy' = TRUE
  /\ UNCHANGED <<running, stopping>>

Settle ==
  /\ busy
  /\ busy' = FALSE
  /\ UNCHANGED <<running, stopping>>

Stop(u) ==
  /\ u \notin stopping
  /\ running' = FALSE
  /\ stopping' = stopping \cup {u}
  /\ UNCHANGED busy

StopReturns(u) ==
  /\ u \in stopping /\ ~busy
  /\ stopping' = stopping \ {u}
  /\ UNCHANGED <<running, busy>>

Next ==
  \/ Start \/ Poll \/ Settle
  \/ \E u \in Callers : Stop(u) \/ StopReturns(u)

Spec == Init /\ [][Next]_vars

Fairness ==
  /\ WF_vars(Poll) /\ WF_vars(Settle)
  /\ \A u \in Callers : WF_vars(StopReturns(u))

FairSpec == Spec /\ Fairness
=============================================================================
