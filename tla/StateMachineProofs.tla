-------------------------- MODULE StateMachineProofs --------------------------
(***************************************************************************)
(* Lemmas about the table of transitions and about legal histories, which  *)
(* the proofs of both kernel modules use.                                  *)
(***************************************************************************)
EXTENDS StateMachine, TLAPS

(* Nothing moves back to INTAKE, or out of the table. *)
LEMMA TransitionsType ==
  ASSUME NEW s \in ExecutionStatus
  PROVE  transitions[s] \subseteq ExecutionStatus \ {"INTAKE"}
BY Zenon DEF transitions, ExecutionStatus

(* The rows of the table that decide what an approval may release. *)
LEMMA TransitionsFacts ==
  /\ transitions["REJECTED"] = {}
  /\ transitions["FAILED"] = {}
  /\ transitions["APPROVAL"] = {"EXECUTION", "REJECTED", "FAILED"}
BY DEF transitions, ExecutionStatus

(* The statuses an execution can have once it has left its gate: no        *)
(* transition leads from them back to APPROVAL, or to the start.           *)
AfterGate ==
  {"EXECUTION", "EVIDENCE", "OUTCOME", "EVALUATION", "LEARNING", "FAILED", "REJECTED"}

LEMMA GateTable ==
  ASSUME NEW s \in AfterGate \cup {"APPROVAL"}
  PROVE  transitions[s] \subseteq AfterGate
BY Zenon DEF transitions, ExecutionStatus, AfterGate

(* Every approval can be decided, and every unfinished execution can fail. *)
LEMMA TableFacts ==
  /\ CanTransition("APPROVAL", "EXECUTION") /\ CanTransition("APPROVAL", "REJECTED")
  /\ \A s \in ExecutionStatus \ TerminalStatus : CanTransition(s, "FAILED")
  BY DEF CanTransition, transitions, ExecutionStatus, TerminalStatus

(* Starting a log, and appending a permitted status to one, keep it legal. *)
LEMMA LegalStart ==
  ASSUME NEW s \in StartStatuses
  PROVE  Legal(<<s>>)
  BY DEF Legal

LEMMA LegalAppend ==
  ASSUME NEW h \in Seq(ExecutionStatus), h # <<>>, Legal(h), NEW s \in ExecutionStatus,
         CanTransition(h[Len(h)], s)
  PROVE  /\ Legal(Append(h, s))
         /\ Append(h, s) # <<>>
         /\ Append(h, s)[Len(Append(h, s))] = s
<1> DEFINE g == Append(h, s)
<1>1. Len(g) = Len(h) + 1 /\ Len(h) \in Nat \ {0} /\ g[Len(h) + 1] = s
  OBVIOUS
<1>2. \A i \in 1..Len(h) : g[i] = h[i]
  OBVIOUS
<1>3. g[1] \in StartStatuses
  BY <1>1, <1>2 DEF Legal
<1>4. \A i \in 1..(Len(g) - 1) : CanTransition(g[i], g[i + 1])
  <2> TAKE i \in 1..(Len(g) - 1)
  <2>1. CASE i = Len(h)
    BY <1>1, <1>2, <2>1
  <2>2. CASE i # Len(h)
    <3>1. i \in 1..(Len(h) - 1) /\ i \in 1..Len(h) /\ i + 1 \in 1..Len(h)
      BY <1>1, <2>2
    <3> QED  BY <1>2, <3>1 DEF Legal
  <2> QED  BY <2>1, <2>2
<1> QED  BY <1>1, <1>3, <1>4 DEF Legal

(* A history that stands at an approval gate was released by its start, or *)
(* is released by the decision: its second entry is EXECUTION then.        *)
LEMMA GateOpens ==
  ASSUME NEW h \in Seq(ExecutionStatus), h # <<>>, Legal(h), h[Len(h)] = "APPROVAL"
  PROVE  \/ h[1] = "INTAKE"
         \/ Len(Append(h, "EXECUTION")) > 1 /\ Append(h, "EXECUTION")[2] = "EXECUTION"
<1> DEFINE g == Append(h, "EXECUTION")
<1>1. Len(h) \in Nat \ {0} /\ Len(g) = Len(h) + 1 /\ g[Len(h) + 1] = "EXECUTION"
  OBVIOUS
<1>2. \A i \in 1..Len(h) : g[i] = h[i] /\ h[i] \in ExecutionStatus
  OBVIOUS
<1>3. CASE Len(h) = 1
  BY <1>1, <1>3
<1>4. CASE Len(h) > 1
  <2>1. h[1] \in StartStatuses /\ h[2] \in transitions[h[1]]
    BY <1>1, <1>4 DEF Legal, CanTransition
  <2>2. CASE h[1] = "REJECTED"
    BY <2>1, <2>2, TransitionsFacts
  <2>3. CASE h[1] = "APPROVAL"
    <3>1. h[2] \in {"EXECUTION", "REJECTED", "FAILED"}
      BY <2>1, <2>3, TransitionsFacts
    <3>2. CASE Len(h) = 2
      BY <1>4, <3>1, <3>2
    <3>3. CASE Len(h) > 2
      <4>1. h[3] \in transitions[h[2]]
        BY <1>1, <3>3 DEF Legal, CanTransition
      <4>2. h[2] = "EXECUTION"
        BY <3>1, <4>1, TransitionsFacts
      <4> QED
        BY <1>1, <1>2, <1>4, <4>2
    <3>4. \A n \in Nat : n > 1 => n = 2 \/ n > 2
      OBVIOUS
    <3>5. Len(h) \in Nat
      OBVIOUS
    <3> QED
      BY <1>4, <3>2, <3>3, <3>4, <3>5
  <2> QED
    BY <2>1, <2>2, <2>3 DEF StartStatuses
<1> QED
  BY <1>1, <1>3, <1>4
=============================================================================
