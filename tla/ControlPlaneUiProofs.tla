-------------------------- MODULE ControlPlaneUiProofs --------------------------
(***************************************************************************)
(* Theorems about ControlPlaneUi for every set of executions, tenants and  *)
(* verdicts and every number of requests under way.                        *)
(***************************************************************************)
EXTENDS ControlPlaneUi, TLAPS

-----------------------------------------------------------------------------
(* Statuses and their order. *)

LEMMA RankFacts ==
  /\ Rank("APPROVAL") = 0 /\ Rank("OUTCOME") = 2
  /\ \A v \in Verdicts : Rank(v) = 1 /\ v # "APPROVAL" /\ v # "OUTCOME"
<1>1. \A v \in Verdicts : v # "APPROVAL" /\ v # "OUTCOME"
  BY TenantsAssumption
<1>2. Rank("APPROVAL") = 0
  BY <1>1 DEF Rank
<1>3. Rank("OUTCOME") = 2
  BY <1>1 DEF Rank
<1>4. \A v \in Verdicts : Rank(v) = 1
  BY <1>1 DEF Rank
<1> QED  BY <1>1, <1>2, <1>3, <1>4

LEMMA RankType == \A s \in Statuses : Rank(s) \in Nat /\ (Rank(s) = 0 => s = "APPROVAL")
  BY RankFacts DEF Statuses

-----------------------------------------------------------------------------
(* Requests.  Every change of the bag takes out at most one request and    *)
(* puts in a set of others.                                                *)

Exchange(R, C) ==
  /\ IsABag(inFlight')
  /\ UnderWay \ R \subseteq UnderWay' /\ C \subseteq UnderWay'
  /\ UnderWay' \subseteq UnderWay \cup C
  /\ \A x \in UnderWay \ (R \cup C) : inFlight'[x] = inFlight[x]
  /\ \A x \in C \ UnderWay : inFlight'[x] = 1
  /\ \A x \in R \ C : inFlight[x] = 1 => x \notin UnderWay'

LEMMA SetBags ==
  ASSUME NEW S
  PROVE  /\ IsABag(SetToBag(S)) /\ DOMAIN SetToBag(S) = S
         /\ \A x \in S : SetToBag(S)[x] = 1
  BY DEF IsABag, SetToBag

LEMMA JoinBags ==
  ASSUME NEW S, NEW T, S \cap T = {}
  PROVE  SetToBag(S) (+) SetToBag(T) = SetToBag(S \cup T)
  BY DEF SetToBag, (+)

LEMMA AddsBag ==
  ASSUME NEW B, NEW D, IsABag(B), IsABag(D)
  PROVE  /\ IsABag(B (+) D) /\ DOMAIN (B (+) D) = (DOMAIN B) \cup (DOMAIN D)
         /\ \A x \in (DOMAIN B) \ (DOMAIN D) : (B (+) D)[x] = B[x]
         /\ \A x \in (DOMAIN D) \ (DOMAIN B) : (B (+) D)[x] = D[x]
<1> DEFINE S == B (+) D
<1>1. DOMAIN S = (DOMAIN B) \cup (DOMAIN D)
  BY DEF (+)
<1>2. \A x \in DOMAIN S : S[x] = (IF x \in DOMAIN B THEN B[x] ELSE 0)
                              + (IF x \in DOMAIN D THEN D[x] ELSE 0)
  BY DEF (+)
<1>3. /\ \A x \in DOMAIN B : B[x] \in Nat /\ B[x] > 0
      /\ \A x \in DOMAIN D : D[x] \in Nat /\ D[x] > 0
  BY DEF IsABag
<1>4. \A x \in DOMAIN S : S[x] \in Nat /\ S[x] > 0
  BY <1>1, <1>2, <1>3
<1>5. S = [x \in DOMAIN S |-> S[x]]
  BY DEF (+)
<1>6. IsABag(S)
  BY <1>4, <1>5 DEF IsABag
<1> QED  BY <1>1, <1>2, <1>3, <1>6

LEMMA TakesFromBag ==
  ASSUME NEW B, NEW r, IsABag(B)
  PROVE  /\ IsABag(B (-) Bag(r))
         /\ (DOMAIN B) \ {r} \subseteq DOMAIN (B (-) Bag(r))
         /\ DOMAIN (B (-) Bag(r)) \subseteq DOMAIN B
         /\ \A x \in (DOMAIN B) \ {r} : (B (-) Bag(r))[x] = B[x]
         /\ r \in DOMAIN B /\ B[r] = 1 => r \notin DOMAIN (B (-) Bag(r))
<1> DEFINE S == B (-) Bag(r)
           left(x) == IF x = r THEN B[x] - 1 ELSE B[x]
<1>1. DOMAIN Bag(r) = {r} /\ Bag(r)[r] = 1
  BY SetBags DEF Bag
<1>2. /\ DOMAIN S = {x \in DOMAIN B : left(x) > 0}
      /\ \A x \in DOMAIN S : S[x] = left(x)
      /\ S = [x \in DOMAIN S |-> S[x]]
  BY <1>1 DEF (-)
<1>3. \A x \in DOMAIN B : B[x] \in Nat /\ B[x] > 0
  BY DEF IsABag
<1>4. \A x \in DOMAIN S : S[x] \in Nat /\ S[x] > 0
  BY <1>2, <1>3
<1>5. IsABag(S)
  BY <1>2, <1>4 DEF IsABag
<1> QED  BY <1>2, <1>3, <1>5

LEMMA AddsSet ==
  ASSUME NEW B, IsABag(B), NEW C
  PROVE  /\ IsABag(B (+) SetToBag(C)) /\ DOMAIN (B (+) SetToBag(C)) = (DOMAIN B) \cup C
         /\ \A x \in (DOMAIN B) \ C : (B (+) SetToBag(C))[x] = B[x]
         /\ \A x \in C \ DOMAIN B : (B (+) SetToBag(C))[x] = 1
<1> DEFINE D == SetToBag(C)
<1>1. IsABag(D) /\ DOMAIN D = C /\ \A x \in C : D[x] = 1
  BY SetBags
<1> HIDE DEF D
<1>2. /\ IsABag(B (+) D) /\ DOMAIN (B (+) D) = (DOMAIN B) \cup (DOMAIN D)
      /\ \A x \in (DOMAIN B) \ (DOMAIN D) : (B (+) D)[x] = B[x]
      /\ \A x \in (DOMAIN D) \ (DOMAIN B) : (B (+) D)[x] = D[x]
  BY <1>1, AddsBag, Zenon
<1>3. /\ IsABag(B (+) D) /\ DOMAIN (B (+) D) = (DOMAIN B) \cup C
      /\ \A x \in (DOMAIN B) \ C : (B (+) D)[x] = B[x]
      /\ \A x \in C \ DOMAIN B : (B (+) D)[x] = 1
  BY <1>1, <1>2
<1> QED  BY <1>3 DEF D

LEMMA Sends ==
  ASSUME IsABag(inFlight), NEW C, inFlight' = inFlight (+) SetToBag(C)
  PROVE  Exchange({}, C)
<1>1. /\ IsABag(inFlight') /\ DOMAIN inFlight' = (DOMAIN inFlight) \cup C
      /\ \A x \in (DOMAIN inFlight) \ C : inFlight'[x] = inFlight[x]
      /\ \A x \in C \ DOMAIN inFlight : inFlight'[x] = 1
  <2> DEFINE S == inFlight (+) SetToBag(C)
  <2>1. /\ IsABag(S) /\ DOMAIN S = (DOMAIN inFlight) \cup C
        /\ \A x \in (DOMAIN inFlight) \ C : S[x] = inFlight[x]
        /\ \A x \in C \ DOMAIN inFlight : S[x] = 1
    BY AddsSet, Zenon
  <2>2. inFlight' = S
    OBVIOUS
  <2> HIDE DEF S
  <2> QED  BY <2>1, <2>2
<1> QED  BY <1>1 DEF Exchange, UnderWay, BagToSet

LEMMA Drops ==
  ASSUME IsABag(inFlight), NEW r \in UnderWay, inFlight' = inFlight (-) Bag(r)
  PROVE  Exchange({r}, {})
  BY TakesFromBag DEF Exchange, UnderWay, BagToSet

Swapped(A, r, C) == (A (-) Bag(r)) (+) SetToBag(C)

LEMMA Swaps ==
  ASSUME NEW A, IsABag(A), NEW r \in DOMAIN A, NEW C, r \notin C
  PROVE  /\ IsABag(Swapped(A, r, C))
         /\ (DOMAIN A) \ {r} \subseteq DOMAIN Swapped(A, r, C) /\ C \subseteq DOMAIN Swapped(A, r, C)
         /\ DOMAIN Swapped(A, r, C) \subseteq (DOMAIN A) \cup C
         /\ \A x \in (DOMAIN A) \ ({r} \cup C) : Swapped(A, r, C)[x] = A[x]
         /\ \A x \in C \ DOMAIN A : Swapped(A, r, C)[x] = 1
         /\ A[r] = 1 => r \notin DOMAIN Swapped(A, r, C)
<1> DEFINE Rest == A (-) Bag(r)
           T == Rest (+) SetToBag(C)
<1>1. /\ IsABag(Rest) /\ (DOMAIN A) \ {r} \subseteq DOMAIN Rest /\ DOMAIN Rest \subseteq DOMAIN A
      /\ \A x \in (DOMAIN A) \ {r} : Rest[x] = A[x]
      /\ A[r] = 1 => r \notin DOMAIN Rest
  BY TakesFromBag
<1>2. IsABag(Rest)
  BY <1>1
<1> HIDE DEF Rest
<1>3. /\ IsABag(T) /\ DOMAIN T = (DOMAIN Rest) \cup C
      /\ \A x \in (DOMAIN Rest) \ C : T[x] = Rest[x]
      /\ \A x \in C \ DOMAIN Rest : T[x] = 1
  BY <1>2, AddsSet, Zenon
<1>4. Swapped(A, r, C) = T
  BY DEF Swapped, Rest
<1> HIDE DEF T
<1> QED  BY <1>1, <1>3, <1>4

LEMMA Replaces ==
  ASSUME IsABag(inFlight), NEW r \in UnderWay, NEW C, r \notin C,
         inFlight' = (inFlight (-) Bag(r)) (+) SetToBag(C)
  PROVE  Exchange({r}, C)
<1> DEFINE S == Swapped(inFlight, r, C)
<1>1. r \in DOMAIN inFlight /\ inFlight' = S
  BY DEF UnderWay, BagToSet, Swapped
<1>2. /\ IsABag(S) /\ (DOMAIN inFlight) \ {r} \subseteq DOMAIN S
      /\ C \subseteq DOMAIN S /\ DOMAIN S \subseteq (DOMAIN inFlight) \cup C
      /\ \A x \in (DOMAIN inFlight) \ ({r} \cup C) : S[x] = inFlight[x]
      /\ \A x \in C \ DOMAIN inFlight : S[x] = 1
      /\ inFlight[r] = 1 => r \notin DOMAIN S
  BY <1>1, Swaps, Zenon
<1> HIDE DEF S
<1> QED  BY <1>1, <1>2 DEF Exchange, UnderWay, BagToSet

-----------------------------------------------------------------------------
(* Invariants. *)

Types ==
  /\ status \in [Executions -> Statuses]
  /\ IsABag(inFlight) /\ UnderWay \subseteq AllRequests
  /\ tenant \in Tenants /\ list \in SUBSET Executions
  /\ selected \in Executions \cup {None} /\ detail \in Details \cup {None}
  /\ devMode \in BOOLEAN /\ principal \in BOOLEAN /\ busy \in BOOLEAN

(* What a detail on its way to the page says was true when it was read; a  *)
(* decision is on its way to the tenant it was made in.                    *)
Honest(r) ==
  /\ r \in RowDetails => Rank(r.body.status) <= Rank(status[r.id])
  /\ r \in AnsweredDetails =>
       /\ r.body.id = r.id /\ Rank(r.body.status) <= Rank(status[r.id])
       /\ ~r.body.pending => status[r.id] # "APPROVAL"
  /\ r \in Approvals => r.body.connected = r.tenant

(* approve() is alone with its request, and then with one reload of each   *)
(* kind; the buttons are disabled exactly as long.                         *)
Buttons ==
  /\ busy <=> \E r \in UnderWay : Awaited(r)
  /\ \A r \in UnderWay : Awaited(r) => inFlight[r] = 1
  /\ \A r, s \in UnderWay :
       Awaited(r) /\ Awaited(s) /\ (r.kind = "approve" \/ r.kind = s.kind) => r = s

IInv == Types /\ (\A r \in UnderWay : Honest(r)) /\ ShownWasTrue /\ Buttons

(* No status goes back. *)
Grows == \A e \in Executions : /\ Rank(status[e]) <= Rank(status'[e])
                               /\ status[e] # "APPROVAL" => status'[e] # "APPROVAL"

LEMMA RestGrows ==
  ASSUME Types, UNCHANGED status PROVE Grows
<1>1. \A e \in Executions : Rank(status[e]) \in Nat
  BY RankType DEF Types
<1> QED  BY <1>1 DEF Grows

LEMMA RequestFields ==
  ASSUME NEW r \in AllRequests
  PROVE  /\ r.kind \in {"list", "detail", "approve"} /\ r.tenant \in Tenants /\ r.chained \in BOOLEAN
         /\ r.kind = "list" => r \in ListRequests
         /\ r.kind = "detail" => r.id \in Executions
         /\ r.kind = "detail" /\ r.state = "sent" => r \in SentDetails
         /\ r.kind = "detail" /\ r.state = "row" => r \in RowDetails
         /\ r.kind = "detail" /\ r.state = "answered" => r \in AnsweredDetails
         /\ r.kind = "approve" => r \in Approvals /\ ~r.chained
<1>1. CASE r \in ListRequests
  BY <1>1 DEF ListRequests
<1>2. CASE r \in SentDetails
  BY <1>2 DEF SentDetails
<1>3. CASE r \in RowDetails
  BY <1>3 DEF RowDetails
<1>4. CASE r \in AnsweredDetails
  BY <1>4 DEF AnsweredDetails
<1>5. CASE r \in Approvals
  BY <1>5 DEF Approvals
<1> QED  BY <1>1, <1>2, <1>3, <1>4, <1>5 DEF AllRequests

LEMMA HonestKept ==
  ASSUME Types, status' \in [Executions -> Statuses], Grows, NEW r \in AllRequests, Honest(r)
  PROVE  Honest(r)'
<1>1. /\ r \in RowDetails => r.id \in Executions /\ r.body.status \in Statuses
      /\ r \in AnsweredDetails => r.id \in Executions /\ r.body.status \in Statuses
  BY DEF RowDetails, AnsweredDetails, Details, Statuses
<1>2. \A e \in Executions : Rank(status[e]) \in Nat /\ Rank(status'[e]) \in Nat
  BY RankType DEF Types
<1>3. \A s \in Statuses : Rank(s) \in Nat
  BY RankType
<1> QED  BY <1>1, <1>2, <1>3 DEF Honest, Grows

LEMMA ShownKept ==
  ASSUME Types, status' \in [Executions -> Statuses], Grows, ShownWasTrue,
         detail' = detail \/ detail' = None
  PROVE  ShownWasTrue'
<1>1. detail # None => detail.id \in Executions /\ detail.status \in Statuses
  BY DEF Types, Details, Statuses
<1>2. \A e \in Executions : Rank(status[e]) \in Nat /\ Rank(status'[e]) \in Nat
  BY RankType DEF Types
<1>3. \A s \in Statuses : Rank(s) \in Nat
  BY RankType
<1> QED  BY <1>1, <1>2, <1>3 DEF ShownWasTrue, Grows

LEMMA RequestsKept ==
  ASSUME IInv, NEW R, NEW C \in SUBSET AllRequests, Exchange(R, C),
         status' \in [Executions -> Statuses], Grows, \A r \in C : Honest(r)'
  PROVE  IsABag(inFlight') /\ UnderWay' \subseteq AllRequests /\ \A r \in UnderWay' : Honest(r)'
<1>1. UnderWay \subseteq AllRequests /\ \A r \in UnderWay : Honest(r)'
  BY HonestKept DEF IInv, Types
<1> QED  BY <1>1 DEF Exchange

LEMMA ButtonsRest ==
  ASSUME IInv, NEW R \in SUBSET UnderWay, NEW C \in SUBSET AllRequests, Exchange(R, C),
         \A r \in R \cup C : ~Awaited(r), busy' = busy
  PROVE  Buttons'
<1>1. \A r : Awaited(r)' = Awaited(r)
  BY DEF Awaited
<1>2. \A r \in UnderWay' : Awaited(r) => r \in UnderWay /\ inFlight'[r] = inFlight[r]
  BY DEF Exchange
<1>3. \A r \in UnderWay : Awaited(r) => r \in UnderWay'
  BY DEF Exchange
<1> QED  BY <1>1, <1>2, <1>3 DEF Buttons, IInv

(* One request of approve() takes the place of another. *)
LEMMA ButtonsGoOn ==
  ASSUME IInv, NEW r \in UnderWay, NEW s \in AllRequests, Exchange({r}, {s}), s # r,
         s.kind = r.kind, s.chained = r.chained, busy' = busy
  PROVE  Buttons'
<1>1. \A x : Awaited(x)' = Awaited(x)
  BY DEF Awaited
<1>2. Awaited(s) <=> Awaited(r)
  BY DEF Awaited
<1>3. CASE ~Awaited(r)
  BY <1>2, <1>3, ButtonsRest
<1>4. CASE Awaited(r)
  <2>1. s \notin UnderWay
    BY <1>2, <1>4 DEF Buttons, IInv
  <2>2. /\ r \notin UnderWay' /\ s \in UnderWay' /\ inFlight'[s] = 1
        /\ \A x \in UnderWay' : x # s => x \in UnderWay /\ inFlight'[x] = inFlight[x]
    BY <1>4, <2>1 DEF Exchange, Buttons, IInv
  <2>3. \A x \in UnderWay' : x # s /\ Awaited(x) => x.kind # r.kind /\ x.kind # "approve" /\ r.kind # "approve"
    BY <1>4, <2>2 DEF Buttons, IInv
  <2>4. busy' /\ Awaited(s)
    BY <1>2, <1>4 DEF Buttons, IInv
  <2>5. \A x \in UnderWay' : Awaited(x) => inFlight'[x] = 1
    BY <2>2 DEF Buttons, IInv
  <2>6. \A x, y \in UnderWay' :
          Awaited(x) /\ Awaited(y) /\ (x.kind = "approve" \/ x.kind = y.kind) => x = y
    BY <2>2, <2>3 DEF Buttons, IInv
  <2> QED  BY <1>1, <2>2, <2>4, <2>5, <2>6 DEF Buttons
<1> QED  BY <1>3, <1>4

(* Ended: the last of them gives the buttons back. *)
LEMMA ButtonsEnd ==
  ASSUME IInv, NEW r \in UnderWay, r.kind # "approve", NEW C \in SUBSET AllRequests,
         \A s \in C : ~Awaited(s), Exchange({r}, C), Ended(r)
  PROVE  Buttons' /\ busy' \in BOOLEAN
<1>1. \A x : Awaited(x)' = Awaited(x)
  BY DEF Awaited
<1>2. Awaited(r) <=> r.chained
  BY DEF Awaited
<1>3. CASE ~r.chained
  <2>1. busy' = busy
    BY <1>3 DEF Ended, IInv, Types
  <2> QED  BY <1>2, <1>3, <2>1, ButtonsRest DEF IInv, Types
<1>4. CASE r.chained
  <2>1. \A x \in UnderWay \ {r} : Awaited(x) => x.chained
    BY <1>2, <1>4 DEF Buttons, IInv, Awaited
  <2>2. busy' <=> \E x \in UnderWay \ {r} : Awaited(x)
    BY <1>4, <2>1 DEF Ended, IInv, Types, Buttons, Awaited
  <2>3. /\ r \notin UnderWay'
        /\ \A x \in UnderWay' : Awaited(x) => x \in UnderWay /\ inFlight'[x] = inFlight[x]
        /\ \A x \in UnderWay \ {r} : x \in UnderWay'
    BY <1>2, <1>4 DEF Exchange, Buttons, IInv
  <2>4. busy' \in BOOLEAN
    BY DEF Ended
  <2> QED  BY <1>1, <2>2, <2>3, <2>4 DEF Buttons, IInv
<1> QED  BY <1>3, <1>4

-----------------------------------------------------------------------------
(* The steps. *)

Loading(id) == IF id = None THEN {} ELSE {LoadDetail(tenant, id, FALSE)}

LEMMA NewRequests ==
  ASSUME NEW t \in Tenants, NEW c \in BOOLEAN
  PROVE  /\ LoadExecutions(t, c) \in ListRequests /\ LoadExecutions(t, c).kind = "list"
         /\ Awaited(LoadExecutions(t, c)) <=> c
         /\ \A id \in Executions :
              /\ LoadDetail(t, id, c) \in SentDetails /\ LoadDetail(t, id, c).kind = "detail"
              /\ Awaited(LoadDetail(t, id, c)) <=> c
  BY DEF LoadExecutions, LoadDetail, Request, ListRequests, SentDetails, Awaited

LEMMA SelectingLoads ==
  ASSUME Types, NEW id \in Executions \cup {None}
  PROVE  /\ Selecting(id) = SetToBag(Loading(id))
         /\ Loading(id) \subseteq SentDetails /\ \A r \in Loading(id) : ~Awaited(r)
<1>1. CASE id = None
  BY <1>1 DEF Selecting, Loading, EmptyBag
<1>2. CASE id # None
  BY <1>2, NewRequests DEF Selecting, Loading, Bag, Types
<1> QED  BY <1>1, <1>2

(* A list and a detail are two requests. *)
LEMMA ReloadLoads ==
  ASSUME Types, NEW id \in Executions \cup {None}
  PROVE  Bag(LoadExecutions(tenant, FALSE)) (+) Selecting(id)
           = SetToBag({LoadExecutions(tenant, FALSE)} \cup Loading(id))
<1>1. {LoadExecutions(tenant, FALSE)} \cap Loading(id) = {}
  BY NewRequests DEF Loading, Types
<1>2. Selecting(id) = SetToBag(Loading(id))
  BY SelectingLoads
<1> QED  BY <1>1, <1>2, JoinBags DEF Bag

LEMMA DecisionsApart ==
  ASSUME NEW r \in ListRequests \cup SentDetails \cup RowDetails \cup AnsweredDetails
  PROVE  r \notin Approvals
  BY DEF ListRequests, SentDetails, RowDetails, AnsweredDetails, Approvals

LEMMA NewIsHonest ==
  ASSUME NEW r \in ListRequests \cup SentDetails \cup Approvals,
         r \in Approvals => r.body.connected = r.tenant
  PROVE  Honest(r)'
  BY DEF Honest, ListRequests, SentDetails, Approvals, RowDetails, AnsweredDetails

Kept == /\ IsABag(inFlight') /\ UnderWay' \subseteq AllRequests
        /\ \A r \in UnderWay' : Honest(r)'
        /\ Buttons' /\ busy' \in BOOLEAN

LEMMA SendingKeeps ==
  ASSUME IInv, NEW C \in SUBSET (ListRequests \cup SentDetails), \A r \in C : ~Awaited(r),
         Send(SetToBag(C)), UNCHANGED <<status, busy>>
  PROVE  Kept
<1>1. Exchange({}, C)
  BY Sends DEF Send, IInv, Types
<1>2. C \in SUBSET AllRequests /\ status' \in [Executions -> Statuses] /\ busy' \in BOOLEAN
  BY DEF AllRequests, IInv, Types
<1>3. Grows
  BY RestGrows DEF IInv
<1>4. \A r \in C : Honest(r)'
  BY NewIsHonest, DecisionsApart
<1>5. IsABag(inFlight') /\ UnderWay' \subseteq AllRequests /\ \A r \in UnderWay' : Honest(r)'
  BY <1>1, <1>2, <1>3, <1>4, RequestsKept
<1>6. Buttons'
  BY <1>1, <1>2, ButtonsRest
<1> QED  BY <1>2, <1>5, <1>6 DEF Kept

(* What answers or ends a request, by what it leaves instead. *)
LEMMA GoingOnKeeps ==
  ASSUME IInv, NEW r \in UnderWay, NEW s \in AllRequests, s # r, Becomes(r, s),
         s.kind = r.kind, s.chained = r.chained, Honest(s)', busy' = busy,
         status' \in [Executions -> Statuses], Grows
  PROVE  Kept
<1>1. Exchange({r}, {s})
  BY Replaces DEF Becomes, Bag, IInv, Types
<1>2. IsABag(inFlight') /\ UnderWay' \subseteq AllRequests /\ \A x \in UnderWay' : Honest(x)'
  BY <1>1, RequestsKept
<1>3. Buttons'
  BY <1>1, ButtonsGoOn
<1>4. busy' \in BOOLEAN
  BY DEF IInv, Types
<1> QED  BY <1>2, <1>3, <1>4 DEF Kept

LEMMA EndingKeeps ==
  ASSUME IInv, NEW r \in UnderWay, r.kind # "approve", Ended(r), UNCHANGED status,
         NEW C \in SUBSET SentDetails, \A s \in C : ~Awaited(s), Exchange({r}, C)
  PROVE  Kept
<1>1. C \in SUBSET AllRequests /\ status' \in [Executions -> Statuses] /\ Grows
  BY RestGrows DEF AllRequests, IInv, Types
<1>2. \A s \in C : Honest(s)'
  BY NewIsHonest, DecisionsApart
<1>3. IsABag(inFlight') /\ UnderWay' \subseteq AllRequests /\ \A x \in UnderWay' : Honest(x)'
  BY <1>1, <1>2, RequestsKept
<1>4. Buttons' /\ busy' \in BOOLEAN
  BY <1>1, ButtonsEnd
<1> QED  BY <1>3, <1>4 DEF Kept

Shows == /\ tenant' \in Tenants /\ list' \in SUBSET Executions
         /\ selected' \in Executions \cup {None} /\ detail' \in Details \cup {None}
         /\ devMode' \in BOOLEAN /\ principal' \in BOOLEAN

LEMMA StepEnds ==
  ASSUME IInv, Kept, Shows, status' \in [Executions -> Statuses], ShownWasTrue'
  PROVE  IInv'
  BY DEF IInv, Types, Kept, Shows

LEMMA PageRests ==
  ASSUME IInv, Kept, Grows, status' \in [Executions -> Statuses],
         UNCHANGED <<devMode, principal, tenant, list, selected, detail>>
  PROVE  IInv'
<1>1. Shows
  BY DEF Shows, IInv, Types
<1>2. ShownWasTrue'
  BY ShownKept DEF IInv
<1> QED  BY <1>1, <1>2, StepEnds

(* The database and the API. *)
LEMMA OthersMoveKeeps ==
  ASSUME IInv, NEW e \in Executions, NEW s \in Verdicts \cup {"OUTCOME"}, OthersMove(e, s)
  PROVE  IInv'
<1>1. Types /\ status' = [status EXCEPT ![e] = s] /\ Rank(s) = Rank(status[e]) + 1
  BY DEF OthersMove, IInv
<1>2. status' \in [Executions -> Statuses]
  BY <1>1 DEF Types, Statuses
<1>3. s # "APPROVAL"
  BY TenantsAssumption
<1>4. \A x \in Executions : Rank(status[x]) \in Nat
  BY <1>1, RankType DEF Types
<1>5. Grows
  BY <1>1, <1>3, <1>4 DEF Grows, Types
<1>6. UNCHANGED <<inFlight, page>>
  BY DEF OthersMove
<1>7. Types' /\ Buttons'
  BY <1>1, <1>2, <1>6 DEF Types, UnderWay, page, IInv, Buttons, Awaited
<1>8. \A r \in UnderWay' : Honest(r)'
  BY <1>1, <1>2, <1>5, <1>6, HonestKept DEF IInv, Types, UnderWay
<1>9. ShownWasTrue'
  BY <1>1, <1>2, <1>5, <1>6, ShownKept DEF IInv, page
<1> QED  BY <1>7, <1>8, <1>9 DEF IInv

LEMMA RowReadKeeps ==
  ASSUME IInv, NEW r \in UnderWay, RowRead(r)
  PROVE  IInv'
<1>1. r \in SentDetails /\ Types
  BY RequestFields DEF RowRead, Waiting, IInv, Types
<1>2. PICK s \in RowDetails : s = [r EXCEPT !.state = "row", !.body = [status |-> status[r.id]]]
  <2>1. [r EXCEPT !.state = "row", !.body = [status |-> status[r.id]]] \in RowDetails
    BY <1>1 DEF SentDetails, RowDetails, Types
  <2> QED  BY <2>1
<1>3. /\ s.kind = r.kind /\ s.chained = r.chained /\ s # r
      /\ s.id = r.id /\ s.body.status = status[r.id]
  BY <1>1, <1>2 DEF SentDetails, RowDetails, Types
<1>4. Becomes(r, s) /\ UNCHANGED <<status, page>>
  BY <1>2 DEF RowRead
<1>5. status' \in [Executions -> Statuses] /\ Grows /\ busy' = busy
  BY <1>1, <1>4, RestGrows DEF Types, page
<1>6. Honest(s)'
  <2>1. s \notin AnsweredDetails /\ s \notin Approvals /\ s.id \in Executions
    BY <1>2, DecisionsApart DEF RowDetails, AnsweredDetails
  <2>2. Rank(status'[s.id]) \in Nat
    BY <1>5, <2>1, RankType
  <2>3. s.body.status = status'[s.id]
    BY <1>3, <1>4
  <2> QED  BY <2>1, <2>2, <2>3 DEF Honest
<1>7. Kept
  BY <1>3, <1>4, <1>5, <1>6, GoingOnKeeps DEF AllRequests
<1> QED  BY <1>4, <1>5, <1>7, PageRests DEF page

LEMMA DetailAnsweredKeeps ==
  ASSUME IInv, NEW r \in UnderWay, DetailAnswered(r)
  PROVE  IInv'
<1>1. r \in RowDetails /\ Types /\ Honest(r)
  BY RequestFields DEF DetailAnswered, Waiting, IInv, Types
<1>2. PICK b \in Details :
        b = [id |-> r.id, status |-> r.body.status, pending |-> status[r.id] = "APPROVAL"]
  <2>1. r.id \in Executions /\ r.body.status \in Statuses
    BY <1>1 DEF RowDetails
  <2>2. (status[r.id] = "APPROVAL") \in BOOLEAN
    OBVIOUS
  <2>3. [id |-> r.id, status |-> r.body.status, pending |-> status[r.id] = "APPROVAL"] \in Details
    BY <2>1, <2>2, Zenon DEF Details, Statuses
  <2> QED  BY <2>3
<1>3. PICK s \in AnsweredDetails : s = [r EXCEPT !.state = "answered", !.body = b]
  <2>1. [r EXCEPT !.state = "answered", !.body = b] \in AnsweredDetails
    BY <1>1, <1>2 DEF RowDetails, AnsweredDetails
  <2> QED  BY <2>1
<1>4. /\ s.kind = r.kind /\ s.chained = r.chained /\ s # r
      /\ s.id = r.id /\ s.body = b /\ s \notin RowDetails
  BY <1>1, <1>3 DEF RowDetails, AnsweredDetails
<1>0. s \notin Approvals
  BY DecisionsApart
<1>5. Becomes(r, s) /\ UNCHANGED <<status, page>>
  BY <1>2, <1>3 DEF DetailAnswered
<1>6. status' \in [Executions -> Statuses] /\ Grows /\ busy' = busy
  BY <1>1, <1>5, RestGrows DEF Types, page
<1>7. b.id = r.id /\ b.status = r.body.status /\ (b.pending <=> status[r.id] = "APPROVAL")
  BY <1>2
<1>8. Honest(s)'
  BY <1>0, <1>1, <1>4, <1>5, <1>7 DEF Honest
<1>9. Kept
  BY <1>4, <1>5, <1>6, <1>8, GoingOnKeeps DEF AllRequests
<1> QED  BY <1>5, <1>6, <1>9, PageRests DEF page

LEMMA DecidedKeeps ==
  ASSUME IInv, NEW r \in UnderWay, Decided(r)
  PROVE  IInv'
<1>1. r \in Approvals /\ Types /\ r.state = "sent" /\ status[r.id] = "APPROVAL"
  BY RequestFields DEF Decided, Decidable, Waiting, IInv, Types
<1>2. status' = [status EXCEPT ![r.id] = r.body.verdict] /\ r.body.verdict \in Verdicts
  BY <1>1 DEF Decided, Approvals
<1>3. r.id \in Executions /\ status' \in [Executions -> Statuses]
  BY <1>1, <1>2 DEF Types, Approvals, Statuses
<1>4. Grows
  <2>1. Rank(status[r.id]) <= Rank(r.body.verdict) /\ r.body.verdict # "APPROVAL"
    BY <1>1, <1>2, RankFacts
  <2>2. \A x \in Executions : Rank(status[x]) \in Nat
    BY <1>1, RankType DEF Types
  <2> QED  BY <1>1, <1>2, <1>3, <2>1, <2>2 DEF Grows, Types
<1>5. PICK a \in {"answered", "refused"} : Becomes(r, [r EXCEPT !.state = a])
  BY DEF Decided
<1> DEFINE s == [r EXCEPT !.state = a]
<1>6. s \in Approvals /\ s.kind = r.kind /\ s.chained = r.chained /\ s # r
      /\ s.body.connected = s.tenant
  BY <1>1 DEF Approvals, Honest, IInv
<1>7. Becomes(r, s) /\ UNCHANGED page
  BY <1>5 DEF Decided
<1> HIDE DEF s
<1>8. Kept
  BY <1>3, <1>4, <1>6, <1>7, NewIsHonest, GoingOnKeeps DEF AllRequests, page
<1> QED  BY <1>3, <1>4, <1>7, <1>8, PageRests DEF page

(* What reaches the page. *)
LEMMA ListArrivesKeeps ==
  ASSUME IInv, NEW r \in UnderWay, ListArrives(r)
  PROVE  IInv'
<1>1. Types /\ r \in ListRequests
  BY RequestFields DEF ListArrives, Waiting, IInv, Types
<1>2. list' \in SUBSET Executions /\ selected' \in Executions \cup {None}
  BY <1>1 DEF ListArrives, Types
<1>3. UNCHANGED <<status, devMode, principal, tenant, detail>> /\ Ended(r) /\ r.kind = "list"
  BY DEF ListArrives, Waiting
<1> DEFINE C == IF selected' = selected THEN {} ELSE Loading(selected')
<1>4. inFlight' = (inFlight (-) Bag(r)) (+) SetToBag(C)
  BY <1>1, <1>2, SelectingLoads DEF ListArrives, EmptyBag
<1>5. C \in SUBSET SentDetails /\ \A s \in C : ~Awaited(s)
  BY <1>1, <1>2, SelectingLoads
<1>6. r \notin C
  BY <1>1, <1>5 DEF ListRequests, SentDetails
<1> HIDE DEF C
<1>7. Exchange({r}, C)
  BY <1>1, <1>4, <1>6, Replaces DEF Types
<1>8. Kept
  BY <1>3, <1>5, <1>7, EndingKeeps
<1>9. Shows /\ status' \in [Executions -> Statuses]
  BY <1>1, <1>2, <1>3 DEF Shows, Types
<1>10. ShownWasTrue'
  BY <1>1, <1>3, <1>9, RestGrows, ShownKept DEF IInv
<1> QED  BY <1>8, <1>9, <1>10, StepEnds

LEMMA DetailArrivesKeeps ==
  ASSUME IInv, NEW r \in UnderWay, DetailArrives(r)
  PROVE  IInv'
<1>1. Types /\ r \in AnsweredDetails /\ Honest(r)
  BY RequestFields DEF DetailArrives, Waiting, IInv, Types
<1>2. /\ UNCHANGED <<status, devMode, principal, tenant, list, selected>> /\ detail' = r.body
      /\ Ended(r) /\ r.kind = "detail" /\ inFlight' = inFlight (-) Bag(r)
  BY DEF DetailArrives, Waiting
<1>3. Exchange({r}, {})
  BY <1>1, <1>2, Drops DEF Types
<1>4. Kept
  BY <1>2, <1>3, EndingKeeps
<1>5. Shows /\ status' \in [Executions -> Statuses]
  BY <1>1, <1>2 DEF Shows, Types, AnsweredDetails
<1>6. ShownWasTrue'
  BY <1>1, <1>2 DEF ShownWasTrue, Honest
<1> QED  BY <1>4, <1>5, <1>6, StepEnds

LEMMA ApprovalArrivesKeeps ==
  ASSUME IInv, NEW r \in UnderWay, ApprovalArrives(r)
  PROVE  IInv'
<1> DEFINE l == LoadExecutions(r.tenant, TRUE)
           d == LoadDetail(r.tenant, r.id, TRUE)
<1>1. Types /\ r \in Approvals /\ r.kind = "approve" /\ Buttons
  BY RequestFields DEF ApprovalArrives, Waiting, IInv, Types
<1>2. r.tenant \in Tenants /\ r.id \in Executions /\ TRUE \in BOOLEAN
  BY <1>1 DEF Approvals
<1>3. /\ l \in ListRequests /\ l.kind = "list" /\ Awaited(l)
      /\ d \in SentDetails /\ d.kind = "detail" /\ Awaited(d)
  BY <1>2, NewRequests
<1>4. /\ inFlight' = (inFlight (-) Bag(r)) (+) SetToBag({l, d}) /\ UNCHANGED <<status, page>>
  BY DEF ApprovalArrives
<1> HIDE DEF l, d
<1>5. Exchange({r}, {l, d})
  BY <1>1, <1>3, <1>4, Replaces DEF Types
<1>6. status' \in [Executions -> Statuses] /\ Grows /\ busy' = busy
  BY <1>1, <1>4, RestGrows DEF Types, page
<1>7. IsABag(inFlight') /\ UnderWay' \subseteq AllRequests /\ \A x \in UnderWay' : Honest(x)'
  BY <1>3, <1>5, <1>6, NewIsHonest, DecisionsApart, RequestsKept DEF AllRequests
<1>8. Buttons'
  <2>1. Awaited(r) /\ \A x \in UnderWay : Awaited(x) => x = r
    BY <1>1 DEF Awaited, Buttons
  <2>2. l \notin UnderWay /\ d \notin UnderWay /\ inFlight[r] = 1 /\ r \notin {l, d} /\ busy
    BY <1>1, <1>3, <2>1 DEF Buttons
  <2>3. /\ \A x \in UnderWay' : Awaited(x) => x \in {l, d}
        /\ l \in UnderWay' /\ d \in UnderWay' /\ inFlight'[l] = 1 /\ inFlight'[d] = 1
    BY <1>5, <2>1, <2>2 DEF Exchange
  <2>4. \A x : Awaited(x)' = Awaited(x)
    BY DEF Awaited
  <2> QED  BY <1>3, <1>6, <2>2, <2>3, <2>4 DEF Buttons
<1>9. Kept
  BY <1>1, <1>6, <1>7, <1>8 DEF Kept, Types
<1> QED  BY <1>4, <1>6, <1>9, PageRests DEF page

LEMMA RefusalArrivesKeeps ==
  ASSUME IInv, NEW r \in UnderWay, RefusalArrives(r)
  PROVE  IInv'
<1>1. Types /\ Buttons /\ r \in AllRequests
  BY DEF IInv, Types
<1>2. /\ inFlight' = inFlight (-) Bag(r)
      /\ UNCHANGED <<status, devMode, principal, tenant, list, selected, detail>>
  BY DEF RefusalArrives
<1>3. Exchange({r}, {})
  BY <1>1, <1>2, Drops DEF Types
<1>4. status' \in [Executions -> Statuses] /\ Grows
  BY <1>1, <1>2, RestGrows DEF Types
<1>5. CASE r.kind # "approve"
  <2>1. Kept
    BY <1>2, <1>3, <1>5, EndingKeeps DEF RefusalArrives
  <2> QED  BY <1>2, <1>4, <2>1, PageRests
<1>6. CASE r.kind = "approve"
  <2>1. Awaited(r) /\ \A x \in UnderWay : Awaited(x) => x = r
    BY <1>1, <1>6 DEF Awaited, Buttons
  <2>2. r \notin UnderWay' /\ UnderWay' \subseteq UnderWay
    BY <1>1, <1>3, <2>1 DEF Exchange, Buttons
  <2>3. ~busy' /\ busy' \in BOOLEAN
    BY <1>6 DEF RefusalArrives, Finally
  <2>4. \A x : Awaited(x)' = Awaited(x)
    BY DEF Awaited
  <2>5. Buttons'
    BY <2>1, <2>2, <2>3, <2>4 DEF Buttons
  <2>6. IsABag(inFlight') /\ UnderWay' \subseteq AllRequests /\ \A x \in UnderWay' : Honest(x)'
    BY <1>3, <1>4, RequestsKept
  <2>7. Kept
    BY <2>3, <2>5, <2>6 DEF Kept
  <2> QED  BY <1>2, <1>4, <2>7, PageRests
<1> QED  BY <1>5, <1>6

(* The page and the operator. *)
LEMMA ReloadKeeps ==
  ASSUME IInv, Send(EmptyBag) \/ Send(Bag(LoadExecutions(tenant, FALSE)) (+) Selecting(selected)),
         UNCHANGED <<status, busy>>
  PROVE  Kept
<1>1. Types /\ tenant \in Tenants /\ FALSE \in BOOLEAN /\ selected \in Executions \cup {None}
  BY DEF IInv, Types
<1>2. CASE Send(EmptyBag)
  BY <1>2, SendingKeeps DEF EmptyBag
<1>3. CASE Send(Bag(LoadExecutions(tenant, FALSE)) (+) Selecting(selected))
  <2> DEFINE C == {LoadExecutions(tenant, FALSE)} \cup Loading(selected)
  <2>1. C \in SUBSET (ListRequests \cup SentDetails) /\ \A r \in C : ~Awaited(r)
    BY <1>1, NewRequests, SelectingLoads
  <2>2. Send(SetToBag(C))
    BY <1>1, <1>3, ReloadLoads
  <2> HIDE DEF C
  <2> QED  BY <2>1, <2>2, SendingKeeps
<1> QED  BY <1>2, <1>3

LEMMA PageKeeps ==
  ASSUME IInv, PrincipalArrives \/ Tick \/ Operator
  PROVE  IInv'
<1>0. Types /\ tenant \in Tenants /\ FALSE \in BOOLEAN
  BY DEF IInv, Types
<1>1. CASE PrincipalArrives
  <2>1. UNCHANGED <<status, devMode, tenant, list, selected, detail, busy>> /\ principal' = TRUE
    BY <1>1 DEF PrincipalArrives
  <2>2. Kept
    BY <1>1, <2>1, ReloadKeeps DEF PrincipalArrives
  <2>3. Shows /\ status' \in [Executions -> Statuses]
    BY <1>0, <2>1 DEF Shows, Types
  <2>4. ShownWasTrue'
    BY <1>0, <2>1, <2>3, RestGrows, ShownKept DEF IInv
  <2> QED  BY <2>2, <2>3, <2>4, StepEnds
<1>2. CASE Tick
  <2>1. UNCHANGED <<status, page>> /\ Kept
    BY <1>2, ReloadKeeps DEF Tick, Polled, page
  <2>2. status' \in [Executions -> Statuses] /\ Grows
    BY <1>0, <2>1, RestGrows DEF Types
  <2> QED  BY <2>1, <2>2, PageRests DEF page
<1>3. ASSUME NEW e \in Executions, Select(e) PROVE IInv'
  <2>1. /\ UNCHANGED <<status, devMode, principal, tenant, list, detail, busy>> /\ selected' = e
        /\ Send(Selecting(e))
    BY <1>3 DEF Select
  <2>2. Kept
    BY <1>0, <2>1, SelectingLoads, SendingKeeps
  <2>3. Shows /\ status' \in [Executions -> Statuses]
    BY <1>0, <2>1 DEF Shows, Types
  <2>4. ShownWasTrue'
    BY <1>0, <2>1, <2>3, RestGrows, ShownKept DEF IInv
  <2> QED  BY <2>2, <2>3, <2>4, StepEnds
<1>4. CASE Refresh
  <2>1. UNCHANGED <<status, page>> /\ Send(SetToBag({LoadExecutions(tenant, FALSE)}))
    BY <1>4 DEF Refresh, Bag
  <2>2. Kept
    BY <1>0, <2>1, NewRequests, SendingKeeps DEF page
  <2>3. status' \in [Executions -> Statuses] /\ Grows
    BY <1>0, <2>1, RestGrows DEF Types
  <2> QED  BY <2>1, <2>2, <2>3, PageRests DEF page
<1>5. ASSUME NEW t \in Tenants, SelectTenant(t) PROVE IInv'
  <2>1. /\ UNCHANGED <<status, devMode, principal, list, busy>>
        /\ tenant' = t /\ selected' = None /\ detail' = None
    BY <1>5 DEF SelectTenant
  <2>2. Kept
    <3>1. Send(SetToBag({})) \/ Send(SetToBag({LoadExecutions(t, FALSE)}))
      BY <1>5 DEF SelectTenant, EmptyBag, Bag
    <3> QED  BY <1>0, <2>1, <3>1, NewRequests, SendingKeeps
  <2>3. Shows /\ status' \in [Executions -> Statuses]
    BY <1>0, <2>1 DEF Shows, Types
  <2>4. ShownWasTrue'
    BY <2>1 DEF ShownWasTrue
  <2> QED  BY <2>2, <2>3, <2>4, StepEnds
<1>6. ASSUME NEW v \in Verdicts, Approve(v) PROVE IInv'
  <2> DEFINE r == Request("approve", tenant, detail.id, FALSE, [verdict |-> v, connected |-> tenant])
  <2>1. /\ UNCHANGED <<status, devMode, principal, tenant, list, selected, detail>>
        /\ busy' = TRUE /\ ~busy /\ detail # None /\ inFlight' = inFlight (+) SetToBag({r})
    BY <1>6 DEF Approve, Answered, ApprovalHeaders, Send, Bag
  <2>2. r \in Approvals /\ r.kind = "approve" /\ r.body.connected = r.tenant
    BY <1>0, <2>1 DEF Request, Approvals, Types, Details
  <2> HIDE DEF r
  <2>3. Exchange({}, {r})
    BY <1>0, <2>1, Sends DEF Types
  <2>4. status' \in [Executions -> Statuses] /\ Grows
    BY <1>0, <2>1, RestGrows DEF Types
  <2>5. IsABag(inFlight') /\ UnderWay' \subseteq AllRequests /\ \A x \in UnderWay' : Honest(x)'
    BY <2>2, <2>3, <2>4, NewIsHonest, RequestsKept DEF AllRequests
  <2>6. Buttons'
    <3>1. Awaited(r) /\ \A x \in UnderWay : ~Awaited(x)
      BY <2>1, <2>2 DEF IInv, Buttons, Awaited
    <3>2. /\ \A x \in UnderWay' : Awaited(x) => x = r
          /\ r \in UnderWay' /\ inFlight'[r] = 1
      BY <2>3, <3>1 DEF Exchange
    <3>3. \A x : Awaited(x)' = Awaited(x)
      BY DEF Awaited
    <3> QED  BY <2>1, <3>1, <3>2, <3>3 DEF Buttons
  <2>7. Kept
    BY <2>1, <2>5, <2>6 DEF Kept
  <2> QED  BY <2>1, <2>4, <2>7, PageRests
<1> QED  BY <1>1, <1>2, <1>3, <1>4, <1>5, <1>6 DEF Operator

LEMMA IInvInit == Init => IInv
<1> SUFFICES ASSUME Init PROVE IInv
  OBVIOUS
<1> DEFINE l == LoadExecutions(tenant, FALSE)
<1>1. tenant \in Tenants /\ FALSE \in BOOLEAN /\ devMode \in BOOLEAN
  BY DEF Init
<1>2. l \in ListRequests /\ ~Awaited(l)
  BY <1>1, NewRequests
<1>3. inFlight = SetToBag({l})
  BY DEF Init, Bag
<1> HIDE DEF l
<1>4. IsABag(inFlight) /\ UnderWay = {l}
  BY <1>3, SetBags DEF UnderWay, BagToSet
<1>5. Types
  BY <1>1, <1>2, <1>4 DEF Init, Types, Statuses, AllRequests
<1>6. Honest(l)
  BY <1>2, DecisionsApart DEF Honest, ListRequests, RowDetails, AnsweredDetails
<1>7. ShownWasTrue /\ Buttons
  BY <1>2, <1>4 DEF Init, ShownWasTrue, Buttons
<1> QED  BY <1>4, <1>5, <1>6, <1>7 DEF IInv

LEMMA IInvNext == IInv /\ [Next]_vars => IInv'
<1> SUFFICES ASSUME IInv, [Next]_vars PROVE IInv'
  OBVIOUS
<1>1. ASSUME NEW r \in UnderWay, Answer(r) PROVE IInv'
  BY <1>1, RowReadKeeps, DetailAnsweredKeeps, DecidedKeeps DEF Answer
<1>2. ASSUME NEW r \in UnderWay, Arrival(r) PROVE IInv'
  BY <1>2, ListArrivesKeeps, DetailArrivesKeeps, ApprovalArrivesKeeps, RefusalArrivesKeeps
  DEF Arrival
<1>3. CASE UNCHANGED vars
  BY <1>3 DEF vars, page, IInv, Types, UnderWay, Honest, ShownWasTrue, Buttons, Awaited
<1> QED  BY <1>1, <1>2, <1>3, OthersMoveKeeps, PageKeeps DEF Next, Environment

-----------------------------------------------------------------------------
(* Theorems. *)

(* Every row, request under way and value the page holds keeps its kind,   *)
(* and the buttons are disabled exactly while approve() awaits a request.  *)
THEOREM TypeCorrect == Spec => []TypeOK
<1>1. IInv => TypeOK
  BY DEF IInv, Buttons, Types, TypeOK
<1> QED  BY <1>1, IInvInit, IInvNext, PTL DEF Spec

(* What the page shows is behind the database, never ahead of it, however  *)
(* many requests overtake each other.                                      *)
THEOREM ShownWasTrueTheorem == Spec => []ShownWasTrue
<1>1. IInv => ShownWasTrue
  BY DEF IInv
<1> QED  BY <1>1, IInvInit, IInvNext, PTL DEF Spec

(* A decision is recorded only in the tenant the page was connected to     *)
(* when the operator clicked.                                              *)
THEOREM DecisionsStayInTenantTheorem == Spec => DecisionsStayInTenant
<1> DEFINE A == \A r \in Waiting("approve", "sent") :
                  r \notin BagToSet(inFlight') /\ status'[r.id] # status[r.id]
                    => TenantOf[r.id] = r.body.connected
<1>1. ASSUME IInv, [Next]_vars PROVE A
  <2> SUFFICES ASSUME NEW r \in Waiting("approve", "sent"), r \notin UnderWay',
                      status' # status
               PROVE  TenantOf[r.id] = r.body.connected
    BY DEF UnderWay
  <2>1. r \in UnderWay
    BY DEF Waiting
  <2>2. ASSUME NEW s \in UnderWay, Decided(s) PROVE TenantOf[r.id] = r.body.connected
    <3>1. TenantOf[s.id] = s.tenant /\ s \in Approvals /\ s.state = "sent"
      BY <1>1, <2>2, RequestFields DEF Decided, Decidable, Waiting, IInv, Types
    <3>6. s.body.connected = s.tenant
      BY <1>1, <3>1 DEF IInv, Honest
    <3>2. PICK a \in {"answered", "refused"} : Becomes(s, [s EXCEPT !.state = a])
      BY <2>2 DEF Decided
    <3>3. [s EXCEPT !.state = a] # s
      BY <3>1 DEF Approvals
    <3>4. Exchange({s}, {[s EXCEPT !.state = a]})
      BY <1>1, <3>2, <3>3, Replaces DEF Becomes, Bag, IInv, Types
    <3>5. r = s
      BY <2>1, <3>4 DEF Exchange
    <3> QED  BY <3>1, <3>5, <3>6
  <2>3. ASSUME NEW e \in Executions, NEW s \in Verdicts \cup {"OUTCOME"}, OthersMove(e, s)
        PROVE  FALSE
    BY <2>1, <2>3 DEF OthersMove, UnderWay
  <2>4. PrincipalArrives \/ Tick \/ Operator => UNCHANGED status
    BY DEF PrincipalArrives, Tick, Operator, Select, Refresh, SelectTenant, Approve
  <2>5. \A s \in UnderWay : Arrival(s) => UNCHANGED status
    BY DEF Arrival, ListArrives, DetailArrives, ApprovalArrives, RefusalArrives
  <2>6. \A s \in UnderWay : RowRead(s) \/ DetailAnswered(s) => UNCHANGED status
    BY DEF RowRead, DetailAnswered
  <2> QED  BY <1>1, <2>2, <2>3, <2>4, <2>5, <2>6 DEF Next, Environment, Answer, vars
<1>2. IInv /\ [Next]_vars => [A]_vars
  BY <1>1
<1> QED  BY <1>2, IInvInit, IInvNext, PTL DEF Spec, DecisionsStayInTenant
=============================================================================
