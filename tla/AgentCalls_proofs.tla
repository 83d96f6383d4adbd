------------------------- MODULE AgentCalls_proofs -------------------------
(***************************************************************************)
(* Proofs about the model gateway, for every routing table, every price,   *)
(* every set of denied providers and any number of interleaved calls; and  *)
(* about the commands as its clients, for every set of agent definitions:  *)
(* they use the gateway as it is specified, and what they use was          *)
(* validated.                                                              *)
(***************************************************************************)
EXTENDS AgentCalls, FiniteSetTheorems, TLAPS

----------------------------------------------------------------------------
(* The gateway.                                                             *)

\* A call that is served: it had a route when it came.
Served(k) == phase[k] \notin {"none", "rejected"}

\* A tier of the route of a well-formed request has a target.
LEMMA RouteTargets ==
  ASSUME NEW q \in Request, WellFormed(q), NEW n \in Route(q)
  PROVE  n \in Tiers /\ Slots(q)[n] \in Targets
<1>1. n \in Tiers /\ Slots(q)[n] # NoTarget
  BY DEF Route
<1>2. Slots(q)[n] \in Targets \cup {NoTarget}
  <2>1. CASE q.privacy = "air_gapped"
    <3>1. Slots(q)[n] = IF n = 1 THEN AirGapped[q.task] ELSE NoTarget
      BY <1>1, <2>1 DEF Slots
    <3>2. AirGapped[q.task] \in Targets \cup {NoTarget}
      BY GatewayAssumption DEF WellFormed
    <3> QED BY <3>1, <3>2
  <2>2. CASE q.privacy # "air_gapped"
    <3>1. Slots(q) = Table[q.task][q.budget]
      BY <2>2 DEF Slots
    <3>2. Table[q.task][q.budget] \in [Tiers -> Targets \cup {NoTarget}]
      BY GatewayAssumption DEF WellFormed
    <3> QED BY <1>1, <3>1, <3>2
  <2> QED BY <2>1, <2>2
<1> QED BY <1>1, <1>2

\* Providers of a well-formed request's route are those its privacy allows.
LEMMA RoutePrivacy ==
  ASSUME NEW q \in Request, WellFormed(q), NEW n \in Route(q)
  PROVE  LET p == ProviderOf[Slots(q)[n]] IN
           /\ q.privacy = "air_gapped" => p = Local
           /\ q.privacy = "sensitive" => p \notin Denied
<1>1. ASSUME q.privacy = "air_gapped" PROVE ProviderOf[Slots(q)[n]] = Local
  <2>1. n \in Tiers /\ Slots(q)[n] # NoTarget
    BY DEF Route
  <2>2. Slots(q)[n] = AirGapped[q.task]
    BY <1>1, <2>1 DEF Slots
  <2> QED BY <2>1, <2>2, GatewayAssumption DEF WellFormed
<1>2. ASSUME q.privacy = "sensitive" PROVE ProviderOf[Slots(q)[n]] \notin Denied
  BY <1>2 DEF Route
<1> QED BY <1>1, <1>2

\* A product of naturals is one.
LEMMA Product == ASSUME NEW m \in Nat, NEW n \in Nat PROVE m * n \in Nat
OBVIOUS

----------------------------------------------------------------------------
\* What has been done for call k. The tiers tried are the first ones of its route,
\* the one awaited is the last of them, and only their providers have been reached.
Routed(k) ==
  /\ phase[k] = "none" => tried[k] = {}
  /\ ~Served(k) => reached[k] = {}
  /\ Served(k) =>
       /\ WellFormed(request[k])
       /\ tried[k] \subseteq Route(request[k])
       /\ \A n \in tried[k], m \in Route(request[k]) : m <= n => m \in tried[k]
       /\ \A p \in reached[k] : \E n \in tried[k] : p = ProviderOf[Slots(request[k])[n]]
  /\ phase[k] = "await" => /\ at[k] \in tried[k] /\ \A n \in tried[k] : n <= at[k]
                           /\ reached[k] # {}

\* What it has been charged so far is for tiers it has asked before.
Charged(k) ==
  /\ reached[k] = {} => billed[k] = 0
  /\ phase[k] \in {"none", "choose"} /\ tried[k] = {} => billed[k] = 0
  /\ phase[k] = "await" => billed[k] = 0 \/ \E n \in tried[k] : n # at[k]

\* How it ended.
Concluded(k) ==
  /\ phase[k] = "failed" => tried[k] = Route(request[k])
  /\ phase[k] = "answered" =>
       /\ tried[k] = {n \in Route(request[k]) : n <= answer[k].tier}
       /\ answer[k].tier \in tried[k]
       /\ Escalate => answer[k].verdict # "invalid"
       /\ answer[k].cost <= billed[k]
       /\ answer[k].cost = billed[k] \/ \E n \in tried[k] : n # answer[k].tier

CallInv(k) == Routed(k) /\ Charged(k) /\ Concluded(k)

\* The inductive invariant.
IInv == GatewayTypeOK /\ \A k \in Calls : CallInv(k)

\* A step that is another call's.
Untouched(k) ==
  /\ phase'[k] = phase[k] /\ request'[k] = request[k] /\ at'[k] = at[k]
  /\ tried'[k] = tried[k] /\ reached'[k] = reached[k] /\ billed'[k] = billed[k]
  /\ answer'[k] = answer[k]

LEMMA OthersKeep ==
  ASSUME NEW k \in Calls, CallInv(k), Untouched(k) PROVE CallInv(k)'
BY DEF Untouched, CallInv, Routed, Charged, Concluded, Served

\* What an attempt costs, and the bill with it.
LEMMA CostType ==
  ASSUME IInv, NEW k \in Calls, phase[k] = "await", NEW tokens \in 0..MaxTokens
  PROVE  Cost(k, tokens) \in Nat /\ billed[k] + Cost(k, tokens) \in Nat
<1>1. request[k] \in Request /\ WellFormed(request[k]) /\ at[k] \in Route(request[k])
  BY DEF IInv, GatewayTypeOK, CallInv, Routed, Served
<1>2. Price[Slots(request[k])[at[k]]] \in Nat
  BY <1>1, RouteTargets, GatewayAssumption
<1>3. tokens \in Nat
  BY GatewayAssumption
<1>4. Cost(k, tokens) \in Nat
  BY <1>2, <1>3, Product DEF Cost
<1>5. billed[k] \in Nat
  BY DEF IInv, GatewayTypeOK
<1> QED BY <1>4, <1>5

----------------------------------------------------------------------------
(* Every step keeps the invariant.                                          *)

\* A function updated at k only leaves the others alone.
LEMMA StepOthers ==
  ASSUME GatewayTypeOK, NEW k \in Calls, NEW j \in Calls, j # k,
         Handle(k) \/ \E q \in Request : Accept(k, q)
  PROVE  Untouched(j)
BY DEF Handle, Accept, CallProvider, ProviderMissing, ProviderAnswers, ProviderFails,
       Exhausted, Bill, Untouched, GatewayTypeOK

LEMMA AcceptType ==
  ASSUME GatewayTypeOK, NEW k \in Calls, NEW q \in Request, Accept(k, q)
  PROVE  GatewayTypeOK'
BY DEF Accept, GatewayTypeOK, Phases

LEMMA AskType ==
  ASSUME IInv, NEW k \in Calls, NEW n \in Tiers, CallProvider(k, n) \/ ProviderMissing(k, n)
  PROVE  GatewayTypeOK'
<1> USE DEF IInv
<1>1. phase[k] = "choose" /\ request[k] \in Request /\ n \in Route(request[k])
  BY DEF CallProvider, ProviderMissing, NextTier, GatewayTypeOK
<1>2. ProviderOf[Slots(request[k])[n]] \in {ProviderOf[t] : t \in Targets}
  BY <1>1, RouteTargets DEF CallInv, Routed, Served
<1>3. CASE CallProvider(k, n)
  BY <1>1, <1>2, <1>3 DEF CallProvider, GatewayTypeOK, Phases
<1>4. CASE ProviderMissing(k, n)
  BY <1>1, <1>4 DEF ProviderMissing, GatewayTypeOK, Phases
<1> QED BY <1>3, <1>4

LEMMA AnswerType ==
  ASSUME IInv, NEW k \in Calls, NEW tokens \in 0..MaxTokens,
         ProviderFails(k, tokens)
           \/ \E v \in {"valid", "invalid", "unchecked"} : ProviderAnswers(k, v, tokens)
  PROVE  GatewayTypeOK'
<1>1. phase[k] = "await"
  BY DEF ProviderFails, ProviderAnswers
<1>2. Cost(k, tokens) \in Nat /\ billed[k] + Cost(k, tokens) \in Nat
  BY <1>1, CostType
<1>3. billed' = [billed EXCEPT ![k] = billed[k] + Cost(k, tokens)]
  BY DEF ProviderFails, ProviderAnswers, Bill
<1>4. GatewayTypeOK /\ billed' \in [Calls -> Nat]
  BY <1>2, <1>3 DEF IInv, GatewayTypeOK
<1>5. CASE ProviderFails(k, tokens)
  BY <1>1, <1>4, <1>5 DEF ProviderFails, GatewayTypeOK, Phases
<1>6. ASSUME NEW v \in {"valid", "invalid", "unchecked"}, ProviderAnswers(k, v, tokens)
      PROVE  GatewayTypeOK'
  <2>1. [tier |-> at[k], verdict |-> v, cost |-> Cost(k, tokens)] \in Answer
    BY <1>2, <1>4 DEF Answer, GatewayTypeOK
  <2>2. answer' \in [Calls -> Answer]
    BY <1>4, <1>6, <2>1 DEF ProviderAnswers, GatewayTypeOK
  <2> QED BY <1>1, <1>4, <1>6, <2>2 DEF ProviderAnswers, GatewayTypeOK, Phases
<1> QED BY <1>5, <1>6

LEMMA AcceptStep ==
  ASSUME IInv, NEW k \in Calls, NEW q \in Request, Accept(k, q) PROVE CallInv(k)'
<1>1. tried[k] = {} /\ reached[k] = {} /\ billed[k] = 0
  BY DEF Accept, IInv, CallInv, Routed, Charged, Served
<1>2. /\ request'[k] = q
      /\ phase'[k] = IF ~WellFormed(q) THEN "rejected"
                     ELSE IF Route(q) = {} THEN "failed" ELSE "choose"
      /\ UNCHANGED <<tried, reached, billed, answer>>
  BY DEF Accept, IInv, GatewayTypeOK
<1> QED BY <1>1, <1>2 DEF CallInv, Routed, Charged, Concluded, Served

\* The next tier follows all those tried before, so what has been tried is still
\* the beginning of the route.
LEMMA NextIsLast ==
  ASSUME IInv, NEW k \in Calls, phase[k] = "choose", NEW n \in Tiers, NextTier(k, n)
  PROVE  /\ n \in Route(request[k]) /\ n \notin tried[k]
         /\ \A m \in tried[k] : m <= n
         /\ \A m \in Route(request[k]) : m <= n => m \in tried[k] \cup {n}
<1>1. n \in Route(request[k]) \ tried[k]
  BY DEF NextTier
<1>2. /\ Route(request[k]) \subseteq Tiers /\ tried[k] \subseteq Tiers
      /\ \A i \in tried[k], m \in Route(request[k]) : m <= i => m \in tried[k]
  BY DEF Route, IInv, GatewayTypeOK, CallInv, Routed, Served
<1>3. \A i, j \in Tiers : i <= j \/ j <= i
  BY DEF Tiers
<1>4. \A m \in tried[k] : m <= n
  BY <1>1, <1>2, <1>3
<1>5. ASSUME NEW m \in Route(request[k]), m <= n, m \notin tried[k] PROVE m = n
  <2>1. n <= m
    BY <1>5 DEF NextTier
  <2> QED BY <1>2, <1>5, <2>1 DEF Tiers
<1> QED BY <1>1, <1>4, <1>5

LEMMA AskStep ==
  ASSUME IInv, NEW k \in Calls, NEW n \in Tiers, CallProvider(k, n) \/ ProviderMissing(k, n)
  PROVE  CallInv(k)'
<1>1. phase[k] = "choose" /\ NextTier(k, n)
  BY DEF CallProvider, ProviderMissing
<1>2. /\ n \in Route(request[k]) /\ n \notin tried[k]
      /\ \A m \in tried[k] : m <= n
      /\ \A m \in Route(request[k]) : m <= n => m \in tried[k] \cup {n}
  BY <1>1, NextIsLast
<1>3. Routed(k) /\ Charged(k)
  BY DEF IInv, CallInv
<1>4. request'[k] = request[k] /\ billed'[k] = billed[k] /\ tried'[k] = tried[k] \cup {n}
  BY DEF CallProvider, ProviderMissing, IInv, GatewayTypeOK
<1>5. \A i \in tried'[k], m \in Route(request[k]) : m <= i => m \in tried'[k]
  BY <1>1, <1>2, <1>3, <1>4 DEF Routed, Served
<1>6. n <= n
  BY DEF Tiers
<1>7. CASE CallProvider(k, n)
  <2>1. /\ phase'[k] = "await" /\ at'[k] = n
        /\ reached'[k] = reached[k] \cup {ProviderOf[Slots(request[k])[n]]}
    BY <1>7 DEF CallProvider, IInv, GatewayTypeOK
  <2>2. Routed(k)'
    BY <1>1, <1>2, <1>3, <1>4, <1>5, <1>6, <2>1 DEF Routed, Served
  <2>3. Charged(k)'
    <3>1. billed[k] = 0 \/ tried[k] # {}
      BY <1>1, <1>3 DEF Charged
    <3>2. \A m \in tried[k] : m \in tried'[k] /\ m # n
      BY <1>2, <1>4
    <3> QED BY <1>4, <2>1, <3>1, <3>2 DEF Charged
  <2> QED BY <2>1, <2>2, <2>3 DEF CallInv, Concluded
<1>8. CASE ProviderMissing(k, n)
  <2>1. phase'[k] = "choose" /\ reached'[k] = reached[k] /\ at'[k] = at[k]
    BY <1>1, <1>8 DEF ProviderMissing
  <2>2. Routed(k)'
    BY <1>1, <1>2, <1>3, <1>4, <1>5, <2>1 DEF Routed, Served
  <2>3. Charged(k)'
    BY <1>3, <1>4, <2>1 DEF Charged
  <2> QED BY <2>1, <2>2, <2>3 DEF CallInv, Concluded
<1> QED BY <1>7, <1>8

\* An error leaves everything as it was but the bill.
LEMMA FailStep ==
  ASSUME IInv, NEW k \in Calls, NEW tokens \in 0..MaxTokens, ProviderFails(k, tokens)
  PROVE  CallInv(k)'
<1>1. phase[k] = "await"
  BY DEF ProviderFails
<1>2. /\ phase'[k] = "choose" /\ request'[k] = request[k]
      /\ tried'[k] = tried[k] /\ reached'[k] = reached[k]
  BY DEF ProviderFails, IInv, GatewayTypeOK
<1>3. Routed(k) /\ Charged(k)
  BY DEF IInv, CallInv
<1>4. reached[k] # {} /\ tried[k] # {}
  BY <1>1, <1>3 DEF Routed
<1>5. Routed(k)'
  BY <1>1, <1>2, <1>3 DEF Routed, Served
<1>6. Charged(k)'
  BY <1>2, <1>4 DEF Charged
<1> QED BY <1>2, <1>5, <1>6 DEF CallInv, Concluded

\* An answer escalates like an error, or ends the call with the tier that gave it:
\* what it reports to cost is what this attempt has cost, the whole bill if no
\* other tier was tried.
LEMMA AnswerStep ==
  ASSUME IInv, NEW k \in Calls, NEW tokens \in 0..MaxTokens,
         NEW v \in {"valid", "invalid", "unchecked"}, ProviderAnswers(k, v, tokens)
  PROVE  CallInv(k)'
<1> DEFINE c == Cost(k, tokens)
<1>1. phase[k] = "await"
  BY DEF ProviderAnswers
<1>2. /\ request'[k] = request[k] /\ tried'[k] = tried[k] /\ reached'[k] = reached[k]
      /\ billed'[k] = billed[k] + c
  BY DEF ProviderAnswers, Bill, IInv, GatewayTypeOK
<1>3. Routed(k) /\ Charged(k)
  BY DEF IInv, CallInv
<1>4. reached[k] # {} /\ at[k] \in tried[k] /\ at[k] \in Tiers /\ tried[k] \subseteq Tiers
  BY <1>1, <1>3 DEF Routed, IInv, GatewayTypeOK
<1>5. c \in Nat /\ billed[k] \in Nat
  BY <1>1, CostType DEF IInv, GatewayTypeOK
<1> HIDE DEF c
<1>6. CASE v = "invalid" /\ Escalate
  <2>1. phase'[k] = "choose"
    BY <1>6 DEF ProviderAnswers, IInv, GatewayTypeOK
  <2>2. Routed(k)'
    BY <1>1, <1>2, <1>3, <2>1 DEF Routed, Served
  <2>3. Charged(k)'
    BY <1>2, <1>4, <2>1 DEF Charged
  <2> QED BY <2>1, <2>2, <2>3 DEF CallInv, Concluded
<1>7. CASE ~(v = "invalid" /\ Escalate)
  <2>1. /\ phase'[k] = "answered"
        /\ answer'[k] = [tier |-> at[k], verdict |-> v, cost |-> c]
    BY <1>7 DEF ProviderAnswers, IInv, GatewayTypeOK, c
  <2>2. Routed(k)'
    BY <1>1, <1>2, <1>3, <2>1 DEF Routed, Served
  <2>3. Charged(k)'
    BY <1>2, <1>4, <2>1 DEF Charged
  <2>4. tried[k] = {n \in Route(request[k]) : n <= at[k]}
    BY <1>1, <1>3, <1>4 DEF Routed, Served
  <2>5. c <= billed[k] + c
    BY <1>5
  <2>6. c = billed[k] + c \/ \E n \in tried[k] : n # at[k]
    <3>1. CASE billed[k] = 0
      BY <1>5, <3>1
    <3> QED BY <1>1, <1>3, <3>1 DEF Charged
  <2>7. Concluded(k)'
    <3>1. /\ answer'[k].tier = at[k] /\ answer'[k].verdict = v /\ answer'[k].cost = c
      BY <2>1
    <3>2. Escalate => v # "invalid"
      BY <1>7
    <3> QED BY <1>2, <1>4, <2>1, <2>4, <2>5, <2>6, <3>1, <3>2 DEF Concluded
  <2> QED BY <2>2, <2>3, <2>7 DEF CallInv
<1> QED BY <1>6, <1>7

LEMMA ExhaustedStep ==
  ASSUME IInv, NEW k \in Calls, Exhausted(k) PROVE GatewayTypeOK' /\ CallInv(k)'
<1>1. /\ phase[k] = "choose" /\ Route(request[k]) \subseteq tried[k]
      /\ phase' = [phase EXCEPT ![k] = "failed"]
      /\ UNCHANGED <<request, at, tried, reached, billed, answer>>
  BY DEF Exhausted
<1>2. GatewayTypeOK'
  BY <1>1 DEF IInv, GatewayTypeOK, Phases
<1>3. phase'[k] = "failed"
  BY <1>1 DEF IInv, GatewayTypeOK
<1> QED BY <1>1, <1>2, <1>3 DEF IInv, CallInv, Routed, Charged, Concluded, Served

LEMMA InvStep == ASSUME IInv, [GatewayNext]_gateway PROVE IInv'
<1>1. ASSUME NEW k \in Calls, Handle(k) \/ \E q \in Request : Accept(k, q),
             GatewayTypeOK', CallInv(k)'
      PROVE  IInv'
  <2>1. ASSUME NEW j \in Calls, j # k PROVE CallInv(j)'
    BY <1>1, <2>1, StepOthers, OthersKeep DEF IInv
  <2> QED BY <1>1, <2>1 DEF IInv
<1>2. ASSUME NEW k \in Calls, NEW q \in Request, Accept(k, q) PROVE IInv'
  BY <1>1, <1>2, AcceptType, AcceptStep DEF IInv
<1>3. ASSUME NEW k \in Calls, NEW n \in Tiers, CallProvider(k, n) \/ ProviderMissing(k, n)
      PROVE  IInv'
  BY <1>1, <1>3, AskType, AskStep DEF Handle
<1>4. ASSUME NEW k \in Calls, NEW tokens \in 0..MaxTokens, ProviderFails(k, tokens)
      PROVE  IInv'
  BY <1>1, <1>4, AnswerType, FailStep DEF Handle
<1>5. ASSUME NEW k \in Calls, NEW tokens \in 0..MaxTokens,
             NEW v \in {"valid", "invalid", "unchecked"}, ProviderAnswers(k, v, tokens)
      PROVE  IInv'
  BY <1>1, <1>5, AnswerType, AnswerStep DEF Handle
<1>6. ASSUME NEW k \in Calls, Exhausted(k) PROVE IInv'
  BY <1>1, <1>6, ExhaustedStep DEF Handle
<1>7. CASE UNCHANGED gateway
  <2>1. GatewayTypeOK'
    BY <1>7 DEF gateway, IInv, GatewayTypeOK
  <2>2. ASSUME NEW k \in Calls PROVE CallInv(k)'
    BY <1>7, OthersKeep DEF gateway, Untouched, IInv
  <2> QED BY <2>1, <2>2 DEF IInv
<1> QED BY <1>2, <1>3, <1>4, <1>5, <1>6, <1>7 DEF GatewayNext, Handle

LEMMA InvInit == GatewayInit => IInv
<1> SUFFICES ASSUME GatewayInit PROVE IInv
  OBVIOUS
<1>1. GatewayTypeOK
  BY DEF GatewayInit, GatewayTypeOK, Phases, Answer, NoAnswer
<1>2. \A k \in Calls : CallInv(k)
  BY DEF GatewayInit, CallInv, Routed, Charged, Concluded, Served
<1> QED BY <1>1, <1>2 DEF IInv

\* The inductive invariant holds in every reachable state.
THEOREM Inductive == GatewaySpec => []IInv
BY InvInit, InvStep, PTL DEF GatewaySpec

----------------------------------------------------------------------------
\* Type correctness: calls keep their shapes, and the tier that is awaited has been
\* counted as tried.
THEOREM TypeCorrect == GatewaySpec => []GatewayTypeOK
BY Inductive, PTL DEF IInv

LEMMA InvPrivacy == IInv => PrivacyHonoured
<1> SUFFICES ASSUME IInv, NEW k \in Calls, NEW p \in reached[k]
             PROVE  /\ request[k].privacy \in Privacy
                    /\ request[k].privacy = "air_gapped" => p = Local
                    /\ request[k].privacy = "sensitive" => p \notin Denied
  BY DEF PrivacyHonoured
<1>1. Routed(k) /\ Served(k) /\ request[k] \in Request
  BY DEF IInv, CallInv, Routed, Served, GatewayTypeOK
<1>2. WellFormed(request[k])
  BY <1>1 DEF Routed
<1>3. PICK n \in tried[k] : p = ProviderOf[Slots(request[k])[n]]
  BY <1>1 DEF Routed
<1>4. n \in Route(request[k])
  BY <1>1 DEF Routed
<1> QED BY <1>1, <1>2, <1>3, <1>4, RoutePrivacy DEF WellFormed

\* Privacy holds on every fallback, for every routing table: no failure, missing
\* provider or escalation leads a call to a provider its privacy rules out.
THEOREM PrivacyKept == GatewaySpec => []PrivacyHonoured
BY Inductive, InvPrivacy, PTL

\* An answer comes from the first tier that gave one, and with escalation never
\* fails the caller's schema.
THEOREM FirstTier == GatewaySpec => []FirstTierAnswers
<1>1. IInv => FirstTierAnswers
  BY DEF IInv, CallInv, Concluded, FirstTierAnswers
<1> QED BY <1>1, Inductive, PTL

\* A call fails only after its whole route has been tried, and costs nothing if
\* nobody was asked.
THEOREM Exhaustive == GatewaySpec => []FailsExhausted
<1>1. IInv => FailsExhausted
  BY DEF IInv, CallInv, Concluded, Charged, FailsExhausted
<1> QED BY <1>1, Inductive, PTL

\* The cost an answer reports is a lower bound of what the call was charged, exact
\* if one tier was tried.
THEOREM LowerBound == GatewaySpec => []CostIsLowerBound
<1>1. IInv => CostIsLowerBound
  <2> SUFFICES ASSUME IInv, NEW k \in Calls, phase[k] = "answered"
               PROVE  /\ answer[k].cost <= billed[k]
                      /\ Cardinality(tried[k]) = 1 => answer[k].cost = billed[k]
    BY DEF CostIsLowerBound
  <2>1. Concluded(k)
    BY DEF IInv, CallInv
  <2>2. ASSUME Cardinality(tried[k]) = 1, NEW n \in tried[k] PROVE n = answer[k].tier
    <3>1. IsFiniteSet(tried[k])
      <4>1. IsFiniteSet(Tiers)
        BY FS_Interval, 1 \in Int, 3 \in Int DEF Tiers
      <4>2. tried[k] \in SUBSET Tiers
        BY DEF IInv, GatewayTypeOK
      <4> QED BY <4>1, <4>2, FS_Subset
    <3>2. PICK m : tried[k] = {m}
      BY <2>2, <3>1, FS_Singleton
    <3> QED BY <2>1, <3>2 DEF Concluded
  <2> QED BY <2>1, <2>2 DEF Concluded
<1> QED BY <1>1, Inductive, PTL

----------------------------------------------------------------------------
(* A call comes to its end.                                                 *)

\* The tiers of its route that call k has not tried, and the most steps its handler
\* may still take: two for each of them, and one or two to end.
Untried(k) == Route(request[k]) \ tried[k]
Left(k) == 2 * Cardinality(Untried(k))
             + (IF phase[k] = "choose" THEN 1 ELSE IF phase[k] = "await" THEN 2 ELSE 0)

\* No step of anyone gives a call back a step it has taken, and each step of its
\* handler takes one.
Descends ==
  \A k \in Calls : phase[k] # "none" =>
     Left(k)' <= Left(k) /\ (Handle(k) => Left(k)' < Left(k))

\* A call has at most seven steps left, and between two tiers it can take one: it has
\* tried its whole route, or one of its tiers is next.
CanGoOn ==
  \A k \in Calls :
     /\ Left(k) \in 0..7
     /\ phase[k] = "choose" => Route(request[k]) \subseteq tried[k] \/ \E n \in Tiers : NextTier(k, n)

\* A set of tiers is finite, and counts one less without one of its tiers.
LEMMA TierCount ==
  ASSUME NEW S \in SUBSET Tiers
  PROVE  /\ Cardinality(S) \in 0..3
         /\ \A n \in S : Cardinality(S \ {n}) = Cardinality(S) - 1
<1>1. IsFiniteSet(Tiers) /\ Cardinality(Tiers) = 3
  <2>1. IsFiniteSet({1}) /\ Cardinality({1}) = 1
    BY FS_Singleton, Zenon
  <2>2. IsFiniteSet({1} \cup {2}) /\ Cardinality({1} \cup {2}) = 2
    BY <2>1, FS_AddElement
  <2>3. IsFiniteSet({1} \cup {2} \cup {3}) /\ Cardinality({1} \cup {2} \cup {3}) = 3
    BY <2>2, FS_AddElement
  <2>4. Tiers = {1} \cup {2} \cup {3}
    BY DEF Tiers
  <2> QED BY <2>3, <2>4
<1>2. IsFiniteSet(S) /\ Cardinality(S) \in Nat /\ Cardinality(S) <= 3
  BY <1>1, FS_Subset, FS_CardinalityType
<1> QED BY <1>2, FS_RemoveElement

\* What a step of its handler does to a call: it tries the next tier, or goes on to
\* the next or to its end without one.
LEMMA HandleDescends ==
  ASSUME IInv, NEW k \in Calls, Handle(k), phase[k] # "none" PROVE Left(k)' < Left(k)
<1>1. /\ phase \in [Calls -> Phases] /\ tried \in [Calls -> SUBSET Tiers]
      /\ Untried(k) \in SUBSET Tiers /\ Cardinality(Untried(k)) \in Nat
  BY TierCount DEF IInv, GatewayTypeOK, Untried, Route
<1>2. UNCHANGED request
  BY DEF Handle, CallProvider, ProviderMissing, ProviderFails, ProviderAnswers, Exhausted
<1>3. ASSUME NEW n \in Tiers, CallProvider(k, n) \/ ProviderMissing(k, n) PROVE Left(k)' < Left(k)
  <2>1. phase[k] = "choose" /\ n \in Untried(k) /\ tried'[k] = tried[k] \cup {n}
    BY <1>1, <1>3 DEF CallProvider, ProviderMissing, NextTier, Untried
  <2>2. Untried(k)' = Untried(k) \ {n}
    BY <1>2, <2>1 DEF Untried
  <2>3. Cardinality(Untried(k))' = Cardinality(Untried(k)) - 1
    BY <1>1, <2>1, <2>2, TierCount
  <2>4. phase'[k] \in {"choose", "await"}
    BY <1>1, <1>3 DEF CallProvider, ProviderMissing
  <2> QED BY <1>1, <2>1, <2>3, <2>4 DEF Left
<1>4. ASSUME UNCHANGED tried, phase[k] = "await", phase'[k] \in {"choose", "answered", "failed"}
      PROVE  Left(k)' < Left(k)
  BY <1>1, <1>2, <1>4 DEF Left, Untried
<1>5. ASSUME NEW tokens \in 0..MaxTokens,
             \/ ProviderFails(k, tokens)
             \/ \E v \in {"valid", "invalid", "unchecked"} : ProviderAnswers(k, v, tokens)
      PROVE  Left(k)' < Left(k)
  BY <1>1, <1>4, <1>5 DEF ProviderFails, ProviderAnswers
<1>6. CASE Exhausted(k)
  <2>1. phase[k] = "choose" /\ phase'[k] = "failed" /\ UNCHANGED tried
    BY <1>1, <1>6 DEF Exhausted
  <2> QED BY <1>1, <1>2, <2>1 DEF Left, Untried
<1> QED BY <1>3, <1>5, <1>6 DEF Handle

\* The steps left are a number, before and after any step.
LEMMA LeftType == ASSUME NEW k \in Calls PROVE Left(k) \in Nat /\ Left(k)' \in Nat
<1>1. Untried(k) \in SUBSET Tiers /\ Untried(k)' \in SUBSET Tiers
  BY DEF Untried, Route, Tiers
<1>2. Cardinality(Untried(k)) \in Nat /\ Cardinality(Untried(k))' \in Nat
  BY <1>1, TierCount
<1> QED BY <1>2 DEF Left

\* For every route, failure, escalation and interleaving: a call moves or is over, and
\* it moves at most seven times. That its handler is run is left to the runtime.
THEOREM CallsDescend == GatewaySpec => [][Descends]_gateway /\ []CanGoOn
<1>1. IInv /\ [GatewayNext]_gateway => [Descends]_gateway
  <2> SUFFICES ASSUME IInv, GatewayNext, NEW j \in Calls, phase[j] # "none"
               PROVE  Left(j)' <= Left(j) /\ (Handle(j) => Left(j)' < Left(j))
    BY DEF Descends
  <2>1. PICK k \in Calls : Handle(k) \/ \E q \in Request : Accept(k, q)
    BY DEF GatewayNext
  <2>2. Left(j)' = Left(j) \/ Left(j)' < Left(j)
    <3>1. CASE j # k
      BY <2>1, <3>1, StepOthers DEF IInv, Untouched, Left, Untried
    <3>2. CASE j = k
      BY <2>1, <3>2, HandleDescends DEF Accept
    <3> QED BY <3>1, <3>2
  <2> QED BY <2>2, LeftType, HandleDescends
<1>2. IInv => CanGoOn
  <2> SUFFICES ASSUME IInv, NEW k \in Calls
               PROVE  /\ Left(k) \in 0..7
                      /\ phase[k] = "choose" /\ Untried(k) # {} => \E n \in Tiers : NextTier(k, n)
    BY DEF CanGoOn, Untried
  <2>1. Untried(k) \in SUBSET Tiers /\ Cardinality(Untried(k)) \in 0..3
    BY TierCount DEF Untried, Route
  <2>2. phase[k] = "await" => Cardinality(Untried(k)) <= 2
    <3> SUFFICES ASSUME phase[k] = "await" PROVE Cardinality(Untried(k)) <= 2
      OBVIOUS
    <3>1. at[k] \in Tiers /\ at[k] \notin Untried(k)
      BY DEF IInv, CallInv, Routed, GatewayTypeOK, Untried
    <3>2. Cardinality(Untried(k) \cup {at[k]}) \in 0..3
      BY <2>1, <3>1, TierCount
    <3>3. (Untried(k) \cup {at[k]}) \ {at[k]} = Untried(k)
      BY <3>1
    <3>4. Cardinality(Untried(k)) = Cardinality(Untried(k) \cup {at[k]}) - 1
      BY <2>1, <3>1, <3>3, TierCount
    <3> QED BY <3>2, <3>4
  <2>3. Left(k) \in 0..7
    BY <2>1, <2>2 DEF Left
  <2>4. ASSUME Untried(k) # {} PROVE \E n \in Tiers : NextTier(k, n)
    BY <2>1, <2>4 DEF NextTier, Untried, Tiers
  <2> QED BY <2>3, <2>4
<1> QED BY <1>1, <1>2, Inductive, PTL DEF GatewaySpec

----------------------------------------------------------------------------
(* The commands, its clients.                                               *)

\* The body of an agent's call is a request.
LEMMA BodyType ==
  ASSUME options \in Options, NEW g \in Directories PROVE Body(g) \in Request
BY CallsAssumption DEF Options, Directory, Body, Request

\* Every step of a command or of a handler is the gateway's or leaves it alone.
LEMMA CallsStep ==
  ASSUME options \in Options, [CallsNext]_<<gateway, client>>
  PROVE  [GatewayNext]_gateway /\ options' = options /\ installed' = installed
<1>1. ASSUME NEW g \in Directories, Ask(g) PROVE GatewayNext
  <2>1. Body(g) \in Request
    BY BodyType
  <2> QED BY <1>1, <2>1 DEF Ask, GatewayNext
<1>2. ASSUME NEW k \in Calls, Handle(k) PROVE GatewayNext
  BY <1>2 DEF GatewayNext
<1>3. ASSUME (\E A \in SUBSET Directories : StartPass(A)) \/ Receive \/ PassFails \/ EndPass
      PROVE  UNCHANGED gateway
  BY <1>3 DEF StartPass, Receive, PassFails, EndPass
<1>4. options' = options /\ installed' = installed
  BY DEF CallsNext, StartPass, Ask, Receive, PassFails, EndPass, client
<1> QED BY <1>1, <1>2, <1>3, <1>4 DEF CallsNext

\* The commands use the gateway as it is specified: every theorem about it holds of
\* the calls they make.
THEOREM CallsUseGateway == CallsSpec => GatewaySpec
<1>1. CallsInit => GatewayInit /\ options \in Options
  BY DEF CallsInit
<1>2. options \in Options /\ [CallsNext]_<<gateway, client>> => (options \in Options)'
  BY CallsStep
<1>3. options \in Options /\ [CallsNext]_<<gateway, client>> => [GatewayNext]_gateway
  BY CallsStep
<1> QED BY <1>1, <1>2, <1>3, PTL DEF CallsSpec, GatewaySpec

\* So the calls of commands end as calls end: no command, and no other call, gives a
\* call a tier back it has tried, and a call can always go on.
THEOREM CommandCallsDescend == CallsSpec => [][Descends]_gateway /\ []CanGoOn
BY CallsUseGateway, CallsDescend, PTL

----------------------------------------------------------------------------
\* Whose call k is: an agent the registry has accepted.
Registered(k) == \E g \in Listed(installed) : WellDefined(g) /\ g.task = request[k].task

\* Calls that were made, in their order, are of registered agents; what is used is
\* the validated answer of one of them.
UsedInv ==
  /\ IInv /\ options \in Options
  /\ made \in Nat
  /\ \A k \in Calls : k > made => phase[k] = "none"
  /\ step = "waiting" => made \in Calls
  /\ step # "idle" => todo \subseteq Listed(installed) /\ \A g \in Listed(installed) : WellDefined(g)
  /\ \A k \in Calls : phase[k] # "none" => Registered(k)
  /\ \A k \in Calls : phase[k] = "answered" => answer[k].verdict \in Verdicts(request[k])
  /\ \A k \in used : k \in Calls /\ phase[k] = "answered" /\ answer[k].verdict = "valid"

\* A handler's step on call k leaves the calls that are over as they are.
LEMMA OverStays ==
  ASSUME GatewayTypeOK, NEW k \in Calls, NEW j \in Calls, Handle(k),
         phase[j] \in {"none", "answered"}
  PROVE  Untouched(j)
<1>1. k # j
  BY DEF Handle, CallProvider, ProviderMissing, ProviderAnswers, ProviderFails, Exhausted
<1> QED BY <1>1, StepOthers

\* A handler never changes what was asked, and answers with a verdict of its request.
LEMMA HandleStep ==
  ASSUME GatewayTypeOK, NEW k \in Calls, Handle(k)
  PROVE  /\ request' = request
         /\ phase[k] # "none"
         /\ phase'[k] = "answered" => answer'[k].verdict \in Verdicts(request[k])
<1>1. request' = request /\ phase[k] # "none"
  BY DEF Handle, CallProvider, ProviderMissing, ProviderAnswers, ProviderFails, Exhausted
<1>2. ASSUME NEW n \in Tiers, CallProvider(k, n) \/ ProviderMissing(k, n)
      PROVE  phase'[k] # "answered"
  BY <1>2 DEF CallProvider, ProviderMissing, GatewayTypeOK
<1>3. ASSUME NEW tokens \in 0..MaxTokens, ProviderFails(k, tokens)
      PROVE  phase'[k] # "answered"
  BY <1>3 DEF ProviderFails, GatewayTypeOK
<1>4. ASSUME NEW tokens \in 0..MaxTokens, NEW v \in {"valid", "invalid", "unchecked"},
             ProviderAnswers(k, v, tokens), phase'[k] = "answered"
      PROVE  answer'[k].verdict \in Verdicts(request[k])
  <2>1. v \in Verdicts(request[k])
    BY <1>4 DEF ProviderAnswers
  <2>2. answer'[k].verdict = v
    BY <1>4 DEF ProviderAnswers, GatewayTypeOK
  <2> QED BY <2>1, <2>2
<1>5. Exhausted(k) => phase'[k] # "answered"
  BY DEF Exhausted, GatewayTypeOK
<1> QED BY <1>1, <1>2, <1>3, <1>4, <1>5 DEF Handle

\* A step that leaves the gateway alone.
LEMMA ClientStep ==
  ASSUME UsedInv, UNCHANGED <<gateway, options, installed>>
  PROVE  /\ IInv' /\ (options \in Options)'
         /\ \A k \in Calls : Registered(k)' = Registered(k)
         /\ \A k \in Calls : phase'[k] = phase[k] /\ answer'[k] = answer[k]
         /\ \A k \in Calls : Verdicts(request[k])' = Verdicts(request[k])
<1>1. IInv'
  BY InvStep DEF UsedInv
<1> QED BY <1>1 DEF UsedInv, gateway, Registered, Verdicts

LEMMA AskUsed == ASSUME UsedInv, NEW g \in Directories, Ask(g) PROVE UsedInv'
<1> DEFINE k == made + 1
<1>1. /\ k \in Calls /\ made \in Nat /\ made' = k
      /\ Accept(k, Body(g)) /\ phase[k] = "none"
      /\ step' = "waiting" /\ todo' \subseteq todo
      /\ UNCHANGED <<installed, options, used>>
  BY DEF Ask, Accept, UsedInv
<1>2. Body(g) \in Request /\ Body(g).task = g.task
  BY BodyType DEF UsedInv, Body
<1>3. IInv'
  <2>1. GatewayNext
    BY <1>1, <1>2 DEF GatewayNext
  <2> QED BY <2>1, InvStep DEF UsedInv
<1>4. /\ request' = [request EXCEPT ![k] = Body(g)]
      /\ \A j \in Calls : j # k => phase'[j] = phase[j]
      /\ phase'[k] # "answered" /\ answer' = answer
  <2> HIDE DEF k
  <2> QED BY <1>1 DEF Accept, UsedInv, IInv, GatewayTypeOK
<1>5. \A j \in Calls : j > made' => phase'[j] = "none"
  <2>1. ASSUME NEW j \in Calls, j > made' PROVE phase'[j] = "none"
    <3>1. j > made /\ j # k
      BY <1>1, <2>1, CallsAssumption
    <3> QED BY <1>4, <3>1 DEF UsedInv
  <2> QED BY <2>1
<1>6. g \in Listed(installed) /\ WellDefined(g)
  BY DEF Ask, UsedInv
<1> HIDE DEF k
<1>7. /\ request'[k] = Body(g)
      /\ \A j \in Calls : j # k => request'[j] = request[j]
  BY <1>1, <1>4 DEF UsedInv, IInv, GatewayTypeOK
<1>8. \A j \in Calls : phase'[j] # "none" => Registered(j)'
  BY <1>1, <1>2, <1>4, <1>6, <1>7 DEF UsedInv, Registered
<1>9. \A j \in Calls : phase'[j] = "answered" => answer'[j].verdict \in Verdicts(request'[j])
  BY <1>4, <1>7 DEF UsedInv
<1>10. \A j \in used' : j \in Calls /\ phase'[j] = "answered" /\ answer'[j].verdict = "valid"
  BY <1>1, <1>4 DEF UsedInv
<1>11. todo' \subseteq Listed(installed)' /\ \A d \in Listed(installed)' : WellDefined(d)
  <2>1. step # "idle"
    BY DEF Ask
  <2> QED BY <1>1, <2>1 DEF UsedInv, Listed
<1>12. made' \in Nat /\ made' \in Calls /\ (options \in Options)'
  BY <1>1 DEF UsedInv, k
<1> QED BY <1>3, <1>5, <1>8, <1>9, <1>10, <1>11, <1>12 DEF UsedInv, Verdicts

LEMMA ReceiveUsed == ASSUME UsedInv, Receive PROVE UsedInv'
<1>1. UNCHANGED <<gateway, installed, options, todo, made>> /\ step = "waiting" /\ step' = "calling"
  BY DEF Receive
<1>2. used' \subseteq used \cup {made} /\ (made \in used' => made \in used \/ answer[made].verdict = "valid")
  BY DEF Receive
<1>3. made \in Calls /\ phase[made] = "answered"
  BY DEF Receive, UsedInv
<1>4. \A k \in used' : k \in Calls /\ phase[k] = "answered" /\ answer[k].verdict = "valid"
  BY <1>2, <1>3 DEF UsedInv
<1> QED BY <1>1, <1>4, ClientStep DEF UsedInv, Listed

LEMMA PassUsed ==
  ASSUME UsedInv, (\E A \in SUBSET Directories : StartPass(A)) \/ PassFails \/ EndPass
  PROVE  UsedInv'
<1>1. UNCHANGED <<gateway, installed, options, made, used>>
  BY DEF StartPass, PassFails, EndPass
<1>2. /\ step' # "waiting"
      /\ step' # "idle" => /\ todo' \subseteq Listed(installed)
                           /\ \A g \in Listed(installed) : WellDefined(g)
  BY DEF StartPass, PassFails, EndPass, Loads
<1> QED BY <1>1, <1>2, ClientStep DEF UsedInv, Listed

LEMMA HandleUsed ==
  ASSUME UsedInv, NEW k \in Calls, Handle(k), UNCHANGED client PROVE UsedInv'
<1>1. IInv'
  <2>1. GatewayNext
    BY DEF GatewayNext
  <2> QED BY <2>1, InvStep DEF UsedInv
<1>2. /\ request' = request /\ phase[k] # "none"
      /\ phase'[k] = "answered" => answer'[k].verdict \in Verdicts(request[k])
  BY HandleStep DEF UsedInv, IInv
<1>3. \A j \in Calls : j # k => phase'[j] = phase[j] /\ answer'[j] = answer[j]
  BY StepOthers DEF UsedInv, IInv, Untouched
<1>4. \A j \in Calls : phase[j] \in {"none", "answered"} =>
         phase'[j] = phase[j] /\ answer'[j] = answer[j]
  BY OverStays DEF UsedInv, IInv, Untouched
<1>5. UNCHANGED <<installed, options, step, todo, made, used>>
  BY DEF client
<1>6. \A j \in Calls : j > made' => phase'[j] = "none"
  BY <1>4, <1>5 DEF UsedInv
<1>7. \A j \in Calls : phase'[j] # "none" => Registered(j)'
  <2>1. \A j \in Calls : phase'[j] # "none" => phase[j] # "none"
    BY <1>4
  <2> QED BY <1>2, <1>5, <2>1 DEF UsedInv, Registered
<1>8. \A j \in Calls : phase'[j] = "answered" => answer'[j].verdict \in Verdicts(request[j])
  BY <1>2, <1>3 DEF UsedInv
<1>9. \A j \in used' : j \in Calls /\ phase'[j] = "answered" /\ answer'[j].verdict = "valid"
  BY <1>4, <1>5 DEF UsedInv
<1> QED BY <1>1, <1>2, <1>5, <1>6, <1>7, <1>8, <1>9 DEF UsedInv, Listed, Verdicts

\* Every step keeps the invariant.
LEMMA UsedStep == ASSUME UsedInv, [CallsNext]_<<gateway, client>> PROVE UsedInv'
<1>1. CASE UNCHANGED <<gateway, client>>
  BY <1>1, ClientStep DEF UsedInv, client, Listed
<1> QED BY <1>1, AskUsed, ReceiveUsed, PassUsed, HandleUsed DEF CallsNext

LEMMA UsedInit == CallsInit => UsedInv
<1> SUFFICES ASSUME CallsInit PROVE UsedInv
  OBVIOUS
<1>1. IInv
  BY InvInit DEF CallsInit
<1> QED BY <1>1 DEF CallsInit, GatewayInit, UsedInv

\* Whatever fails, escalates or answers too late, only content that was validated
\* against the schema of a registered agent is used.
THEOREM UsedIsValidated == CallsSpec => []UsedContentIsValidated
<1>1. UsedInv => UsedContentIsValidated
  <2> SUFFICES ASSUME UsedInv, NEW k \in used
               PROVE  /\ phase[k] = "answered" /\ answer[k].verdict = "valid"
                      /\ request[k].schema
                      /\ \E g \in Listed(installed) : WellDefined(g) /\ g.task = request[k].task
    BY DEF UsedContentIsValidated
  <2>1. k \in Calls /\ phase[k] = "answered" /\ answer[k].verdict = "valid"
    BY DEF UsedInv
  <2>2. "valid" \in Verdicts(request[k])
    BY <2>1 DEF UsedInv
  <2>3. request[k].schema
    BY <2>2, Zenon DEF Verdicts
  <2>4. Registered(k)
    BY <2>1 DEF UsedInv
  <2> QED BY <2>1, <2>3, <2>4 DEF Registered
<1>2. CallsSpec => []UsedInv
  BY UsedInit, UsedStep, PTL DEF CallsSpec
<1> QED BY <1>1, <1>2, PTL

----------------------------------------------------------------------------
(* Who is served depends on the configuration.                              *)

\* A call carries the options of its command; it is refused when its types refuse it.
Asked(k) ==
  /\ phase[k] # "none" => /\ request[k].budget = options.budget
                          /\ request[k].privacy = options.privacy
  /\ phase[k] = "rejected" => ~WellFormed(request[k])

AskedInv == options \in Options /\ GatewayTypeOK /\ \A k \in Calls : Asked(k)

LEMMA AskedStep ==
  ASSUME AskedInv, GatewayTypeOK', [CallsNext]_<<gateway, client>> PROVE AskedInv'
<1>1. options' = options
  BY CallsStep DEF AskedInv
<1>2. ASSUME NEW g \in Directories, Ask(g), NEW k \in Calls PROVE Asked(k)'
  <2>1. Accept(made + 1, Body(g)) /\ made + 1 \in Calls
    BY <1>2 DEF Ask
  <2>2. CASE k = made + 1
    <3>1. /\ request'[k] = Body(g)
          /\ phase'[k] = "rejected" => ~WellFormed(Body(g))
      BY <2>1, <2>2 DEF Accept, AskedInv, GatewayTypeOK
    <3> QED BY <1>1, <3>1 DEF Asked, Body, WellFormed
  <2>3. CASE k # made + 1
    <3>1. request'[k] = request[k] /\ phase'[k] = phase[k]
      BY <2>1, <2>3 DEF Accept, AskedInv, GatewayTypeOK
    <3> QED BY <1>1, <3>1 DEF Asked, AskedInv, WellFormed
  <2> QED BY <2>2, <2>3
<1>3. ASSUME NEW j \in Calls, Handle(j), NEW k \in Calls PROVE Asked(k)'
  <2>1. request' = request /\ phase[j] # "none"
    BY <1>3, HandleStep DEF AskedInv
  <2>2. phase'[k] = "rejected" => phase[k] = "rejected"
    BY <1>3 DEF Handle, CallProvider, ProviderMissing, ProviderAnswers, ProviderFails,
                Exhausted, AskedInv, GatewayTypeOK
  <2>3. phase'[k] # "none" => phase[k] # "none"
    BY <1>3, <2>1, StepOthers DEF AskedInv, Untouched
  <2> QED BY <1>1, <2>1, <2>2, <2>3 DEF Asked, AskedInv, WellFormed
<1>4. ASSUME UNCHANGED gateway, NEW k \in Calls PROVE Asked(k)'
  BY <1>1, <1>4 DEF gateway, Asked, AskedInv, WellFormed
<1>5. ASSUME (\E A \in SUBSET Directories : StartPass(A)) \/ Receive \/ PassFails \/ EndPass
      PROVE  UNCHANGED gateway
  BY <1>5 DEF StartPass, Receive, PassFails, EndPass
<1>6. \A k \in Calls : Asked(k)'
  BY <1>2, <1>3, <1>4, <1>5 DEF CallsNext
<1> QED BY <1>1, <1>6 DEF AskedInv

\* Where the registry's task kinds are the gateway's and the routing table has a target
\* for each of them under every budget and privacy, a registered agent's call is
\* refused for its command's options only, and fails only after a tier was tried.
THEOREM AgentsServed ==
  ASSUME ValidTaskKinds \subseteq Tasks,
         \A q \in Request : WellFormed(q) /\ q.task \in ValidTaskKinds => Route(q) # {}
  PROVE  CallsSpec => []RegisteredAgentsAreServed
<1>1. CallsInit => AskedInv
  <2> SUFFICES ASSUME CallsInit PROVE AskedInv
    OBVIOUS
  <2>1. GatewayTypeOK
    BY InvInit DEF CallsInit, IInv
  <2> QED BY <2>1 DEF CallsInit, GatewayInit, AskedInv, Asked
<1>2. CallsSpec => []UsedInv
  BY UsedInit, UsedStep, PTL DEF CallsSpec
<1>3. UsedInv => GatewayTypeOK
  BY DEF UsedInv, IInv
<1>4. UsedInv /\ AskedInv => RegisteredAgentsAreServed
  <2> SUFFICES ASSUME UsedInv, AskedInv, NEW k \in Calls, phase[k] # "none"
               PROVE  /\ phase[k] = "rejected" => Unrecognised \in {options.budget, options.privacy}
                      /\ phase[k] = "failed" => tried[k] # {}
    BY DEF RegisteredAgentsAreServed
  <2>1. request[k] \in Request
    BY DEF AskedInv, GatewayTypeOK
  <2>2. request[k].task \in ValidTaskKinds
    BY DEF UsedInv, Registered, WellDefined
  <2>3. ASSUME phase[k] = "rejected" PROVE Unrecognised \in {options.budget, options.privacy}
    BY <2>1, <2>2, <2>3 DEF AskedInv, Asked, Options, WellFormed, Request
  <2>4. ASSUME phase[k] = "failed" PROVE tried[k] # {}
    <3>1. WellFormed(request[k]) /\ tried[k] = Route(request[k])
      BY <2>4 DEF UsedInv, IInv, CallInv, Routed, Served, Concluded
    <3> QED BY <2>1, <2>2, <3>1
  <2> QED BY <2>3, <2>4
<1>5. AskedInv /\ GatewayTypeOK' /\ [CallsNext]_<<gateway, client>> => AskedInv'
  BY AskedStep
<1> QED BY <1>1, <1>2, <1>3, <1>4, <1>5, PTL DEF CallsSpec
=============================================================================
