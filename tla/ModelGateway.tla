---------------------------- MODULE ModelGateway ----------------------------
(***************************************************************************)
(* The model gateway (services/model-gateway): POST /v1/complete. A call   *)
(* is validated, routed to at most three tiers by its task kind, budget    *)
(* and privacy, and its tiers are tried in order until one answers; an     *)
(* answer that fails the caller's schema may escalate to the next tier.    *)
(* Handlers are coroutines, so calls interleave wherever one awaits its    *)
(* provider, and a call runs to its end whether its client waits or not.   *)
(***************************************************************************)
EXTENDS Naturals, FiniteSets

CONSTANTS Tasks,         \* TaskKind
          Budgets,       \* BudgetTier
          Unrecognised,  \* an option's value that is not in its Literal
          Targets,       \* (provider, model) pairs
          NoTarget,      \* a tier the routing table leaves out
          ProviderOf,    \* the provider of a target
          Local,         \* the provider that runs on the premises
          Denied,        \* privacy_overrides.sensitive.deny_providers
          Table,         \* defaults: the target of each task, budget and tier
          AirGapped,     \* privacy_overrides.air_gapped: the target of each task
          Price,         \* pricing.yaml: cost of a token, 0 for a missing entry
          Escalate,      \* fallback.escalate_on_schema_failure
          Calls,         \* calls that can be made
          NoRequest,     \* the body of a call that has not been made
          MaxTokens      \* bound: tokens one attempt is billed for

Tiers   == 1..3
Privacy == {"standard", "sensitive", "air_gapped"}

\* What routing.yaml and pricing.yaml provide: each task and budget has a primary
\* target, and what serves air-gapped calls is local.
ASSUME GatewayAssumption ==
  /\ NoTarget \notin Targets
  /\ Table \in [Tasks -> [Budgets -> [Tiers -> Targets \cup {NoTarget}]]]
  /\ AirGapped \in [Tasks -> Targets \cup {NoTarget}]
  /\ \A t \in Tasks : AirGapped[t] # NoTarget => ProviderOf[AirGapped[t]] = Local
  /\ Unrecognised \notin Tasks \cup Budgets \cup Privacy
  /\ Price \in [Targets -> Nat] /\ Escalate \in BOOLEAN /\ MaxTokens \in Nat

VARIABLES
  phase,    \* where each call's handler is, or how the call ended
  request,  \* the call's body
  at,       \* the tier being awaited, 0 for none
  tried,    \* the tiers tried so far
  reached,  \* the providers the call's messages have been sent to
  billed,   \* what the providers have charged for the call so far
  answer    \* the body of its answer

gateway == <<phase, request, at, tried, reached, billed, answer>>

Phases == {"none", "choose", "await", "answered", "failed", "rejected"}
Ended  == {"answered", "failed", "rejected"}

\* A call with a schema wants an answer that validates against it. Options are
\* strings the caller chose.
Request == [task : Tasks \cup {Unrecognised}, budget : Budgets \cup {Unrecognised},
            privacy : Privacy \cup {Unrecognised}, schema : BOOLEAN]

\* schema_valid is True, False, or None for a call without a schema.
Answer == [tier : Tiers \cup {0}, verdict : {"valid", "invalid", "unchecked"}, cost : Nat]
NoAnswer == [tier |-> 0, verdict |-> "unchecked", cost |-> 0]

GatewayTypeOK ==
  /\ phase \in [Calls -> Phases]
  /\ request \in [Calls -> Request \cup {NoRequest}]
  /\ at \in [Calls -> Tiers \cup {0}]
  /\ tried \in [Calls -> SUBSET Tiers]
  /\ reached \in [Calls -> SUBSET {ProviderOf[t] : t \in Targets}]
  /\ billed \in [Calls -> Nat]
  /\ answer \in [Calls -> Answer]
  /\ \A k \in Calls : phase[k] # "none" => request[k] \in Request
  /\ \A k \in Calls : phase[k] = "await" => at[k] \in tried[k]

GatewayInit ==
  /\ phase = [k \in Calls |-> "none"]
  /\ request = [k \in Calls |-> NoRequest]
  /\ at = [k \in Calls |-> 0]
  /\ tried = [k \in Calls |-> {}]
  /\ reached = [k \in Calls |-> {}]
  /\ billed = [k \in Calls |-> 0]
  /\ answer = [k \in Calls |-> NoAnswer]

----------------------------------------------------------------------------
(* Routing.                                                                 *)

\* What the types of CompleteRequest accept.
WellFormed(q) == q.task \in Tasks /\ q.budget \in Budgets /\ q.privacy \in Privacy

\* The slots of the request's route. An air-gapped one has a primary only, and
\* privacy wins over budget.
Slots(q) == IF q.privacy = "air_gapped"
            THEN [n \in Tiers |-> IF n = 1 THEN AirGapped[q.task] ELSE NoTarget]
            ELSE Table[q.task][q.budget]

\* Mutant: providers are denied to the primary slot only.
RoutePrimary(q) ==
  {n \in Tiers : /\ Slots(q)[n] # NoTarget
                 /\ (q.privacy = "sensitive" /\ n = 1) => ProviderOf[Slots(q)[n]] \notin Denied}

\* resolve: the tiers to try. A sensitive request drops those of denied providers,
\* and the tiers after them move up. Nothing left is a RoutingError.
Route(q) ==
  {n \in Tiers : /\ Slots(q)[n] # NoTarget
                 /\ q.privacy = "sensitive" => ProviderOf[Slots(q)[n]] \notin Denied}

\* The next tier to try is the first one not tried.
NextTier(k, n) ==
  LET rest == Route(request[k]) \ tried[k] IN n \in rest /\ \A m \in rest : n <= m

----------------------------------------------------------------------------
(* The handler of call k.                                                   *)

\* The call arrives: a body its types refuse is answered 422, one without a route
\* 502, and any other starts with its first tier.
Accept(k, q) ==
  /\ phase[k] = "none"
  /\ request' = [request EXCEPT ![k] = q]
  /\ phase' = [phase EXCEPT ![k] = IF ~WellFormed(q) THEN "rejected"
                                   ELSE IF Route(q) = {} THEN "failed" ELSE "choose"]
  /\ UNCHANGED <<at, tried, reached, billed, answer>>

\* Mutant: the tier is not recorded as tried.
CallUnrecorded(k, n) ==
  /\ phase[k] = "choose" /\ NextTier(k, n)
  /\ reached' = [reached EXCEPT ![k] = @ \cup {ProviderOf[Slots(request[k])[n]]}]
  /\ at' = [at EXCEPT ![k] = n]
  /\ phase' = [phase EXCEPT ![k] = "await"]
  /\ UNCHANGED <<request, tried, billed, answer>>

\* The messages are sent to the next tier's provider, and its answer is awaited.
CallProvider(k, n) ==
  /\ phase[k] = "choose" /\ NextTier(k, n)
  /\ tried' = [tried EXCEPT ![k] = @ \cup {n}]
  /\ reached' = [reached EXCEPT ![k] = @ \cup {ProviderOf[Slots(request[k])[n]]}]
  /\ at' = [at EXCEPT ![k] = n]
  /\ phase' = [phase EXCEPT ![k] = "await"]
  /\ UNCHANGED <<request, billed, answer>>

\* The provider's SDK or key is missing: nothing is sent, and the next tier is next.
ProviderMissing(k, n) ==
  /\ phase[k] = "choose" /\ NextTier(k, n)
  /\ tried' = [tried EXCEPT ![k] = @ \cup {n}]
  /\ UNCHANGED <<phase, request, at, reached, billed, answer>>

Cost(k, tokens) == tokens * Price[Slots(request[k])[at[k]]]
Bill(k, tokens) == billed' = [billed EXCEPT ![k] = @ + Cost(k, tokens)]

\* Whether a text holds JSON that validates against the schema, if there is one.
Verdicts(q) == IF q.schema THEN {"valid", "invalid"} ELSE {"unchecked"}

\* Mutant: an answer is priced as the primary target's.
ProviderAnswersPrimary(k, v, tokens) ==
  /\ phase[k] = "await" /\ v \in Verdicts(request[k])
  /\ Bill(k, tokens)
  /\ at' = [at EXCEPT ![k] = 0]
  /\ IF v = "invalid" /\ Escalate
     THEN phase' = [phase EXCEPT ![k] = "choose"] /\ UNCHANGED answer
     ELSE /\ phase' = [phase EXCEPT ![k] = "answered"]
          /\ answer' = [answer EXCEPT ![k] =
               [tier |-> at[k], verdict |-> v, cost |-> tokens * Price[Slots(request[k])[1]]]]
  /\ UNCHANGED <<request, tried, reached>>

\* Mutant: an answer that fails the schema is returned all the same.
ProviderAnswersAnyhow(k, v, tokens) ==
  /\ phase[k] = "await" /\ v \in Verdicts(request[k])
  /\ Bill(k, tokens)
  /\ at' = [at EXCEPT ![k] = 0]
  /\ phase' = [phase EXCEPT ![k] = "answered"]
  /\ answer' = [answer EXCEPT ![k] =
       [tier |-> at[k], verdict |-> v, cost |-> Cost(k, tokens)]]
  /\ UNCHANGED <<request, tried, reached>>

\* The provider answers. An answer that fails the schema escalates, and what it
\* cost is forgotten; any other ends the call with the cost of this attempt.
ProviderAnswers(k, v, tokens) ==
  /\ phase[k] = "await" /\ v \in Verdicts(request[k])
  /\ Bill(k, tokens)
  /\ at' = [at EXCEPT ![k] = 0]
  /\ IF v = "invalid" /\ Escalate
     THEN phase' = [phase EXCEPT ![k] = "choose"] /\ UNCHANGED answer
     ELSE /\ phase' = [phase EXCEPT ![k] = "answered"]
          /\ answer' = [answer EXCEPT ![k] =
               [tier |-> at[k], verdict |-> v, cost |-> Cost(k, tokens)]]
  /\ UNCHANGED <<request, tried, reached>>

\* Mutant: an error of the provider ends the call.
ProviderFailsCall(k, tokens) ==
  /\ phase[k] = "await"
  /\ Bill(k, tokens)
  /\ at' = [at EXCEPT ![k] = 0]
  /\ phase' = [phase EXCEPT ![k] = "failed"]
  /\ UNCHANGED <<request, tried, reached, answer>>

\* The provider raises, whatever the cause and whatever it has charged: the next
\* tier is next.
ProviderFails(k, tokens) ==
  /\ phase[k] = "await"
  /\ Bill(k, tokens)
  /\ at' = [at EXCEPT ![k] = 0]
  /\ phase' = [phase EXCEPT ![k] = "choose"]
  /\ UNCHANGED <<request, tried, reached, answer>>

\* Mutant: nothing follows the last tier.
NeverExhausted(k) == FALSE

\* All tiers are exhausted: 502.
Exhausted(k) ==
  /\ phase[k] = "choose" /\ Route(request[k]) \subseteq tried[k]
  /\ phase' = [phase EXCEPT ![k] = "failed"]
  /\ UNCHANGED <<request, at, tried, reached, billed, answer>>

Handle(k) ==
  \/ \E n \in Tiers : CallProvider(k, n) \/ ProviderMissing(k, n)
  \/ \E tokens \in 0..MaxTokens :
       \/ ProviderFails(k, tokens)
       \/ \E v \in {"valid", "invalid", "unchecked"} : ProviderAnswers(k, v, tokens)
  \/ Exhausted(k)

GatewayNext == \E k \in Calls : Handle(k) \/ \E q \in Request : Accept(k, q)

GatewaySpec == GatewayInit /\ [][GatewayNext]_gateway

----------------------------------------------------------------------------
\* Privacy holds along the whole chain of fallbacks: whatever failed before, the
\* messages of an air-gapped call have reached the local provider only, those of
\* a sensitive call no denied one, and those of a refused call nobody.
PrivacyHonoured ==
  \A k \in Calls : \A p \in reached[k] :
     /\ request[k].privacy \in Privacy
     /\ request[k].privacy = "air_gapped" => p = Local
     /\ request[k].privacy = "sensitive" => p \notin Denied

\* The answer of a call comes from the first tier of its route that gave one: all
\* tiers before it were tried, none after it, and with escalation on no call with
\* a schema is answered by content that fails it.
FirstTierAnswers ==
  \A k \in Calls : phase[k] = "answered" =>
     /\ tried[k] = {n \in Route(request[k]) : n <= answer[k].tier}
     /\ answer[k].tier \in tried[k]
     /\ Escalate => answer[k].verdict # "invalid"

\* A call is given up only after every tier of its route has been tried, and it has
\* not been charged for what nobody was asked.
FailsExhausted ==
  \A k \in Calls : phase[k] = "failed" =>
     /\ tried[k] = Route(request[k])
     /\ reached[k] = {} => billed[k] = 0

\* The cost an answer reports is never more than what the call was charged, though
\* it may be less; it is all of it when the first tier tried answered.
CostIsLowerBound ==
  \A k \in Calls : phase[k] = "answered" =>
     /\ answer[k].cost <= billed[k]
     /\ Cardinality(tried[k]) = 1 => answer[k].cost = billed[k]
=============================================================================
