---------------------- MODULE NormalizerWorker_proofs ----------------------
(***************************************************************************)
(* Proofs about the normalizer worker for every set of workers, items,     *)
(* runs and assets, every batch limit and concurrency, and any number of   *)
(* failures.                                                               *)
(***************************************************************************)
EXTENDS NormalizerWorker, FiniteSetTheorems, TLAPS

\* A failure is only ever counted up to its bound.
LEMMA FaultCount ==
  ASSUME faults \in 0..MaxFaults, Fault
  PROVE  faults' \in 0..MaxFaults
BY NormalizerAssumption DEF Fault

\* A drain begins by queueing a batch or by failing, and touches no other worker.
LEMMA FetchStages ==
  ASSUME stage \in [Workers -> [Items -> Stages]],
         NEW w, NEW R, Fetch(w, R)
  PROVE  stage' \in [Workers -> [Items -> Stages]]
<1>1. CASE Fault /\ UNCHANGED stage
  BY <1>1
<1>2. ASSUME NEW B \in Batches(R), stage' = [stage EXCEPT ![w] =
               [i \in Items |-> IF i \in B THEN "queued" ELSE "none"]]
      PROVE  stage' \in [Workers -> [Items -> Stages]]
  <2> DEFINE q == [i \in Items |-> IF i \in B THEN "queued" ELSE "none"]
  <2>1. q \in [Items -> Stages]
    BY DEF Stages
  <2> HIDE DEF q
  <2>2. stage' = [stage EXCEPT ![w] = q]
    BY <1>2 DEF q
  <2> QED BY <2>1, <2>2
<1> QED BY <1>1, <1>2 DEF Fetch

\* A drain that fails to begin counts one failure.
LEMMA FetchFaults ==
  ASSUME faults \in 0..MaxFaults, NEW w, NEW R, Fetch(w, R)
  PROVE  faults' \in 0..MaxFaults
BY FaultCount DEF Fetch

\* Every step keeps the types.
LEMMA TypeStep == ASSUME TypeOK, [Next]_vars PROVE TypeOK'
<1> USE SchemaAssumption, NormalizerAssumption DEF RunColumn, AssetColumn
<1> USE DEF TypeOK, Modes, evidence, results, process, SetStage
<1>1. CASE Ingest
  BY <1>1 DEF Ingest, EvidenceCommitted, Notify
<1>2. ASSUME NEW w \in Workers, Work(w) PROVE TypeOK'
  <2>1. CASE Start(w)
    BY FetchStages, FetchFaults, <2>1 DEF Start
  <2>2. CASE Listen(w)
    BY FaultCount, <2>2 DEF Listen
  <2>3. CASE DrainEnds(w)
    BY <2>3 DEF DrainEnds
  <2>4. CASE Reconnect(w)
    BY <2>4 DEF Reconnect
  <2>5. CASE Receive(w)
    BY <2>5 DEF Receive
  <2>6. ASSUME NEW i \in Items, ItemStep(w, i) PROVE TypeOK'
    <3>1. CASE Parse(w, i)
      BY <3>1 DEF Parse, Stages
    <3>2. CASE UpsertAsset(w, i)
      <4>1. assetRun' \in [Assets -> Runs \cup {NoRun}]
        BY <3>2 DEF UpsertAsset
      <4>2. stage' \in [Workers -> [Items -> Stages]]
        BY <3>2 DEF UpsertAsset, Stages
      <4> QED BY <3>2, <4>1, <4>2 DEF UpsertAsset
    <3>3. CASE WriteParsed(w, i)
      <4>1. parsed' \in [Items -> BOOLEAN]
        BY <3>3 DEF WriteParsed
      <4>2. assetOf' \in [Items -> Assets \cup {NoAsset}]
        <5>1. AssetFor[i] \in Assets \cup {NoAsset}
          OBVIOUS
        <5> QED BY <3>3, <5>1 DEF WriteParsed
      <4>3. stage' \in [Workers -> [Items -> Stages]]
        BY <3>3 DEF WriteParsed, Stages
      <4> QED BY <3>3, <4>1, <4>2, <4>3 DEF WriteParsed
    <3>4. CASE Audit(w, i)
      BY <3>4 DEF Audit, Stages
    <3> QED BY <2>6, <3>1, <3>2, <3>3, <3>4 DEF ItemStep
  <2>7. ASSUME NEW r \in Runs, OnNotify(w, r) PROVE TypeOK'
    BY FetchStages, FetchFaults, <2>7 DEF OnNotify
  <2> QED BY <1>2, <2>1, <2>2, <2>3, <2>4, <2>5, <2>6, <2>7 DEF Work
<1>3. ASSUME NEW w \in Workers, OnTick(w) PROVE TypeOK'
  BY FetchStages, FetchFaults, <1>3 DEF OnTick
<1>4. ASSUME NEW w \in Workers, Disturb(w) PROVE TypeOK'
  <2>1. faults' \in 0..MaxFaults
    BY FaultCount, <1>4 DEF Disturb, Crash, ConnectionLost, ItemFails
  <2>2. CASE Crash(w)
    <3>1. [i \in Items |-> "none"] \in [Items -> Stages]
      BY DEF Stages
    <3> QED BY <2>1, <2>2, <3>1 DEF Crash
  <2>3. CASE ConnectionLost(w)
    BY <2>1, <2>3 DEF ConnectionLost
  <2>4. ASSUME NEW i \in Items, ItemFails(w, i) PROVE TypeOK'
    BY <2>1, <2>4 DEF ItemFails, Stages
  <2> QED BY <1>4, <2>2, <2>3, <2>4 DEF Disturb
<1>5. CASE UNCHANGED vars
  BY <1>5 DEF vars
<1> QED BY <1>1, <1>2, <1>3, <1>4, <1>5 DEF Next

\* The types hold of the empty database and the stopped workers.
LEMMA TypeInit == Init => TypeOK
BY SchemaAssumption, NormalizerAssumption
   DEF Init, TypeOK, Modes, Stages, RunColumn, AssetColumn

\* Type correctness: rows, worker states and the progress of a drain keep their
\* shapes whatever fails.
THEOREM TypeCorrect == Spec => []TypeOK
BY TypeInit, TypeStep, PTL DEF Spec

----------------------------------------------------------------------------
\* What a worker's drain knows of an item it has fetched: the item is evidence
\* and this worker has not audited it before; when it is about to be written its
\* asset's row exists, and when it is about to be audited it has been written.
DrainKnows ==
  \A w \in Workers, i \in Items :
     /\ stage[w][i] # "none" => runOf[i] \in Runs /\ audits[w][i] = 0
     /\ stage[w][i] = "write" /\ AssetFor[i] # NoAsset => assetRun[AssetFor[i]] # NoRun
     /\ stage[w][i] = "audit" => parsed[i]

\* The inductive invariant.
IInv == TypeOK /\ DrainKnows /\ ParsedHasItsAsset /\ AssetRunHasEvidence /\ OnceEachWorker

\* A step that writes no row and at most drops items, queues pending ones or
\* moves fetched ones on to their upsert.
Quiet ==
  /\ UNCHANGED <<evidence, results>>
  /\ \A w \in Workers, i \in Items :
        \/ stage'[w][i] \in {stage[w][i], "none"}
        \/ /\ stage'[w][i] \in {"queued", "upsert"}
           /\ i \in Pending(Runs) \/ stage[w][i] # "none"

\* A quiet step keeps the invariant: an item it newly queues is pending, so no
\* worker has audited it.
LEMMA QuietStep == ASSUME IInv, Quiet, TypeOK' PROVE IInv'
<1> USE DEF IInv
<1>1. ParsedHasItsAsset' /\ AssetRunHasEvidence' /\ OnceEachWorker'
  BY DEF Quiet, evidence, results, ParsedHasItsAsset, AssetRunHasEvidence, OnceEachWorker
<1>2. DrainKnows'
  <2> SUFFICES ASSUME NEW w \in Workers, NEW i \in Items PROVE
        /\ stage'[w][i] # "none" => runOf[i] \in Runs /\ audits[w][i] = 0
        /\ stage'[w][i] = "write" /\ AssetFor[i] # NoAsset
             => assetRun[AssetFor[i]] # NoRun
        /\ stage'[w][i] = "audit" => parsed[i]
    BY DEF Quiet, evidence, results, DrainKnows
  <2>1. CASE stage'[w][i] \in {stage[w][i], "none"}
    BY <2>1 DEF DrainKnows
  <2>2. CASE /\ stage'[w][i] \in {"queued", "upsert"}
             /\ i \in Pending(Runs) \/ stage[w][i] # "none"
    <3>1. ASSUME i \in Pending(Runs) PROVE runOf[i] \in Runs /\ audits[w][i] = 0
      <4>1. runOf[i] \in Runs /\ ~parsed[i]
        BY <3>1 DEF Pending
      <4>2. audits[w][i] \in Nat /\ ~(audits[w][i] > 0)
        BY <4>1 DEF TypeOK, OnceEachWorker
      <4> QED BY <4>1, <4>2
    <3> QED BY <2>2, <3>1 DEF DrainKnows
  <2> QED BY <2>1, <2>2 DEF Quiet
<1> QED BY <1>1, <1>2

\* The beginning of a drain is quiet whatever runs it covers.
LEMMA FetchQuiet ==
  ASSUME TypeOK, NEW w \in Workers, NEW R \in SUBSET Runs, Fetch(w, R),
         UNCHANGED <<evidence, results>>
  PROVE  Quiet
<1>1. CASE UNCHANGED stage
  BY <1>1 DEF Quiet
<1>2. ASSUME NEW B \in Batches(R), stage' = [stage EXCEPT ![w] =
               [i \in Items |-> IF i \in B THEN "queued" ELSE "none"]]
      PROVE  Quiet
  <2>1. B \subseteq Pending(Runs)
    BY DEF Batches, Pending
  <2>2. ASSUME NEW v \in Workers, NEW i \in Items PROVE
          \/ stage'[v][i] \in {stage[v][i], "none"}
          \/ stage'[v][i] \in {"queued", "upsert"} /\ i \in Pending(Runs)
    BY <1>2, <2>1 DEF TypeOK
  <2> QED BY <2>2 DEF Quiet
<1> QED BY <1>1, <1>2 DEF Fetch

\* An item's step moves that item of that worker only.
LEMMA StageOfOthers ==
  ASSUME TypeOK, NEW w \in Workers, NEW i \in Items, NEW s, SetStage(w, i, s)
  PROVE  \A v \in Workers, j \in Items :
            stage'[v][j] = IF v = w /\ j = i THEN s ELSE stage[v][j]
BY DEF SetStage, TypeOK

\* Steps of a worker's process and of a drain that write no row are quiet.
LEMMA ProcessQuiet ==
  ASSUME TypeOK, NEW w \in Workers,
         \/ Start(w) \/ Listen(w) \/ DrainEnds(w) \/ Reconnect(w) \/ Receive(w)
         \/ OnTick(w) \/ Disturb(w)
         \/ \E r \in Runs : OnNotify(w, r)
         \/ \E i \in Items : Parse(w, i)
  PROVE  Quiet
<1>1. CASE Start(w) \/ OnTick(w)
  BY FetchQuiet, <1>1 DEF Start, OnTick, evidence, results
<1>2. ASSUME NEW r \in Runs, OnNotify(w, r) PROVE Quiet
  BY FetchQuiet, <1>2 DEF OnNotify, evidence, results
<1>3. CASE Listen(w) \/ DrainEnds(w) \/ Reconnect(w) \/ Receive(w) \/ ConnectionLost(w)
  <2>1. UNCHANGED <<evidence, results, stage>>
    BY <1>3 DEF Listen, DrainEnds, Reconnect, Receive, ConnectionLost, evidence, results
  <2> QED BY <2>1 DEF Quiet
<1>4. ASSUME NEW i \in Items, Parse(w, i) PROVE Quiet
  <2> DEFINE s == IF i \in NoParser \cup Unreadable THEN "none" ELSE "upsert"
  <2>1. SetStage(w, i, s) /\ UNCHANGED <<evidence, results>> /\ stage[w][i] = "queued"
    BY <1>4 DEF Parse
  <2>2. s \in {"none", "upsert"}
    OBVIOUS
  <2> HIDE DEF s
  <2>3. \A v \in Workers, j \in Items :
           stage'[v][j] = IF v = w /\ j = i THEN s ELSE stage[v][j]
    BY <2>1, StageOfOthers
  <2> QED BY <2>1, <2>2, <2>3 DEF Quiet
<1>5. ASSUME NEW i \in Items, ItemFails(w, i) PROVE Quiet
  <2>1. \A v \in Workers, j \in Items :
           stage'[v][j] = IF v = w /\ j = i THEN "none" ELSE stage[v][j]
    BY <1>5, StageOfOthers DEF ItemFails
  <2> QED BY <1>5, <2>1 DEF ItemFails, Quiet, evidence, results
<1>6. CASE Crash(w)
  BY <1>6 DEF Crash, Quiet, TypeOK, evidence, results
<1> QED BY <1>1, <1>2, <1>3, <1>4, <1>5, <1>6 DEF Disturb

\* An upload adds rows and changes none, so it keeps the invariant.
LEMMA IngestStep == ASSUME IInv, Ingest, TypeOK' PROVE IInv'
<1> USE DEF IInv
<1>1. PICK r \in Runs, S \in SUBSET Items, t \in 0..MaxStamp : EvidenceCommitted(r, S, t)
  BY DEF Ingest
<1>2. \A i \in Items : runOf[i] # NoRun => runOf'[i] = runOf[i]
  BY <1>1 DEF EvidenceCommitted, TypeOK, RunColumn
<1>3. UNCHANGED <<parsed, assetOf, assetRun, audits, stage>>
  BY <1>1 DEF EvidenceCommitted, results
<1>4. ParsedHasItsAsset' /\ OnceEachWorker'
  BY <1>3 DEF ParsedHasItsAsset, OnceEachWorker
<1>5. AssetRunHasEvidence'
  BY <1>2, <1>3 DEF AssetRunHasEvidence
<1>6. DrainKnows'
  <2>1. \A i \in Items : runOf[i] \in Runs => runOf'[i] \in Runs
    BY <1>2, SchemaAssumption
  <2> QED BY <1>3, <2>1 DEF DrainKnows
<1> QED BY <1>4, <1>5, <1>6

\* The upsert files the asset under the item's run, or leaves it where it is.
LEMMA UpsertStep ==
  ASSUME IInv, TypeOK', NEW w \in Workers, NEW i \in Items, UpsertAsset(w, i)
  PROVE  IInv'
<1> USE DEF IInv
<1>1. \A v \in Workers, j \in Items :
         stage'[v][j] = IF v = w /\ j = i THEN "write" ELSE stage[v][j]
  BY StageOfOthers DEF UpsertAsset
<1>2. \A a \in Assets : assetRun'[a] =
         IF a = AssetFor[i] /\ assetRun[a] = NoRun THEN runOf[i] ELSE assetRun[a]
  BY DEF UpsertAsset
<1>3. runOf[i] \in Runs /\ runOf[i] # NoRun
  BY SchemaAssumption DEF UpsertAsset, DrainKnows
<1>4. \A a \in Assets : assetRun[a] # NoRun => assetRun'[a] # NoRun
  BY <1>2
<1>5. AssetFor[i] # NoAsset => AssetFor[i] \in Assets /\ assetRun'[AssetFor[i]] # NoRun
  BY <1>2, <1>3, NormalizerAssumption DEF AssetColumn
<1>6. UNCHANGED <<runOf, parsed, assetOf, audits>>
  BY DEF UpsertAsset, evidence
<1>7. \A j \in Items : AssetFor[j] # NoAsset => AssetFor[j] \in Assets
  BY NormalizerAssumption DEF AssetColumn
<1>8. ParsedHasItsAsset'
  BY <1>4, <1>6, <1>7 DEF ParsedHasItsAsset
<1>9. OnceEachWorker'
  BY <1>6 DEF OnceEachWorker
<1>10. AssetRunHasEvidence'
  <2> SUFFICES ASSUME NEW a \in Assets, assetRun'[a] # NoRun
               PROVE  \E j \in Items : AssetFor[j] = a /\ runOf[j] = assetRun'[a]
    BY <1>6 DEF AssetRunHasEvidence
  <2>1. CASE a = AssetFor[i] /\ assetRun[a] = NoRun
    BY <1>2, <2>1
  <2>2. CASE ~(a = AssetFor[i] /\ assetRun[a] = NoRun)
    BY <1>2, <2>2 DEF AssetRunHasEvidence
  <2> QED BY <2>1, <2>2
<1>11. DrainKnows'
  <2> SUFFICES ASSUME NEW v \in Workers, NEW j \in Items PROVE
        /\ stage'[v][j] # "none" => runOf[j] \in Runs /\ audits[v][j] = 0
        /\ stage'[v][j] = "write" /\ AssetFor[j] # NoAsset => assetRun'[AssetFor[j]] # NoRun
        /\ stage'[v][j] = "audit" => parsed[j]
    BY <1>6 DEF DrainKnows
  <2>1. CASE v = w /\ j = i
    BY <1>1, <1>5, <2>1 DEF UpsertAsset, DrainKnows
  <2>2. CASE ~(v = w /\ j = i)
    BY <1>1, <1>4, <1>7, <2>2 DEF DrainKnows
  <2> QED BY <2>1, <2>2
<1> QED BY <1>8, <1>9, <1>10, <1>11

\* The write takes an item whose asset exists to parsed with that asset.
LEMMA WriteStep ==
  ASSUME IInv, TypeOK', NEW w \in Workers, NEW i \in Items, WriteParsed(w, i)
  PROVE  IInv'
<1> USE DEF IInv
<1>1. \A v \in Workers, j \in Items :
         stage'[v][j] = IF v = w /\ j = i THEN "audit" ELSE stage[v][j]
  BY StageOfOthers DEF WriteParsed
<1>2. UNCHANGED <<runOf, assetRun, audits>>
  BY DEF WriteParsed, evidence
<1>3. \A j \in Items : parsed'[j] = (parsed[j] \/ j = i)
  BY Zenon DEF WriteParsed, TypeOK
<1>4. \A j \in Items : assetOf'[j] =
         IF j = i /\ AssetFor[i] # NoAsset THEN AssetFor[i] ELSE assetOf[j]
  <2>1. assetOf \in [Items -> Assets \cup {NoAsset}]
    BY DEF TypeOK, AssetColumn
  <2> QED BY <2>1 DEF WriteParsed
<1>5. AssetFor[i] # NoAsset => assetRun[AssetFor[i]] # NoRun
  BY DEF WriteParsed, DrainKnows
<1>6. ParsedHasItsAsset'
  <2> SUFFICES ASSUME NEW j \in Items, parsed'[j], AssetFor[j] # NoAsset
               PROVE  assetOf'[j] = AssetFor[j] /\ assetRun[AssetFor[j]] # NoRun
    BY <1>2 DEF ParsedHasItsAsset
  <2>1. CASE j = i
    BY <1>4, <1>5, <2>1
  <2>2. CASE j # i
    BY <1>3, <1>4, <2>2 DEF ParsedHasItsAsset
  <2> QED BY <2>1, <2>2
<1>7. AssetRunHasEvidence'
  BY <1>2 DEF AssetRunHasEvidence
<1>8. OnceEachWorker'
  BY <1>2, <1>3 DEF OnceEachWorker
<1>9. DrainKnows'
  <2> SUFFICES ASSUME NEW v \in Workers, NEW j \in Items PROVE
        /\ stage'[v][j] # "none" => runOf[j] \in Runs /\ audits[v][j] = 0
        /\ stage'[v][j] = "write" /\ AssetFor[j] # NoAsset => assetRun[AssetFor[j]] # NoRun
        /\ stage'[v][j] = "audit" => parsed'[j]
    BY <1>2 DEF DrainKnows
  <2>1. CASE v = w /\ j = i
    BY <1>1, <1>3, <2>1 DEF WriteParsed, DrainKnows
  <2>2. CASE ~(v = w /\ j = i)
    <3>1. stage'[v][j] = stage[v][j]
      BY <1>1, <2>2
    <3>2. parsed[j] => parsed'[j]
      BY <1>3
    <3> QED BY <3>1, <3>2, Zenon DEF DrainKnows
  <2> QED BY <2>1, <2>2
<1> QED BY <1>6, <1>7, <1>8, <1>9

\* The audit is the first of this worker for an item that has been written.
LEMMA AuditStep ==
  ASSUME IInv, TypeOK', NEW w \in Workers, NEW i \in Items, Audit(w, i)
  PROVE  IInv'
<1> USE DEF IInv
<1>1. \A v \in Workers, j \in Items :
         stage'[v][j] = IF v = w /\ j = i THEN "none" ELSE stage[v][j]
  BY StageOfOthers DEF Audit
<1>2. UNCHANGED <<runOf, parsed, assetOf, assetRun>>
  BY DEF Audit, evidence
<1>3. \A v \in Workers, j \in Items :
         audits'[v][j] = IF v = w /\ j = i THEN audits[v][j] + 1 ELSE audits[v][j]
  BY DEF Audit, TypeOK
<1>4. parsed[i] /\ audits[w][i] = 0
  BY DEF Audit, DrainKnows
<1>5. ParsedHasItsAsset' /\ AssetRunHasEvidence'
  BY <1>2 DEF ParsedHasItsAsset, AssetRunHasEvidence
<1>6. OnceEachWorker'
  <2> SUFFICES ASSUME NEW v \in Workers, NEW j \in Items
               PROVE  audits'[v][j] <= 1 /\ (audits'[v][j] > 0 => parsed[j])
    BY <1>2 DEF OnceEachWorker
  <2>1. CASE v = w /\ j = i
    BY <1>3, <1>4, <2>1
  <2>2. CASE ~(v = w /\ j = i)
    BY <1>3, <2>2 DEF OnceEachWorker
  <2> QED BY <2>1, <2>2
<1>7. DrainKnows'
  BY <1>1, <1>2, <1>3 DEF DrainKnows
<1> QED BY <1>5, <1>6, <1>7

\* The invariant holds initially.
LEMMA InvInit == Init => IInv
<1> SUFFICES ASSUME Init PROVE IInv
  OBVIOUS
<1>1. ParsedHasItsAsset /\ AssetRunHasEvidence /\ OnceEachWorker /\ DrainKnows
  BY DEF Init, ParsedHasItsAsset, AssetRunHasEvidence, OnceEachWorker, DrainKnows
<1> QED BY <1>1, TypeInit DEF IInv

\* Every step keeps the invariant.
LEMMA InvStep == ASSUME IInv, [Next]_vars PROVE IInv'
<1>1. TypeOK /\ TypeOK'
  BY TypeStep DEF IInv
<1>2. CASE Ingest
  BY <1>1, <1>2, IngestStep
<1>3. ASSUME NEW w \in Workers, Work(w) \/ OnTick(w) \/ Disturb(w) PROVE IInv'
  <2>1. ASSUME Quiet PROVE IInv'
    BY <1>1, <2>1, QuietStep
  <2>2. ASSUME NEW i \in Items, ItemStep(w, i) PROVE IInv'
    BY <1>1, <2>1, <2>2, ProcessQuiet, UpsertStep, WriteStep, AuditStep DEF ItemStep
  <2> QED BY <1>1, <1>3, <2>1, <2>2, ProcessQuiet DEF Work
<1>4. CASE UNCHANGED vars
  <2>1. Quiet
    BY <1>4 DEF vars, Quiet
  <2> QED BY <1>1, <2>1, QuietStep
<1> QED BY <1>2, <1>3, <1>4 DEF Next

\* The inductive invariant holds in every reachable state.
THEOREM Inductive == Spec => []IInv
BY InvInit, InvStep, PTL DEF Spec

\* Evidence that discovery can see always has its asset, although the two are
\* written by separate commits that other workers, failures and restarts come
\* between.
THEOREM ParsedAsset == Spec => []ParsedHasItsAsset
BY Inductive, PTL DEF IInv

\* The run an asset is filed under has evidence of that asset.
THEOREM AssetRun == Spec => []AssetRunHasEvidence
BY Inductive, PTL DEF IInv

\* No worker normalizes an item twice, however often it fails and restarts.
THEOREM Once == Spec => []OnceEachWorker
BY Inductive, PTL DEF IInv

\* Normalization is final: an item is never pending again, and neither it nor its
\* asset changes asset or run, whichever worker normalizes it again.
THEOREM Final == Spec => NormalizationFinal
<1> DEFINE Keeps ==
      /\ \A i \in Items : parsed[i] => parsed'[i] /\ assetOf'[i] = assetOf[i]
      /\ \A a \in Assets : assetRun[a] # NoRun => assetRun'[a] = assetRun[a]
<1>1. IInv /\ [Next]_vars => Keeps
  <2> SUFFICES ASSUME IInv, [Next]_vars PROVE Keeps
    OBVIOUS
  <2>1. CASE UNCHANGED results
    BY <2>1 DEF results
  <2>2. ASSUME NEW w \in Workers, NEW i \in Items, UpsertAsset(w, i) PROVE Keeps
    <3>1. UNCHANGED <<parsed, assetOf>>
      BY <2>2 DEF UpsertAsset
    <3>2. \A a \in Assets : assetRun[a] # NoRun => assetRun'[a] = assetRun[a]
      BY <2>2 DEF UpsertAsset
    <3> QED BY <3>1, <3>2
  <2>3. ASSUME NEW w \in Workers, NEW i \in Items, WriteParsed(w, i) PROVE Keeps
    <3>1. UNCHANGED assetRun
      BY <2>3 DEF WriteParsed
    <3>2. ASSUME NEW j \in Items, parsed[j] PROVE parsed'[j] /\ assetOf'[j] = assetOf[j]
      <4>1. parsed'[j]
        BY <2>3, <3>2, Zenon DEF WriteParsed, IInv, TypeOK
      <4>2. assetOf \in [Items -> Assets \cup {NoAsset}]
        BY DEF IInv, TypeOK, AssetColumn
      <4>3. j = i /\ AssetFor[i] # NoAsset => assetOf[j] = AssetFor[i]
        BY <3>2 DEF IInv, ParsedHasItsAsset
      <4> QED BY <2>3, <4>1, <4>2, <4>3 DEF WriteParsed
    <3> QED BY <3>1, <3>2
  <2>4. ASSUME NEW w \in Workers, NEW i \in Items, Audit(w, i) PROVE Keeps
    BY <2>4 DEF Audit
  <2>5. ASSUME NEW w \in Workers, Work(w) \/ OnTick(w) \/ Disturb(w) PROVE Keeps
    <3>1. TypeOK
      BY DEF IInv
    <3>2. ASSUME Quiet PROVE Keeps
      BY <2>1, <3>2 DEF Quiet
    <3> QED BY <2>2, <2>3, <2>4, <2>5, <3>1, <3>2, ProcessQuiet DEF Work, ItemStep
  <2>6. CASE Ingest
    BY <2>1, <2>6 DEF Ingest, EvidenceCommitted
  <2>7. CASE UNCHANGED vars
    BY <2>1, <2>7 DEF vars
  <2> QED BY <2>5, <2>6, <2>7 DEF Next
<1> QED BY <1>1, Inductive, PTL DEF Spec, NormalizationFinal

----------------------------------------------------------------------------
(* The normalizer implements the lifecycle of evidence.                     *)

\* An upload of this module is an arrival of the lifecycle.
LEMMA IngestRefines ==
  ASSUME TypeOK, NEW r \in Runs, NEW S \in SUBSET Items, NEW t \in 0..MaxStamp,
         EvidenceCommitted(r, S, t)
  PROVE  Lifecycle!Arrive(r, S)
<1>1. /\ S # {} /\ \A i \in S : runOf[i] = NoRun
      /\ runOf' = [i \in Items |-> IF i \in S THEN r ELSE runOf[i]]
      /\ UNCHANGED <<parsed, assetOf, assetRun>>
  BY DEF EvidenceCommitted, results
<1>2. r # NoRun /\ \A q \in Runs : q # NoRun
  BY SchemaAssumption
<1>3. \A q \in Runs : (\E i \in Items : runOf'[i] = q) <=> q = r \/ \E i \in Items : runOf[i] = q
  BY <1>1, <1>2
<1>4. UploadStatus' = [q \in Runs |-> IF \E i \in Items : runOf'[i] = q
                                      THEN "normalizing" ELSE "collecting"]
  BY DEF UploadStatus
<1>5. UploadStatus' = [UploadStatus EXCEPT ![r] = "normalizing"]
  BY <1>3, <1>4 DEF UploadStatus
<1>6. UploadStatus[r] # "absent"
  BY DEF UploadStatus
<1> QED BY <1>1, <1>5, <1>6 DEF Lifecycle!Arrive

\* The status follows from the evidence alone.
LEMMA StatusStays == ASSUME UNCHANGED runOf PROVE UNCHANGED UploadStatus
BY DEF UploadStatus

\* The upsert finds the item's asset, or changes nothing: it is there already, or
\* the item has none.
LEMMA UpsertRefines ==
  ASSUME IInv, NEW w \in Workers, NEW i \in Items, UpsertAsset(w, i)
  PROVE  Lifecycle!FindAsset(i) \/ UNCHANGED Lifecycle!columns
<1>1. assetRun \in [Assets -> Runs \cup {NoRun}]
  BY DEF IInv, TypeOK, RunColumn
<1>2. UNCHANGED <<runOf, parsed, assetOf>>
  BY DEF UpsertAsset, evidence
<1>3. runOf[i] # NoRun
  BY SchemaAssumption DEF UpsertAsset, IInv, DrainKnows
<1>4. assetRun' = [b \in Assets |->
         IF b = AssetFor[i] /\ assetRun[b] = NoRun THEN runOf[i] ELSE assetRun[b]]
  BY DEF UpsertAsset
<1>5. CASE AssetFor[i] \in Assets /\ assetRun[AssetFor[i]] = NoRun
  <2>1. assetRun' = [assetRun EXCEPT ![AssetFor[i]] = runOf[i]]
    BY <1>1, <1>4, <1>5
  <2> QED BY <1>2, <1>3, <1>5, <2>1, StatusStays DEF Lifecycle!FindAsset
<1>6. CASE ~(AssetFor[i] \in Assets /\ assetRun[AssetFor[i]] = NoRun)
  <2>1. assetRun' = assetRun
    BY <1>1, <1>4, <1>6
  <2> QED BY <1>2, <2>1, StatusStays DEF Lifecycle!columns
<1> QED BY <1>5, <1>6

\* The write normalizes the item, or repeats what another worker has written. The
\* asset exists by what the drain knows, and the repetition writes the same asset
\* by ParsedHasItsAsset.
LEMMA WriteRefines ==
  ASSUME IInv, NEW w \in Workers, NEW i \in Items, WriteParsed(w, i)
  PROVE  Lifecycle!Normalize(i) \/ UNCHANGED Lifecycle!columns
<1>1. UNCHANGED <<runOf, assetRun>>
  BY DEF WriteParsed, evidence
<1>2. runOf[i] # NoRun
  BY SchemaAssumption DEF WriteParsed, IInv, DrainKnows
<1>3. parsed' = [parsed EXCEPT ![i] = TRUE]
  BY DEF WriteParsed
<1>4. assetOf' = IF AssetFor[i] = NoAsset THEN assetOf ELSE [assetOf EXCEPT ![i] = AssetFor[i]]
  BY DEF WriteParsed
<1>5. CASE ~parsed[i]
  <2>1. AssetFor[i] # NoAsset => AssetFor[i] \in Assets /\ assetRun[AssetFor[i]] # NoRun
    BY NormalizerAssumption DEF WriteParsed, IInv, DrainKnows, AssetColumn
  <2>2. \/ AssetFor[i] = NoAsset /\ UNCHANGED assetOf
        \/ /\ AssetFor[i] \in Assets /\ assetRun[AssetFor[i]] # NoRun
           /\ assetOf' = [assetOf EXCEPT ![i] = AssetFor[i]]
    BY <1>4, <2>1
  <2> QED BY <1>1, <1>2, <1>3, <1>5, <2>2, StatusStays, Zenon DEF Lifecycle!Normalize
<1>6. CASE parsed[i]
  <2>1. parsed \in [Items -> BOOLEAN] /\ assetOf \in [Items -> Assets \cup {NoAsset}]
    BY DEF IInv, TypeOK, AssetColumn
  <2>2. parsed[i] = TRUE
    BY <1>6, <2>1
  <2>3. parsed' = parsed
    BY <1>3, <2>1, <2>2, Zenon
  <2>4. AssetFor[i] # NoAsset => assetOf[i] = AssetFor[i]
    BY <1>6 DEF IInv, ParsedHasItsAsset
  <2>5. assetOf' = assetOf
    BY <1>4, <2>1, <2>4
  <2> QED BY <1>1, <2>3, <2>5, StatusStays DEF Lifecycle!columns
<1> QED BY <1>5, <1>6

\* A step of a worker, whatever it is, finds an asset or normalizes an item, or
\* leaves the rows as they are.
LEMMA WorkRefines ==
  ASSUME IInv, NEW w \in Workers, Work(w) \/ OnTick(w) \/ Disturb(w)
  PROVE  \/ \E i \in Items : Lifecycle!FindAsset(i) \/ Lifecycle!Normalize(i)
         \/ UNCHANGED <<runOf, parsed, assetOf, assetRun>>
<1> DEFINE Maps == \/ \E i \in Items : Lifecycle!FindAsset(i) \/ Lifecycle!Normalize(i)
                   \/ UNCHANGED <<runOf, parsed, assetOf, assetRun>>
<1>1. ASSUME Quiet PROVE Maps
  BY <1>1 DEF Quiet, evidence, results
<1>2. ASSUME NEW i \in Items, ItemStep(w, i) PROVE Maps
  <2>1. CASE UpsertAsset(w, i)
    BY <2>1, UpsertRefines DEF Lifecycle!columns
  <2>2. CASE WriteParsed(w, i)
    BY <2>2, WriteRefines DEF Lifecycle!columns
  <2>3. CASE Parse(w, i) \/ Audit(w, i)
    BY <2>3 DEF Parse, Audit, evidence, results
  <2> QED BY <1>2, <2>1, <2>2, <2>3 DEF ItemStep
<1>3. TypeOK
  BY DEF IInv
<1> QED BY <1>1, <1>2, <1>3, ProcessQuiet DEF Work

\* Whatever races, repeats and fails in it, a normalizer of any number of workers
\* takes every item through the lifecycle once.
THEOREM Refines == Spec => ImplementsLifecycle
<1>1. Init => Lifecycle!Init
  <2>1. ASSUME Init PROVE UploadStatus \in [Runs -> Lifecycle!Fresh]
    BY <2>1, SchemaAssumption DEF Init, UploadStatus, Lifecycle!Fresh
  <2> QED BY <2>1 DEF Init, Lifecycle!Init
<1>2. IInv /\ [Next]_vars => [Lifecycle!Next]_(Lifecycle!columns)
  <2> DEFINE Maps == [Lifecycle!Next]_(Lifecycle!columns)
  <2> SUFFICES ASSUME IInv, [Next]_vars PROVE Maps
    OBVIOUS
  <2>1. ASSUME UNCHANGED <<runOf, parsed, assetOf, assetRun>> PROVE Maps
    BY <2>1, StatusStays DEF Lifecycle!columns
  <2>2. CASE Ingest
    BY <2>2, IngestRefines DEF IInv, Ingest, Lifecycle!Service, Lifecycle!Next
  <2>3. ASSUME NEW w \in Workers, Work(w) \/ OnTick(w) \/ Disturb(w) PROVE Maps
    BY <2>1, <2>3, WorkRefines DEF Lifecycle!Service, Lifecycle!Next
  <2>4. CASE UNCHANGED vars
    BY <2>1, <2>4 DEF vars, evidence, results
  <2> QED BY <2>2, <2>3, <2>4 DEF Next
<1> QED BY <1>1, <1>2, Inductive, PTL DEF Spec, ImplementsLifecycle, Lifecycle!Spec

\* So any number of workers obey the laws of the lifecycle: an item has the asset its
\* parser names exactly while it is normalized, and no drain takes any of it back.
THEOREM Lawful == Spec => []Lifecycle!ColumnsAgree /\ Lifecycle!NothingTakenBack
BY Refines, SchemaAssumption, Lifecycle!Agree, Lifecycle!Permanent, PTL DEF ImplementsLifecycle
----------------------------------------------------------------------------
(* No wake-up is missed.                                                    *)

\* The rows there are fit into one batch.
Rows == {i \in Items : runOf[i] # NoRun}
Fits == Cardinality(Rows) <= Limit

\* Item i needs no wake-up of worker w, or one is waiting for it, or the worker's
\* drain has it.
Known(w, i) ==
  runOf[i] \in Runs /\ ~parsed[i] /\ i \notin NoParser \cup Unreadable =>
     runOf[i] \in channel[w] \/ stage[w][i] \in {"queued", "upsert", "write"}

\* Without failures a worker in its loop is subscribed, and once it has drained on
\* its timer it knows every item.
Awake(w) ==
  /\ \A i \in Items : stage[w][i] # "none" => mode[w] \in {"startup", "drain"}
  /\ faults = 0 =>
       /\ mode[w] # "backoff"
       /\ mode[w] \in {"idle", "drain"} => listening[w]
       /\ mode[w] \in {"down", "startup"} => ~ticked[w]
       /\ Fits /\ ticked[w] => \A i \in Items : Known(w, i)

WakeInv == IInv /\ \A w \in Workers : Awake(w)

\* A batch that has room for every pending row takes them all.
LEMMA WholeBatch ==
  ASSUME IsFiniteSet(Items), Fits, TypeOK, NEW R \in SUBSET Runs, NEW B \in Batches(R)
  PROVE  B = Pending(R)
<1>1. Pending(R) \subseteq Rows /\ Rows \subseteq Items /\ B \subseteq Pending(R)
  BY SchemaAssumption DEF Pending, Rows, Batches
<1>2. IsFiniteSet(Rows) /\ IsFiniteSet(Pending(R))
  BY <1>1, FS_Subset
<1>3. /\ Cardinality(Rows) \in Nat /\ Cardinality(Pending(R)) \in Nat
      /\ Cardinality(Pending(R)) <= Cardinality(Rows)
  BY <1>1, <1>2, FS_CardinalityType, FS_Subset
<1>4. ASSUME B # Pending(R) PROVE FALSE
  <2>1. Cardinality(B) = Limit
    BY <1>4 DEF Batches
  <2>2. /\ Cardinality(B) <= Cardinality(Pending(R))
        /\ Cardinality(Pending(R)) = Cardinality(B) => Pending(R) = B
    BY <1>1, <1>2, FS_Subset
  <2> QED BY <1>3, <1>4, <2>1, <2>2, NormalizerAssumption DEF Fits
<1> QED BY <1>4

\* A step of one worker leaves what the others know.
LEMMA OthersAwake ==
  ASSUME WakeInv, TypeOK', NEW v \in Workers,
         mode'[v] = mode[v], listening'[v] = listening[v], ticked'[v] = ticked[v],
         channel'[v] = channel[v], stage'[v] = stage[v], UNCHANGED runOf,
         \A i \in Items : parsed[i] => parsed'[i],
         faults' \in {faults, faults + 1}
  PROVE  Awake(v)'
<1>1. faults' = 0 => faults = 0
  BY DEF WakeInv, IInv, TypeOK
<1>2. Fits' = Fits
  BY DEF Fits, Rows
<1>3. \A i \in Items : Known(v, i) => Known(v, i)'
  BY DEF Known
<1>4. Awake(v)
  BY DEF WakeInv
<1>5. \A i \in Items : stage'[v][i] # "none" => mode'[v] \in {"startup", "drain"}
  BY <1>4 DEF Awake
<1>6. faults' = 0 =>
       /\ mode'[v] # "backoff"
       /\ mode'[v] \in {"idle", "drain"} => listening'[v]
       /\ mode'[v] \in {"down", "startup"} => ~ticked'[v]
       /\ Fits' /\ ticked'[v] => \A i \in Items : Known(v, i)'
  BY <1>1, <1>2, <1>3, <1>4 DEF Awake
<1> QED BY <1>5, <1>6 DEF Awake

\* So does a step that fails, for its worker as well: what an awake worker knows is
\* claimed without failures only.
LEMMA FaultAwake ==
  ASSUME TypeOK, NEW w \in Workers, Fault,
         \A i \in Items : stage'[w][i] # "none" => mode'[w] \in {"startup", "drain"}
  PROVE  Awake(w)'
BY DEF TypeOK, Fault, Awake

\* The beginning of a drain over the runs R: the worker has every pending item of
\* those runs, unless the step fails.
LEMMA FetchKnows ==
  ASSUME IsFiniteSet(Items), Fits, TypeOK, NEW w \in Workers, NEW R \in SUBSET Runs,
         Fetch(w, R), faults' = 0, UNCHANGED <<runOf, parsed>>,
         NEW i \in Items, runOf[i] \in R
  PROVE  Known(w, i)'
<1>1. faults \in Nat
  BY DEF TypeOK
<1>2. PICK B \in Batches(R) : stage' = [stage EXCEPT ![w] =
              [j \in Items |-> IF j \in B THEN "queued" ELSE "none"]]
  BY <1>1 DEF Fetch, Fault
<1>3. B = Pending(R)
  BY WholeBatch
<1>4. stage'[w][i] = IF i \in B THEN "queued" ELSE "none"
  BY <1>2 DEF TypeOK
<1> QED BY <1>3, <1>4 DEF Pending, Known

\* The steps of one worker's process, drain and items.
LEMMA WorkerAwake ==
  ASSUME IsFiniteSet(Items), WakeInv, TypeOK', NEW w \in Workers,
         Work(w) \/ OnTick(w) \/ Disturb(w)
  PROVE  Awake(w)'
<1> USE DEF WakeInv, IInv
<1>1. /\ mode \in [Workers -> Modes] /\ listening \in [Workers -> BOOLEAN]
      /\ ticked \in [Workers -> BOOLEAN] /\ channel \in [Workers -> SUBSET Runs]
      /\ stage \in [Workers -> [Items -> Stages]] /\ faults \in Nat
  BY DEF TypeOK
<1>2. Awake(w)
  OBVIOUS
<1>3. ASSUME Fault, UNCHANGED <<mode, stage>> PROVE Awake(w)'
  BY <1>2, <1>3, FaultAwake DEF Awake
<1>4. CASE Start(w)
  <2>1. mode'[w] = "startup" /\ UNCHANGED <<runOf, parsed, ticked>>
    BY <1>1, <1>4 DEF Start, evidence, results
  <2>2. mode[w] = "down" /\ faults' \in {faults, faults + 1}
    BY <1>4 DEF Start, Fetch, Fault
  <2>3. faults' = 0 => ~ticked'[w]
    BY <1>1, <1>2, <2>1, <2>2 DEF Awake
  <2> QED BY <2>1, <2>3 DEF Awake
<1>5. CASE Listen(w)
  <2>1. /\ mode[w] = "startup" /\ \A i \in Items : stage[w][i] = "none"
        /\ UNCHANGED <<stage, ticked>>
    BY <1>5 DEF Listen, Drained
  <2>2. CASE Fault
    BY <2>1, <2>2, FaultAwake
  <2>3. ASSUME mode' = [mode EXCEPT ![w] = "idle"],
               listening' = [listening EXCEPT ![w] = TRUE], UNCHANGED faults
        PROVE  Awake(w)'
    <3>1. mode'[w] = "idle" /\ listening'[w]
      BY <1>1, <2>3
    <3>2. faults = 0 => ~ticked'[w]
      BY <1>2, <2>1 DEF Awake
    <3> QED BY <2>1, <2>3, <3>1, <3>2 DEF Awake
  <2> QED BY <1>5, <2>2, <2>3 DEF Listen
<1>6. CASE OnTick(w)
  <2>1. /\ mode[w] = "idle" /\ mode' = [mode EXCEPT ![w] = "drain"] /\ Fetch(w, Runs)
        /\ UNCHANGED <<runOf, parsed, listening>>
    BY <1>6 DEF OnTick, evidence, results
  <2>2. mode'[w] = "drain"
    BY <1>1, <2>1
  <2>3. faults' = 0 => faults = 0
    BY <1>1, <2>1 DEF Fetch, Fault
  <2>4. Fits' = Fits
    BY <2>1 DEF Fits, Rows
  <2>5. ASSUME faults' = 0, Fits, NEW i \in Items PROVE Known(w, i)'
    <3>1. CASE runOf[i] \in Runs
      BY <2>1, <2>5, <3>1, FetchKnows
    <3>2. CASE runOf[i] \notin Runs
      BY <2>1, <3>2 DEF Known
    <3> QED BY <3>1, <3>2
  <2>6. faults' = 0 => listening'[w]
    BY <1>2, <2>1, <2>3 DEF Awake
  <2> QED BY <2>2, <2>4, <2>5, <2>6 DEF Awake
<1>7. ASSUME NEW r \in Runs, OnNotify(w, r) PROVE Awake(w)'
  <2>1. /\ mode[w] = "idle" /\ mode' = [mode EXCEPT ![w] = "drain"] /\ Fetch(w, {r})
        /\ channel' = [channel EXCEPT ![w] = @ \ {r}]
        /\ UNCHANGED <<runOf, parsed, listening, ticked>>
    BY <1>7 DEF OnNotify, evidence, results
  <2>2. mode'[w] = "drain" /\ channel'[w] = channel[w] \ {r}
    BY <1>1, <2>1
  <2>3. faults' = 0 => faults = 0
    BY <1>1, <2>1 DEF Fetch, Fault
  <2>4. Fits' = Fits
    BY <2>1 DEF Fits, Rows
  <2>5. ASSUME faults' = 0, Fits, ticked[w], NEW i \in Items PROVE Known(w, i)'
    <3>1. CASE runOf[i] = r
      BY <2>1, <2>5, <3>1, FetchKnows
    <3>2. CASE runOf[i] # r
      <4>1. Known(w, i)
        BY <1>2, <2>3, <2>5 DEF Awake
      <4>2. stage[w][i] = "none"
        BY <1>2, <2>1 DEF Awake
      <4> QED BY <2>1, <2>2, <3>2, <4>1, <4>2 DEF Known
    <3> QED BY <3>1, <3>2
  <2>6. faults' = 0 => listening'[w]
    BY <1>2, <2>1, <2>3 DEF Awake
  <2> QED BY <2>1, <2>2, <2>4, <2>5, <2>6 DEF Awake
<1>8. CASE DrainEnds(w)
  <2>1. /\ mode[w] = "drain" /\ mode'[w] = "idle" /\ \A i \in Items : stage[w][i] = "none"
        /\ UNCHANGED <<runOf, parsed, listening, ticked, channel, stage, faults>>
    BY <1>1, <1>8 DEF DrainEnds, Drained, evidence, results
  <2>2. UNCHANGED Fits /\ \A i \in Items : Known(w, i)' = Known(w, i)
    BY <2>1 DEF Fits, Rows, Known
  <2> QED BY <1>2, <2>1, <2>2 DEF Awake
<1>9. CASE Reconnect(w) \/ Receive(w)
  <2>1. /\ mode[w] = "backoff" \/ (mode[w] = "idle" /\ ~listening[w])
        /\ UNCHANGED <<stage, faults>>
    BY <1>9 DEF Reconnect, Receive
  <2>2. faults # 0 /\ \A i \in Items : stage[w][i] = "none"
    BY <1>2, <2>1 DEF Awake
  <2> QED BY <2>1, <2>2 DEF Awake
<1>10. CASE Crash(w) \/ ConnectionLost(w)
  <2>1. Fault
    BY <1>10 DEF Crash, ConnectionLost
  <2>2. CASE Crash(w)
    <3>1. \A i \in Items : stage'[w][i] = "none"
      BY <1>1, <2>2 DEF Crash
    <3> QED BY <2>1, <3>1, FaultAwake
  <2> QED BY <1>3, <1>10, <2>1, <2>2 DEF ConnectionLost
<1>11. ASSUME NEW i \in Items, ItemStep(w, i) \/ ItemFails(w, i) PROVE Awake(w)'
  <2>1. PICK s \in {"none", "upsert", "write", "audit"} :
           SetStage(w, i, s) /\ stage[w][i] # "none" /\ UNCHANGED <<runOf, process>>
    BY <1>11 DEF ItemStep, ItemFails, Parse, UpsertAsset, WriteParsed, Audit, evidence
  <2>2. \A j \in Items : stage'[w][j] = IF j = i THEN s ELSE stage[w][j]
    BY <2>1, StageOfOthers
  <2>3. \A j \in Items : stage'[w][j] # "none" => mode'[w] \in {"startup", "drain"}
    BY <1>2, <2>1, <2>2 DEF Awake, process
  <2>4. CASE ItemFails(w, i)
    BY <2>3, <2>4, FaultAwake DEF ItemFails
  <2>5. CASE ItemStep(w, i)
    <3>1. UNCHANGED <<faults, mode, listening, ticked, channel>> /\ UNCHANGED Fits
      BY <2>1, <2>5 DEF ItemStep, Parse, UpsertAsset, WriteParsed, Audit, process, Fits, Rows
    <3>2. \A j \in Items : parsed[j] => parsed'[j]
      BY <2>5, Zenon DEF ItemStep, Parse, UpsertAsset, WriteParsed, Audit, results, TypeOK
    <3>3. ASSUME NEW j \in Items, Known(w, j) PROVE Known(w, j)'
      <4>1. CASE j # i
        BY <2>1, <2>2, <3>1, <3>2, <3>3, <4>1 DEF Known
      <4>2. ASSUME j = i, runOf[i] \in Runs, ~parsed'[i], i \notin NoParser \cup Unreadable
            PROVE  s \in {"upsert", "write"}
        <5>1. CASE Parse(w, i)
          BY <4>2, <5>1, <1>1, <2>2 DEF Parse, SetStage
        <5>2. CASE UpsertAsset(w, i)
          BY <5>2, <1>1, <2>2 DEF UpsertAsset, SetStage
        <5>3. ~WriteParsed(w, i)
          BY <4>2, Zenon DEF WriteParsed, TypeOK
        <5>4. ~Audit(w, i)
          BY <3>2, <4>2 DEF Audit, DrainKnows
        <5> QED BY <2>5, <5>1, <5>2, <5>3, <5>4 DEF ItemStep
      <4> QED BY <2>1, <2>2, <4>1, <4>2 DEF Known
    <3> QED BY <1>2, <2>3, <3>1, <3>3 DEF Awake
  <2> QED BY <1>11, <2>4, <2>5
<1> QED BY <1>4, <1>5, <1>6, <1>7, <1>8, <1>9, <1>10, <1>11 DEF Work, Disturb

\* A step of one worker moves no row and disturbs no other worker.
LEMMA WorkerAlone ==
  ASSUME TypeOK, NEW w \in Workers, Work(w) \/ OnTick(w) \/ Disturb(w)
  PROVE  /\ UNCHANGED runOf
         /\ \A i \in Items : parsed[i] => parsed'[i]
         /\ faults' \in {faults, faults + 1}
         /\ \A v \in Workers \ {w} :
              /\ mode'[v] = mode[v] /\ listening'[v] = listening[v] /\ ticked'[v] = ticked[v]
              /\ channel'[v] = channel[v] /\ stage'[v] = stage[v]
<1> DEFINE Alone ==
      /\ UNCHANGED runOf
      /\ \A i \in Items : parsed[i] => parsed'[i]
      /\ faults' \in {faults, faults + 1}
      /\ \A v \in Workers \ {w} :
           /\ mode'[v] = mode[v] /\ listening'[v] = listening[v] /\ ticked'[v] = ticked[v]
           /\ channel'[v] = channel[v] /\ stage'[v] = stage[v]
<1>1. /\ mode \in [Workers -> Modes] /\ listening \in [Workers -> BOOLEAN]
      /\ ticked \in [Workers -> BOOLEAN] /\ channel \in [Workers -> SUBSET Runs]
      /\ stage \in [Workers -> [Items -> Stages]]
  BY DEF TypeOK
<1>2. ASSUME NEW R, Fetch(w, R)
      PROVE  /\ faults' \in {faults, faults + 1}
             /\ \A v \in Workers \ {w} : stage'[v] = stage[v]
  BY <1>1, <1>2 DEF Fetch, Fault
<1>3. CASE Start(w)
  BY <1>1, <1>2, <1>3 DEF Start, evidence, results
<1>4. CASE Listen(w)
  BY <1>1, <1>4 DEF Listen, Fault, evidence, results
<1>5. CASE OnTick(w)
  BY <1>1, <1>2, <1>5 DEF OnTick, evidence, results
<1>6. ASSUME NEW r \in Runs, OnNotify(w, r) PROVE Alone
  BY <1>1, <1>2, <1>6 DEF OnNotify, evidence, results
<1>7. CASE DrainEnds(w) \/ Reconnect(w) \/ Receive(w) \/ Crash(w) \/ ConnectionLost(w)
  BY <1>1, <1>7 DEF DrainEnds, Reconnect, Receive, Crash, ConnectionLost, Fault, evidence, results
<1>8. ASSUME NEW i \in Items, ItemStep(w, i) \/ ItemFails(w, i) PROVE Alone
  <2>1. /\ UNCHANGED <<runOf, mode, listening, ticked, channel>>
        /\ faults' \in {faults, faults + 1}
        /\ \E s : SetStage(w, i, s)
    BY <1>8 DEF ItemStep, ItemFails, Parse, UpsertAsset, WriteParsed, Audit, Fault, evidence, process
  <2>2. \A v \in Workers \ {w} : stage'[v] = stage[v]
    BY <1>1, <2>1 DEF SetStage
  <2>3. \A j \in Items : parsed[j] => parsed'[j]
    BY <1>8, Zenon DEF ItemStep, ItemFails, Parse, UpsertAsset, WriteParsed, Audit, results, TypeOK
  <2> QED BY <2>1, <2>2, <2>3
<1> QED BY <1>3, <1>4, <1>5, <1>6, <1>7, <1>8 DEF Work, Disturb

\* An upload reaches every worker that listens.
LEMMA IngestAwake ==
  ASSUME IsFiniteSet(Items), WakeInv, Ingest, NEW w \in Workers PROVE Awake(w)'
<1>1. PICK r \in Runs, S \in SUBSET Items, t \in 0..MaxStamp : EvidenceCommitted(r, S, t)
  BY DEF Ingest
<1>2. /\ UNCHANGED <<parsed, mode, listening, ticked, stage, faults>>
      /\ \A i \in Items : runOf'[i] = IF i \in S THEN r ELSE runOf[i]
      /\ \A i \in S : runOf[i] = NoRun
  BY <1>1 DEF EvidenceCommitted, results
<1>3. channel'[w] = IF listening[w] THEN channel[w] \cup {r} ELSE channel[w]
  BY <1>1 DEF EvidenceCommitted, Notify
<1>4. Awake(w)
  BY DEF WakeInv
<1>5. Fits' => Fits
  <2>1. Rows \subseteq Rows' /\ Rows' \in SUBSET Items
    BY <1>2 DEF Rows
  <2>2. IsFiniteSet(Rows')
    BY <2>1, FS_Subset
  <2>3. /\ Cardinality(Rows) <= Cardinality(Rows')
        /\ Cardinality(Rows) \in Nat /\ Cardinality(Rows') \in Nat
    BY <2>1, <2>2, FS_Subset, FS_CardinalityType
  <2> QED BY <2>3, NormalizerAssumption DEF Fits
<1>6. ASSUME listening[w], NEW i \in Items, Known(w, i) PROVE Known(w, i)'
  BY <1>2, <1>3, <1>6 DEF Known
<1>7. faults = 0 /\ ticked[w] => listening[w]
  <2>1. mode[w] \in Modes /\ ticked[w] \in BOOLEAN
    BY DEF WakeInv, IInv, TypeOK
  <2> QED BY <1>4, <2>1 DEF Awake, Modes
<1> QED BY <1>2, <1>4, <1>5, <1>6, <1>7 DEF Awake

\* Every step keeps the workers awake.
LEMMA WakeStep == ASSUME IsFiniteSet(Items), WakeInv, [Next]_vars PROVE WakeInv'
<1>1. IInv' /\ TypeOK /\ TypeOK'
  BY InvStep DEF WakeInv, IInv
<1>2. CASE Ingest
  BY <1>1, <1>2, IngestAwake DEF WakeInv
<1>3. ASSUME NEW w \in Workers, Work(w) \/ OnTick(w) \/ Disturb(w) PROVE WakeInv'
  <2>1. Awake(w)'
    BY <1>1, <1>3, WorkerAwake
  <2>2. ASSUME NEW v \in Workers \ {w} PROVE Awake(v)'
    BY <1>1, <1>3, WorkerAlone, OthersAwake
  <2> QED BY <1>1, <2>1, <2>2 DEF WakeInv
<1>4. CASE UNCHANGED vars
  <2>1. UNCHANGED <<runOf, parsed, mode, listening, ticked, channel, stage, faults>>
    BY <1>4 DEF vars, evidence, results, process
  <2>2. \A w \in Workers : Awake(w)' = Awake(w)
    BY <2>1 DEF Awake, Fits, Rows, Known
  <2> QED BY <1>1, <2>2 DEF WakeInv
<1> QED BY <1>2, <1>3, <1>4 DEF Next

\* The invariant with what awake workers know holds in every reachable state.
THEOREM Awakened == IsFiniteSet(Items) => (Spec => []WakeInv)
<1> SUFFICES ASSUME IsFiniteSet(Items) PROVE Spec => []WakeInv
  OBVIOUS
<1>1. Init => WakeInv
  <2> SUFFICES ASSUME Init PROVE WakeInv
    OBVIOUS
  <2>1. IInv
    BY InvInit
  <2>2. ASSUME NEW w \in Workers PROVE Awake(w)
    BY DEF Init, Awake
  <2> QED BY <2>1, <2>2 DEF WakeInv
<1>2. WakeInv /\ [Next]_vars => WakeInv'
  BY WakeStep
<1> QED BY <1>1, <1>2, PTL DEF Spec

\* For any number of workers: none back in its loop has missed the wake-up of an item
\* it could normalize, between its startup drain and LISTEN, during a drain, or
\* because several notifications became one.
THEOREM Woken == IsFiniteSet(Items) => (Spec => []NoMissedWakeup)
<1> SUFFICES ASSUME IsFiniteSet(Items) PROVE Spec => []NoMissedWakeup
  OBVIOUS
<1>1. WakeInv => NoMissedWakeup
  <2> SUFFICES ASSUME WakeInv, faults = 0, Fits, NEW w \in Workers,
                      mode[w] = "idle", ticked[w], channel[w] = {}, NEW i \in Pending(Runs)
               PROVE  i \in NoParser \cup Unreadable
    BY DEF NoMissedWakeup, Fits, Rows
  <2>1. Awake(w) /\ i \in Items /\ runOf[i] \in Runs /\ ~parsed[i]
    BY DEF WakeInv, Pending
  <2>2. Known(w, i) /\ stage[w][i] = "none"
    BY <2>1 DEF Awake
  <2> QED BY <2>1, <2>2 DEF Known
<1> QED BY <1>1, Awakened, PTL

----------------------------------------------------------------------------
(* What a drain takes, and what it never reaches.                           *)

\* The items that no drain can normalize.
Stuck == NoParser \cup Unreadable

\* With fewer stuck items than a batch has rows, a batch always holds an item that
\* can be normalized, if one is pending: draining again and again gets on.
THEOREM BatchHasWork ==
  ASSUME IsFiniteSet(Items), NEW R \in SUBSET Runs, NEW B \in Batches(R),
         Cardinality(Pending(R) \cap Stuck) < Limit, Pending(R) \ Stuck # {}
  PROVE  B \ Stuck # {}
<1> SUFFICES ASSUME B \ Stuck = {} PROVE FALSE
  OBVIOUS
<1>1. B \subseteq Pending(R) \cap Stuck
  BY DEF Batches
<1>2. Pending(R) \cap Stuck \in SUBSET Items
  BY DEF Pending
<1>3. IsFiniteSet(Pending(R) \cap Stuck)
  BY <1>2, FS_Subset
<1>4. /\ Cardinality(B) <= Cardinality(Pending(R) \cap Stuck)
      /\ Cardinality(B) \in Nat /\ Cardinality(Pending(R) \cap Stuck) \in Nat
  BY <1>1, <1>3, FS_Subset, FS_CardinalityType
<1>5. Cardinality(B) # Limit
  BY <1>4, NormalizerAssumption
<1>6. B = Pending(R)
  BY <1>5 DEF Batches
<1> QED BY <1>1, <1>6

\* With as many older ones as a batch has rows, a batch never holds item j.
LEMMA BatchLeavesOut ==
  ASSUME IsFiniteSet(Items), NEW R \in SUBSET Runs, NEW B \in Batches(R), NEW j \in Items,
         created \in [Items -> 0..MaxStamp],
         NEW S \in SUBSET Pending(R), Cardinality(S) >= Limit,
         \A i \in S : created[i] < created[j]
  PROVE  j \notin B
<1> SUFFICES ASSUME j \in B PROVE FALSE
  OBVIOUS
<1>1. B \subseteq Items /\ S \subseteq Items /\ Cardinality(B) <= Limit
  BY DEF Batches, Pending
<1>2. \A i \in Items : created[i] \in Nat
  BY NormalizerAssumption
<1>3. j \notin S
  BY <1>2
<1>4. S \subseteq B
  <2> SUFFICES ASSUME NEW i \in S, i \notin B PROVE FALSE
    OBVIOUS
  <2>1. created[j] <= created[i] /\ created[i] < created[j]
    BY DEF Batches
  <2> QED BY <1>1, <1>2, <2>1
<1>5. IsFiniteSet(S) /\ IsFiniteSet(B)
  BY <1>1, FS_Subset
<1>6. Cardinality(S \cup {j}) = Cardinality(S) + 1 /\ S \cup {j} \subseteq B
  BY <1>3, <1>4, <1>5, FS_AddElement
<1>7. Cardinality(S) \in Nat /\ Cardinality(B) \in Nat /\ Cardinality(S \cup {j}) <= Cardinality(B)
  BY <1>5, <1>6, FS_Subset, FS_CardinalityType
<1> QED BY <1>1, <1>6, <1>7, NormalizerAssumption

\* A stuck item is queued at most: it is given up as soon as it is parsed.
StuckStays == \A i \in Stuck : ~parsed[i] /\ \A w \in Workers : stage[w][i] \in {"none", "queued"}

StuckInv == IInv /\ StuckStays

\* What a drain's beginning does to the stages.
LEMMA FetchEffect ==
  ASSUME TypeOK, NEW w \in Workers, NEW R, Fetch(w, R)
  PROVE  \/ UNCHANGED stage
         \/ \E B \in Batches(R) : \A v \in Workers, i \in Items :
               stage'[v][i] = IF v = w THEN (IF i \in B THEN "queued" ELSE "none")
                              ELSE stage[v][i]
<1>1. ASSUME NEW B \in Batches(R), stage' = [stage EXCEPT ![w] =
               [i \in Items |-> IF i \in B THEN "queued" ELSE "none"]]
      PROVE  \A v \in Workers, i \in Items :
               stage'[v][i] = IF v = w THEN (IF i \in B THEN "queued" ELSE "none")
                              ELSE stage[v][i]
  BY <1>1 DEF TypeOK
<1> QED BY <1>1 DEF Fetch

\* Where an item can be after a step: where it was, given up, in a fresh batch, or one
\* stage on.
LEMMA StageMoves ==
  ASSUME TypeOK, NEW w \in Workers, Work(w) \/ OnTick(w) \/ Disturb(w)
  PROVE  \/ \E R \in SUBSET Runs : \E B \in Batches(R) : \A v \in Workers, i \in Items :
               stage'[v][i] = IF v = w THEN (IF i \in B THEN "queued" ELSE "none")
                              ELSE stage[v][i]
         \/ \A v \in Workers, i \in Items : stage'[v][i] \in {stage[v][i], "none"}
         \/ \E i \in Items : /\ ItemStep(w, i)
                             /\ \A v \in Workers, j \in Items :
                                  v # w \/ j # i => stage'[v][j] = stage[v][j]
<1> DEFINE Moves ==
         \/ \E R \in SUBSET Runs : \E B \in Batches(R) : \A v \in Workers, i \in Items :
               stage'[v][i] = IF v = w THEN (IF i \in B THEN "queued" ELSE "none")
                              ELSE stage[v][i]
         \/ \A v \in Workers, i \in Items : stage'[v][i] \in {stage[v][i], "none"}
         \/ \E i \in Items : /\ ItemStep(w, i)
                             /\ \A v \in Workers, j \in Items :
                                  v # w \/ j # i => stage'[v][j] = stage[v][j]
<1>1. ASSUME NEW R \in SUBSET Runs, Fetch(w, R) PROVE Moves
  BY <1>1, FetchEffect
<1>2. CASE Start(w) \/ OnTick(w)
  BY <1>1, <1>2 DEF Start, OnTick
<1>3. ASSUME NEW r \in Runs, OnNotify(w, r) PROVE Moves
  BY <1>1, <1>3 DEF OnNotify
<1>4. CASE Listen(w) \/ DrainEnds(w) \/ Reconnect(w) \/ Receive(w) \/ ConnectionLost(w)
  <2>1. UNCHANGED stage
    BY <1>4 DEF Listen, DrainEnds, Reconnect, Receive, ConnectionLost
  <2> QED BY <2>1
<1>5. CASE Crash(w)
  <2>1. \A v \in Workers, i \in Items : stage'[v][i] \in {stage[v][i], "none"}
    BY <1>5 DEF Crash, TypeOK
  <2> QED BY <2>1
<1>6. ASSUME NEW i \in Items, ItemFails(w, i) PROVE Moves
  <2>1. \A v \in Workers, j \in Items :
           stage'[v][j] = IF v = w /\ j = i THEN "none" ELSE stage[v][j]
    BY <1>6, StageOfOthers DEF ItemFails
  <2> QED BY <2>1
<1>7. ASSUME NEW i \in Items, ItemStep(w, i) PROVE Moves
  <2>1. PICK s : SetStage(w, i, s)
    BY <1>7 DEF ItemStep, Parse, UpsertAsset, WriteParsed, Audit
  <2>2. \A v \in Workers, j \in Items : v # w \/ j # i => stage'[v][j] = stage[v][j]
    BY <2>1, StageOfOthers
  <2> QED BY <1>7, <2>2
<1> QED BY <1>2, <1>3, <1>4, <1>5, <1>6, <1>7 DEF Work, Disturb

\* A stuck item stays stuck.
LEMMA StuckStep == ASSUME StuckInv, [Next]_vars PROVE StuckInv'
<1>1. TypeOK /\ IInv' /\ Stuck \subseteq Items
  BY InvStep, NormalizerAssumption DEF StuckInv, IInv, Stuck
<1>2. ASSUME UNCHANGED <<parsed, stage>> PROVE StuckStays'
  BY <1>2 DEF StuckInv, StuckStays
<1>3. ASSUME Ingest PROVE StuckStays'
  BY <1>2, <1>3 DEF Ingest, EvidenceCommitted, results
<1>4. ASSUME NEW w \in Workers, Work(w) \/ OnTick(w) \/ Disturb(w) PROVE StuckStays'
  <2>1. ASSUME NEW i \in Items, ItemStep(w, i), i \in Stuck
        PROVE  UNCHANGED parsed /\ stage'[w][i] = "none"
    <3>1. Parse(w, i)
      BY <2>1 DEF ItemStep, UpsertAsset, WriteParsed, Audit, StuckInv, StuckStays
    <3>2. SetStage(w, i, "none")
      BY <2>1, <3>1 DEF Parse, Stuck
    <3> QED BY <1>1, <3>1, <3>2, StageOfOthers DEF Parse, results
  <2>2. ASSUME NEW i \in Stuck PROVE \A v \in Workers : stage'[v][i] \in {"none", "queued"}
    BY <1>1, <1>4, <2>1, StageMoves DEF StuckInv, StuckStays
  <2>3. ASSUME NEW i \in Stuck PROVE ~parsed'[i]
    <3>1. ~parsed[i]
      BY DEF StuckInv, StuckStays
    <3>2. ASSUME NEW j \in Items, WriteParsed(w, j) PROVE j # i
      BY <3>2 DEF WriteParsed, StuckInv, StuckStays
    <3>3. ASSUME NEW j \in Items, WriteParsed(w, j) PROVE ~parsed'[i]
      BY <1>1, <3>1, <3>2, <3>3, Zenon DEF WriteParsed, TypeOK
    <3>4. (\E j \in Items : WriteParsed(w, j)) \/ UNCHANGED parsed
      <4>1. ASSUME Quiet PROVE UNCHANGED parsed
        BY <4>1 DEF Quiet, results
      <4>2. ASSUME NEW j \in Items, UpsertAsset(w, j) \/ Audit(w, j) PROVE UNCHANGED parsed
        BY <4>2 DEF UpsertAsset, Audit
      <4> QED BY <1>1, <1>4, <4>1, <4>2, ProcessQuiet DEF Work, ItemStep
    <3> QED BY <3>1, <3>3, <3>4
  <2> QED BY <2>2, <2>3 DEF StuckStays
<1>5. ASSUME UNCHANGED vars PROVE StuckStays'
  BY <1>2, <1>5 DEF vars, results
<1> QED BY <1>1, <1>3, <1>4, <1>5 DEF Next, StuckInv

\* Item j is behind as many older stuck items of its run as a batch has rows.
Blocked(j) ==
  /\ runOf[j] \in Runs /\ ~parsed[j] /\ \A w \in Workers : stage[w][j] = "none"
  /\ \E S \in SUBSET Stuck :
        /\ Cardinality(S) >= Limit
        /\ \A i \in S : runOf[i] = runOf[j] /\ created[i] < created[j]

\* Once blocked, always blocked.
NeverReached == \A j \in Items : Blocked(j) => Blocked(j)'

\* A step leaves a blocked item blocked.
LEMMA BlockedStep ==
  ASSUME IsFiniteSet(Items), StuckInv, StuckInv', [Next]_vars, NEW j \in Items, Blocked(j)
  PROVE  Blocked(j)'
<1>1. PICK S \in SUBSET Stuck :
         /\ Cardinality(S) >= Limit
         /\ \A i \in S : runOf[i] = runOf[j] /\ created[i] < created[j]
  BY DEF Blocked
<1>2. S \subseteq Items /\ runOf[j] \in Runs /\ runOf[j] # NoRun /\ TypeOK
  BY NormalizerAssumption, SchemaAssumption DEF Stuck, Blocked, StuckInv, IInv
<1>3. \A i \in Items : runOf[i] # NoRun => runOf'[i] = runOf[i] /\ created'[i] = created[i]
  <2>1. ASSUME UNCHANGED evidence PROVE \A i \in Items : runOf'[i] = runOf[i] /\ created'[i] = created[i]
    BY <2>1 DEF evidence
  <2>2. ASSUME Ingest
        PROVE  \A i \in Items : runOf[i] # NoRun => runOf'[i] = runOf[i] /\ created'[i] = created[i]
    BY <2>2 DEF Ingest, EvidenceCommitted
  <2>3. ASSUME NEW w \in Workers, Work(w) \/ OnTick(w) \/ Disturb(w) PROVE UNCHANGED evidence
    <3>1. ASSUME Quiet PROVE UNCHANGED evidence
      BY <3>1 DEF Quiet
    <3>2. ASSUME NEW i \in Items, ItemStep(w, i) PROVE UNCHANGED evidence
      BY <3>2 DEF ItemStep, Parse, UpsertAsset, WriteParsed, Audit
    <3> QED BY <1>2, <2>3, <3>1, <3>2, ProcessQuiet DEF Work
  <2> QED BY <2>1, <2>2, <2>3 DEF Next, vars
<1>4. \E T \in SUBSET Stuck :
         /\ Cardinality(T) >= Limit
         /\ \A i \in T : runOf'[i] = runOf'[j] /\ created'[i] < created'[j]
  BY <1>1, <1>2, <1>3
<1>5. \A R \in SUBSET Runs : \A B \in Batches(R) : j \notin B
  <2> SUFFICES ASSUME NEW R \in SUBSET Runs, NEW B \in Batches(R), j \in B PROVE FALSE
    OBVIOUS
  <2>1. runOf[j] \in R
    BY DEF Batches, Pending
  <2>2. S \in SUBSET Pending(R)
    BY <1>1, <1>2, <2>1 DEF Pending, StuckInv, StuckStays
  <2>3. created \in [Items -> 0..MaxStamp]
    BY <1>2 DEF TypeOK
  <2> QED BY <1>1, <2>2, <2>3, BatchLeavesOut
<1>6. \A w \in Workers : stage'[w][j] = "none"
  <2>1. ASSUME UNCHANGED stage PROVE \A w \in Workers : stage'[w][j] = "none"
    BY <2>1 DEF Blocked
  <2>2. ASSUME NEW w \in Workers, Work(w) \/ OnTick(w) \/ Disturb(w)
        PROVE  \A v \in Workers : stage'[v][j] = "none"
    <3>1. \A v \in Workers : stage[v][j] = "none"
      BY DEF Blocked
    <3>2. ~ItemStep(w, j)
      BY <3>1 DEF ItemStep, Parse, UpsertAsset, WriteParsed, Audit
    <3> QED BY <1>2, <1>5, <2>2, <3>1, <3>2, StageMoves
  <2> QED BY <2>1, <2>2 DEF Next, Ingest, EvidenceCommitted, vars
<1>7. ~parsed'[j]
  <2>1. ~parsed[j] /\ \A w \in Workers : stage[w][j] # "write"
    BY DEF Blocked
  <2>2. ASSUME NEW w \in Workers, NEW i \in Items, WriteParsed(w, i) PROVE ~parsed'[j]
    <3>1. i # j
      BY <2>1, <2>2 DEF WriteParsed
    <3> QED BY <1>2, <2>1, <2>2, <3>1, Zenon DEF WriteParsed, TypeOK
  <2>3. (\E w \in Workers, i \in Items : WriteParsed(w, i)) \/ UNCHANGED parsed
    <3>1. ASSUME Quiet PROVE UNCHANGED parsed
      BY <3>1 DEF Quiet, results
    <3>2. ASSUME NEW w \in Workers, NEW i \in Items, UpsertAsset(w, i) \/ Audit(w, i)
          PROVE  UNCHANGED parsed
      BY <3>2 DEF UpsertAsset, Audit
    <3>3. ASSUME NEW w \in Workers, Work(w) \/ OnTick(w) \/ Disturb(w)
          PROVE  (\E i \in Items : WriteParsed(w, i)) \/ UNCHANGED parsed
      BY <1>2, <3>1, <3>2, <3>3, ProcessQuiet DEF Work, ItemStep
    <3> QED BY <3>3 DEF Next, Ingest, EvidenceCommitted, results, vars
  <2> QED BY <2>1, <2>2, <2>3
<1>8. runOf'[j] \in Runs
  BY <1>2, <1>3
<1> QED BY <1>4, <1>6, <1>7, <1>8 DEF Blocked

\* Only what a parser can read is ever normalized.
THEOREM Readable == Spec => []StuckInv
<1>1. Init => StuckInv
  <2> SUFFICES ASSUME Init PROVE StuckInv
    OBVIOUS
  <2>1. Stuck \subseteq Items
    BY NormalizerAssumption DEF Stuck
  <2>2. \A i \in Items : parsed[i] = FALSE
    BY DEF Init
  <2>3. \A w \in Workers, i \in Items : stage[w][i] = "none"
    BY DEF Init
  <2> QED BY <2>1, <2>2, <2>3, InvInit, Zenon DEF StuckInv, StuckStays
<1> QED BY <1>1, StuckStep, PTL DEF Spec

\* For every limit and any number of workers: an item behind Limit older stuck items
\* of its run is never normalized, by no drain, restart or later upload. Nothing
\* marks an item a parser has refused, so the batch is always the same.
THEOREM Starvation == IsFiniteSet(Items) => (Spec => [][NeverReached]_vars)
<1> SUFFICES ASSUME IsFiniteSet(Items) PROVE Spec => [][NeverReached]_vars
  OBVIOUS
<1>1. StuckInv /\ StuckInv' /\ [Next]_vars => [NeverReached]_vars
  BY BlockedStep DEF NeverReached
<1> QED BY <1>1, Readable, PTL DEF Spec

----------------------------------------------------------------------------
(* A drain is bounded, and each of its steps brings it nearer its end.      *)

Busy(w) == {i \in Items : stage[w][i] # "none"}

\* A worker has at most a batch at hand, at most Concurrency items of it at work, and
\* only while it drains.
DrainBounded ==
  \A w \in Workers :
     /\ Cardinality(Busy(w)) <= Limit
     /\ Cardinality(InFlight(w)) <= Concurrency
     /\ ~Drained(w) => mode[w] \in {"startup", "drain"}

DrainInv == TypeOK /\ DrainBounded

\* How many statements of normalize_one the item still has before it.
StagesLeft(w, i) ==
  IF stage[w][i] = "queued" THEN 4
  ELSE IF stage[w][i] = "upsert" THEN 3
  ELSE IF stage[w][i] = "write" THEN 2
  ELSE IF stage[w][i] = "audit" THEN 1 ELSE 0

\* No step of anyone gives an item of a drain a statement back, and each step of the
\* item, be it a failure, takes one.
DrainDescends ==
  \A w \in Workers : ~Drained(w) => \A i \in Items :
     /\ StagesLeft(w, i)' <= StagesLeft(w, i)
     /\ ItemStep(w, i) \/ ItemFails(w, i) => StagesLeft(w, i)' < StagesLeft(w, i)

\* A drain that is not over has an item that need not wait for a slot.
DrainGoesOn ==
  \A w \in Workers : ~Drained(w) => \E i \in Busy(w) :
     stage[w][i] = "queued" => Cardinality(InFlight(w)) < Concurrency

\* What happens to a drain that is under way: it moves one item on or gives items up.
LEMMA DrainMoves ==
  ASSUME DrainInv, NEW w \in Workers, Work(w) \/ OnTick(w) \/ Disturb(w), ~Drained(w)
  PROVE  \/ UNCHANGED stage
         \/ \E i \in Items : ItemStep(w, i) \/ ItemFails(w, i)
         \/ Crash(w)
<1>1. mode[w] \in {"startup", "drain"}
  BY DEF DrainInv, DrainBounded
<1>2. ~Start(w) /\ ~OnTick(w) /\ ~Reconnect(w) /\ ~Receive(w) /\ \A r \in Runs : ~OnNotify(w, r)
  BY <1>1 DEF Start, OnTick, Reconnect, Receive, OnNotify
<1>3. Listen(w) \/ DrainEnds(w) \/ ConnectionLost(w) => UNCHANGED stage
  BY DEF Listen, DrainEnds, ConnectionLost
<1> QED BY <1>2, <1>3 DEF Work, Disturb

\* A step of an item takes one of its statements and touches no other item.
LEMMA ItemDescends ==
  ASSUME TypeOK, NEW w \in Workers, NEW i \in Items, ItemStep(w, i) \/ ItemFails(w, i)
  PROVE  /\ StagesLeft(w, i)' < StagesLeft(w, i)
         /\ \A v \in Workers, j \in Items : v # w \/ j # i => stage'[v][j] = stage[v][j]
<1>1. PICK s : /\ SetStage(w, i, s)
               /\ \/ stage[w][i] \in Stages \ {"none"} /\ s = "none"
                  \/ stage[w][i] = "queued" /\ s = "upsert"
                  \/ stage[w][i] = "upsert" /\ s = "write"
                  \/ stage[w][i] = "write" /\ s = "audit"
  <2>1. stage[w][i] \in Stages
    BY DEF TypeOK
  <2>2. ASSUME Parse(w, i)
        PROVE  stage[w][i] = "queued" /\ (SetStage(w, i, "none") \/ SetStage(w, i, "upsert"))
    BY <2>2 DEF Parse
  <2> QED BY <2>1, <2>2 DEF ItemStep, UpsertAsset, WriteParsed, Audit, ItemFails, Stages
<1>2. \A v \in Workers, j \in Items :
         stage'[v][j] = IF v = w /\ j = i THEN s ELSE stage[v][j]
  BY <1>1, StageOfOthers
<1>3. stage'[w][i] = s
  BY <1>2
<1> QED BY <1>1, <1>2, <1>3 DEF StagesLeft, Stages

\* Fewer items at hand and at work are within the bounds as well.
LEMMA FewerBounded ==
  ASSUME IsFiniteSet(Items), DrainInv, NEW w \in Workers,
         Busy(w)' \subseteq Busy(w), InFlight(w)' \subseteq InFlight(w)
  PROVE  Cardinality(Busy(w)') <= Limit /\ Cardinality(InFlight(w)') <= Concurrency
<1>1. IsFiniteSet(Busy(w)) /\ IsFiniteSet(InFlight(w))
  BY FS_Subset DEF Busy, InFlight
<1>2. /\ Cardinality(Busy(w)') <= Cardinality(Busy(w))
      /\ Cardinality(InFlight(w)') <= Cardinality(InFlight(w))
  BY <1>1, FS_Subset
<1>3. /\ Cardinality(Busy(w)) \in Nat /\ Cardinality(InFlight(w)) \in Nat
      /\ Cardinality(Busy(w)') \in Nat /\ Cardinality(InFlight(w)') \in Nat
  BY <1>1, FS_CardinalityType, FS_Subset
<1> QED BY <1>2, <1>3, NormalizerAssumption DEF DrainInv, DrainBounded

\* Every step keeps the bounds.
LEMMA DrainBoundedStep ==
  ASSUME IsFiniteSet(Items), DrainInv, [Next]_vars PROVE DrainInv'
<1>1. TypeOK /\ TypeOK'
  BY TypeStep DEF DrainInv
<1>2. ASSUME UNCHANGED <<mode, stage>> PROVE DrainBounded'
  BY <1>2 DEF DrainInv, DrainBounded, Busy, InFlight, Drained
<1>3. ASSUME NEW w \in Workers, Work(w) \/ OnTick(w) \/ Disturb(w) PROVE DrainBounded'
  <2>1. ASSUME NEW v \in Workers, \A i \in Items : stage'[v][i] \in {stage[v][i], "none"}
        PROVE  /\ Cardinality(Busy(v)') <= Limit
               /\ Cardinality(InFlight(v)') <= Concurrency
    BY <2>1, FewerBounded DEF Busy, InFlight
  <2>2. ASSUME NEW v \in Workers
        PROVE  /\ Cardinality(Busy(v)') <= Limit
               /\ Cardinality(InFlight(v)') <= Concurrency
    <3>1. ASSUME NEW R \in SUBSET Runs, NEW B \in Batches(R),
                 \A i \in Items : stage'[v][i] = IF i \in B THEN "queued" ELSE "none"
          PROVE  /\ Cardinality(Busy(v)') <= Limit
                 /\ Cardinality(InFlight(v)') <= Concurrency
      <4>1. Busy(v)' = B /\ InFlight(v)' = {}
        BY <3>1 DEF Busy, InFlight, Batches, Pending
      <4>2. Cardinality({}) = 0 /\ Cardinality(B) <= Limit
        BY FS_EmptySet DEF Batches
      <4> QED BY <4>1, <4>2, NormalizerAssumption
    <3>2. ASSUME NEW i \in Items, ItemStep(w, i), v = w
          PROVE  /\ Cardinality(Busy(v)') <= Limit
                 /\ Cardinality(InFlight(v)') <= Concurrency
      <4>1. \A j \in Items : j # i => stage'[v][j] = stage[v][j]
        BY <1>1, <3>2, ItemDescends
      <4>2. stage[v][i] # "none"
        BY <3>2 DEF ItemStep, Parse, UpsertAsset, WriteParsed, Audit
      <4>3. Busy(v)' \subseteq Busy(v)
        BY <4>1, <4>2 DEF Busy
      <4>4. CASE i \in InFlight(v)
        BY <4>1, <4>3, <4>4, FewerBounded DEF InFlight
      <4>5. CASE i \notin InFlight(v)
        <5>1. Cardinality(InFlight(v)) < Concurrency
          BY <3>2, <4>5 DEF ItemStep, Parse, UpsertAsset, WriteParsed, Audit, InFlight
        <5>2. InFlight(v)' \subseteq InFlight(v) \cup {i}
          BY <4>1 DEF InFlight
        <5>3. IsFiniteSet(InFlight(v)) /\ IsFiniteSet(InFlight(v) \cup {i}) /\ IsFiniteSet(Busy(v))
          BY FS_Subset DEF InFlight, Busy
        <5>4. /\ Cardinality(InFlight(v) \cup {i}) = Cardinality(InFlight(v)) + 1
              /\ Cardinality(InFlight(v)') <= Cardinality(InFlight(v) \cup {i})
              /\ Cardinality(Busy(v)') <= Cardinality(Busy(v))
          BY <4>3, <4>5, <5>2, <5>3, FS_AddElement, FS_Subset
        <5>5. /\ Cardinality(InFlight(v)) \in Nat /\ Cardinality(InFlight(v)') \in Nat
              /\ Cardinality(Busy(v)) \in Nat /\ Cardinality(Busy(v)') \in Nat
          BY <4>3, <5>2, <5>3, FS_Subset, FS_CardinalityType
        <5>6. Cardinality(Busy(v)) <= Limit
          BY DEF DrainInv, DrainBounded
        <5> QED BY <5>1, <5>4, <5>5, <5>6, NormalizerAssumption
      <4> QED BY <4>4, <4>5
    <3>3. ASSUME \A i \in Items : stage'[v][i] = stage[v][i]
          PROVE  /\ Cardinality(Busy(v)') <= Limit
                 /\ Cardinality(InFlight(v)') <= Concurrency
      BY <2>1, <3>3
    <3> QED BY <1>1, <1>3, <2>1, <3>1, <3>2, <3>3, StageMoves
  <2>3. ASSUME NEW v \in Workers, ~Drained(v)' PROVE mode'[v] \in {"startup", "drain"}
    <3>1. CASE v # w
      <4>1. mode'[v] = mode[v] /\ \A i \in Items : stage'[v][i] \in {stage[v][i], "none"}
        BY <1>1, <1>3, <3>1 DEF TypeOK, Work, Disturb, Start, Listen, DrainEnds, Reconnect,
           Receive, OnNotify, OnTick, Fetch, Crash, ConnectionLost, ItemStep, Parse,
           UpsertAsset, WriteParsed, Audit, ItemFails, SetStage, process
      <4> QED BY <2>3, <4>1 DEF Drained, DrainInv, DrainBounded
    <3>2. CASE v = w
      <4>1. CASE Drained(w)
        <5>1. \A i \in Items : ~ItemStep(w, i) /\ ~ItemFails(w, i)
          BY <4>1 DEF Drained, ItemStep, Parse, UpsertAsset, WriteParsed, Audit, ItemFails
        <5>2. ASSUME UNCHANGED stage PROVE FALSE
          BY <2>3, <3>2, <4>1, <5>2 DEF Drained
        <5>3. ~Listen(w) /\ ~DrainEnds(w) /\ ~Reconnect(w) /\ ~Receive(w) /\ ~ConnectionLost(w)
          BY <5>2 DEF Listen, DrainEnds, Reconnect, Receive, ConnectionLost
        <5>4. ~Crash(w)
          BY <1>1, <2>3, <3>2 DEF Crash, Drained, TypeOK
        <5>5. Start(w) \/ OnTick(w) \/ \E r \in Runs : OnNotify(w, r)
          BY <1>3, <5>1, <5>3, <5>4 DEF Work, Disturb
        <5> QED BY <1>1, <3>2, <5>5 DEF Start, OnTick, OnNotify, TypeOK
      <4>2. CASE ~Drained(w)
        <5>1. mode[w] \in {"startup", "drain"}
          BY <4>2 DEF DrainInv, DrainBounded
        <5>2. CASE UNCHANGED stage
          <6>1. ~Listen(w) /\ ~DrainEnds(w)
            BY <4>2 DEF Listen, DrainEnds
          <6>2. ~Start(w) /\ ~OnTick(w) /\ ~Reconnect(w) /\ ~Receive(w) /\ \A r \in Runs : ~OnNotify(w, r)
            BY <5>1 DEF Start, OnTick, Reconnect, Receive, OnNotify
          <6>3. ~Crash(w)
            BY <1>1, <2>3, <3>2 DEF Crash, Drained, TypeOK
          <6>4. UNCHANGED mode
            BY <1>3, <6>1, <6>2, <6>3 DEF Work, Disturb, ConnectionLost, ItemStep, Parse,
               UpsertAsset, WriteParsed, Audit, ItemFails, process
          <6> QED BY <3>2, <5>1, <6>4
        <5>3. ASSUME NEW i \in Items, ItemStep(w, i) \/ ItemFails(w, i) PROVE UNCHANGED mode
          BY <5>3 DEF ItemStep, Parse, UpsertAsset, WriteParsed, Audit, ItemFails, process
        <5>4. ~Crash(w)
          BY <1>1, <2>3, <3>2 DEF Crash, Drained, TypeOK
        <5> QED BY <1>3, <3>2, <4>2, <5>1, <5>2, <5>3, <5>4, DrainMoves
      <4> QED BY <4>1, <4>2
    <3> QED BY <3>1, <3>2
  <2> QED BY <2>2, <2>3 DEF DrainBounded
<1>4. CASE Ingest
  BY <1>1, <1>2, <1>4 DEF Ingest, EvidenceCommitted, DrainInv
<1>5. CASE UNCHANGED vars
  BY <1>1, <1>2, <1>5 DEF vars, process, DrainInv
<1> QED BY <1>1, <1>3, <1>4, <1>5 DEF Next, DrainInv

\* For every limit and any number of workers: no drain holds more than a batch, works
\* on more items at a time than it may, or outlives its turn of the loop.
THEOREM Bounded == IsFiniteSet(Items) => (Spec => []DrainInv)
<1> SUFFICES ASSUME IsFiniteSet(Items) PROVE Spec => []DrainInv
  OBVIOUS
<1>1. Init => DrainInv
  <2> SUFFICES ASSUME Init PROVE DrainInv
    OBVIOUS
  <2>1. \A w \in Workers : Drained(w) /\ Busy(w) = {} /\ InFlight(w) = {}
    BY DEF Init, Drained, Busy, InFlight
  <2>2. Cardinality({}) = 0
    BY FS_EmptySet
  <2> QED BY <2>1, <2>2, TypeInit, NormalizerAssumption DEF DrainInv, DrainBounded
<1>2. DrainInv /\ [Next]_vars => DrainInv'
  BY DrainBoundedStep
<1> QED BY <1>1, <1>2, PTL DEF Spec

\* A drain ends: each of its items has at most four statements before it, no step
\* gives one back, and some item can always take one. That the process is run, and
\* its statements return, is left to the runtime.
THEOREM DrainsDescend ==
  IsFiniteSet(Items) => (Spec => [][DrainDescends]_vars /\ []DrainGoesOn)
<1> SUFFICES ASSUME IsFiniteSet(Items) PROVE Spec => [][DrainDescends]_vars /\ []DrainGoesOn
  OBVIOUS
<1>1. DrainInv /\ [Next]_vars => [DrainDescends]_vars
  <2> SUFFICES ASSUME DrainInv, Next, NEW w \in Workers, ~Drained(w), NEW i \in Items
               PROVE  /\ StagesLeft(w, i)' <= StagesLeft(w, i)
                      /\ ItemStep(w, i) \/ ItemFails(w, i) => StagesLeft(w, i)' < StagesLeft(w, i)
    BY DEF DrainDescends
  <2>1. TypeOK /\ StagesLeft(w, i) \in Nat /\ StagesLeft(w, i)' \in Nat
    BY DEF DrainInv, StagesLeft
  <2>2. ItemStep(w, i) \/ ItemFails(w, i) => StagesLeft(w, i)' < StagesLeft(w, i)
    BY <2>1, ItemDescends
  <2>3. ASSUME stage'[w][i] \in {stage[w][i], "none"} PROVE StagesLeft(w, i)' <= StagesLeft(w, i)
    BY <2>3 DEF StagesLeft
  <2>4. ASSUME NEW v \in Workers, Work(v) \/ OnTick(v) \/ Disturb(v)
        PROVE  stage'[w][i] \in {stage[w][i], "none"} \/ ItemStep(w, i) \/ ItemFails(w, i)
    <3>1. CASE v # w
      BY <2>1, <2>4, <3>1 DEF TypeOK, Work, Disturb, Start, Listen, DrainEnds, Reconnect,
         Receive, OnNotify, OnTick, Fetch, Crash, ConnectionLost, ItemStep, Parse,
         UpsertAsset, WriteParsed, Audit, ItemFails, SetStage
    <3>2. CASE v = w
      <4>1. ASSUME NEW j \in Items, ItemStep(w, j) \/ ItemFails(w, j), j # i
            PROVE  stage'[w][i] = stage[w][i]
        BY <2>1, <4>1, ItemDescends
      <4>2. ASSUME Crash(w) PROVE stage'[w][i] = "none"
        BY <2>1, <4>2 DEF Crash, TypeOK
      <4> QED BY <2>4, <3>2, <4>1, <4>2, DrainMoves
    <3> QED BY <3>1, <3>2
  <2>5. ASSUME Ingest PROVE stage'[w][i] = stage[w][i]
    BY <2>5 DEF Ingest, EvidenceCommitted
  <2> QED BY <2>1, <2>2, <2>3, <2>4, <2>5 DEF Next
<1>2. DrainInv => DrainGoesOn
  <2> SUFFICES ASSUME DrainInv, NEW w \in Workers, ~Drained(w)
               PROVE  \E i \in Busy(w) :
                        stage[w][i] = "queued" => Cardinality(InFlight(w)) < Concurrency
    BY DEF DrainGoesOn
  <2>1. CASE InFlight(w) = {}
    <3>1. Cardinality(InFlight(w)) < Concurrency
      BY <2>1, FS_EmptySet, NormalizerAssumption
    <3> QED BY <3>1 DEF Drained, Busy
  <2>2. CASE InFlight(w) # {}
    BY <2>2 DEF InFlight, Busy
  <2> QED BY <2>1, <2>2
<1> QED BY <1>1, <1>2, Bounded, PTL DEF Spec
============================================================================
