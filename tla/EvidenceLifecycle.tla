-------------------------- MODULE EvidenceLifecycle --------------------------
(***************************************************************************)
(* What the services promise each other about a run and its evidence: the  *)
(* columns they share, as the tables show them, change in six ways and     *)
(* whoever changes them. A run is created; an upload's items appear in one *)
(* run, all at once, and move it to normalizing, as a repeated upload does *)
(* without an item; an asset is found in a run that has evidence of it and *)
(* stays there; an item is normalized once, after its asset exists; and a  *)
(* command moves the run on. Nothing else ever happens to these columns,   *)
(* whatever fails, is retried or runs twice.                               *)
(*                                                                         *)
(* EvidenceIngestion, NormalizerWorker, CollectionPipeline and             *)
(* DiscoveryOrchestrator each implement this specification. What is proved *)
(* here once, of the columns alone, they inherit: the proofs stand in this *)
(* module so that its instances have them.                                 *)
(***************************************************************************)
EXTENDS AuditSchema, TLAPS

CONSTANTS Uploads,   \* the sets of items that are uploaded together
          AssetFor   \* the asset an item's parser names, or NoAsset

VARIABLES status, runOf, parsed, assetOf, assetRun

columns == <<status, runOf, parsed, assetOf, assetRun>>

\* Before the first upload a run is at most created.
Fresh == {"absent", "collecting"}

Init ==
  /\ status \in [Runs -> Fresh]
  /\ runOf = [i \in Items |-> NoRun]
  /\ parsed = [i \in Items |-> FALSE]
  /\ assetOf = [i \in Items |-> NoAsset]
  /\ assetRun = [a \in Assets |-> NoRun]

Create(r) ==
  /\ status[r] = "absent"
  /\ status' = [status EXCEPT ![r] = "collecting"]
  /\ UNCHANGED <<runOf, parsed, assetOf, assetRun>>

\* The items S arrive in run r, which exists, and none of them was there before.
Arrive(r, S) ==
  /\ status[r] # "absent"
  /\ S # {} /\ \A i \in S : runOf[i] = NoRun
  /\ runOf' = [i \in Items |-> IF i \in S THEN r ELSE runOf[i]]
  /\ status' = [status EXCEPT ![r] = "normalizing"]
  /\ UNCHANGED <<parsed, assetOf, assetRun>>

\* An upload to run r none of whose items is new.
Repeat(r) ==
  /\ status[r] # "absent"
  /\ status' = [status EXCEPT ![r] = "normalizing"]
  /\ UNCHANGED <<runOf, parsed, assetOf, assetRun>>

\* The asset of item i is found, in the run of that item.
FindAsset(i) ==
  /\ runOf[i] # NoRun
  /\ AssetFor[i] \in Assets /\ assetRun[AssetFor[i]] = NoRun
  /\ assetRun' = [assetRun EXCEPT ![AssetFor[i]] = runOf[i]]
  /\ UNCHANGED <<status, runOf, parsed, assetOf>>

\* Item i is normalized: it takes its asset, which exists.
Normalize(i) ==
  /\ runOf[i] # NoRun /\ ~parsed[i]
  /\ parsed' = [parsed EXCEPT ![i] = TRUE]
  /\ \/ AssetFor[i] = NoAsset /\ UNCHANGED assetOf
     \/ /\ AssetFor[i] \in Assets /\ assetRun[AssetFor[i]] # NoRun
        /\ assetOf' = [assetOf EXCEPT ![i] = AssetFor[i]]
  /\ UNCHANGED <<status, runOf, assetRun>>

\* A command of the orchestrator overwrites the status of run r, whatever it was.
Command(r) ==
  /\ status[r] # "absent"
  /\ status' \in {[status EXCEPT ![r] = s] : s \in {"discovering", "reporting", "complete"}}
  /\ UNCHANGED <<runOf, parsed, assetOf, assetRun>>

\* What the ingestion API and the normalizer do.
Service ==
  \/ \E r \in Runs : Repeat(r) \/ \E S \in Uploads : Arrive(r, S)
  \/ \E i \in Items : FindAsset(i) \/ Normalize(i)

Next == Service \/ \E r \in Runs : Create(r) \/ Command(r)

Spec == Init /\ [][Next]_columns

----------------------------------------------------------------------------
\* The columns agree, whoever wrote them: evidence belongs to a run that has left
\* "collecting"; an item has the asset its parser names once it is normalized, none
\* before, and that asset's row exists; and an asset is filed under a run that has
\* evidence of it.
ColumnsAgree ==
  /\ \A i \in Items : runOf[i] # NoRun => runOf[i] \in Runs /\ status[runOf[i]] \notin Fresh
  /\ \A i \in Items : /\ parsed[i] => runOf[i] # NoRun
                      /\ assetOf[i] = IF parsed[i] THEN AssetFor[i] ELSE NoAsset
  /\ \A i \in Items : parsed[i] /\ AssetFor[i] # NoAsset => assetRun[AssetFor[i]] # NoRun
  /\ \A a \in Assets : assetRun[a] # NoRun =>
        \E i \in Items : AssetFor[i] = a /\ runOf[i] = assetRun[a]

\* A row keeps its run, a normalized item stays normalized with its asset, and a run
\* that exists, or has left "collecting", never returns.
Keeps ==
  /\ \A i \in Items : runOf[i] # NoRun => runOf'[i] = runOf[i]
  /\ \A i \in Items : parsed[i] => parsed'[i] /\ assetOf'[i] = assetOf[i]
  /\ \A a \in Assets : assetRun[a] # NoRun => assetRun'[a] = assetRun[a]
  /\ \A r \in Runs : /\ status[r] # "absent" => status'[r] # "absent"
                     /\ status[r] \notin Fresh => status'[r] \notin Fresh

\* Nothing is ever taken back.
NothingTakenBack == [][Keeps]_columns

----------------------------------------------------------------------------
(* Both laws hold, and whoever implements this specification inherits them. *)

LifecycleInv ==
  /\ status \in [Runs -> RunStatus]
  /\ runOf \in RunColumn(Items)
  /\ parsed \in [Items -> BOOLEAN]
  /\ assetOf \in AssetColumn(Items)
  /\ assetRun \in RunColumn(Assets)
  /\ ColumnsAgree

\* The status of one run is all that changes, and nothing is taken back.
LEMMA StatusStep ==
  ASSUME LifecycleInv, NEW r \in Runs, NEW s \in RunStatus, s # "absent",
         status' = [status EXCEPT ![r] = s], status[r] \notin Fresh => s \notin Fresh,
         UNCHANGED <<runOf, parsed, assetOf, assetRun>>
  PROVE  LifecycleInv' /\ Keeps
<1>1. status \in [Runs -> RunStatus] /\ status' \in [Runs -> RunStatus]
  BY DEF LifecycleInv
<1>2. \A q \in Runs : status'[q] = IF q = r THEN s ELSE status[q]
  BY <1>1
<1>3. Keeps
  BY <1>2, Zenon DEF Keeps
<1>4. ASSUME NEW i \in Items, runOf[i] # NoRun
      PROVE  runOf[i] \in Runs /\ status'[runOf[i]] \notin Fresh
  BY <1>2, <1>4 DEF LifecycleInv, ColumnsAgree
<1>5. ColumnsAgree'
  BY <1>4, Zenon DEF LifecycleInv, ColumnsAgree
<1> QED BY <1>1, <1>3, <1>5 DEF LifecycleInv

\* Items arrive in a run that exists, and none of them was there.
LEMMA ArriveStep ==
  ASSUME LifecycleInv, NEW r \in Runs, NEW S, Arrive(r, S) PROVE LifecycleInv' /\ Keeps
<1>1. /\ \A q \in Runs : status'[q] = IF q = r THEN "normalizing" ELSE status[q]
      /\ status' \in [Runs -> RunStatus] /\ runOf' \in RunColumn(Items)
  BY DEF LifecycleInv, Arrive, RunColumn, RunStatus
<1>2. /\ \A i \in Items : runOf'[i] = IF i \in S THEN r ELSE runOf[i]
      /\ \A i \in S : runOf[i] = NoRun
      /\ UNCHANGED <<parsed, assetOf, assetRun>> /\ status[r] # "absent" /\ r # NoRun
  BY SchemaAssumption DEF Arrive
<1>3. \A i \in Items : runOf[i] # NoRun => runOf'[i] = runOf[i]
  BY <1>2
<1>4. Keeps
  BY <1>1, <1>2, <1>3, Zenon DEF Keeps, Fresh
<1>5. ASSUME NEW i \in Items, runOf'[i] # NoRun
      PROVE  runOf'[i] \in Runs /\ status'[runOf'[i]] \notin Fresh
  BY <1>1, <1>2, <1>5 DEF LifecycleInv, ColumnsAgree, Fresh
<1>6. ASSUME NEW a \in Assets, assetRun[a] # NoRun
      PROVE  \E i \in Items : AssetFor[i] = a /\ runOf'[i] = assetRun[a]
  BY <1>3, <1>6 DEF LifecycleInv, ColumnsAgree
<1>7. \A i \in Items : parsed[i] => runOf'[i] # NoRun
  BY <1>3, Zenon DEF LifecycleInv, ColumnsAgree
<1>8. ColumnsAgree'
  BY <1>2, <1>5, <1>6, <1>7, Zenon DEF LifecycleInv, ColumnsAgree
<1> QED BY <1>1, <1>2, <1>4, <1>8 DEF LifecycleInv

\* An asset is found in the run of its item.
LEMMA FindStep ==
  ASSUME LifecycleInv, NEW i \in Items, FindAsset(i) PROVE LifecycleInv' /\ Keeps
<1>1. /\ \A a \in Assets : assetRun'[a] = IF a = AssetFor[i] THEN runOf[i] ELSE assetRun[a]
      /\ assetRun' \in RunColumn(Assets)
  BY DEF LifecycleInv, FindAsset, RunColumn
<1>2. /\ runOf[i] # NoRun /\ AssetFor[i] \in Assets /\ assetRun[AssetFor[i]] = NoRun
      /\ UNCHANGED <<status, runOf, parsed, assetOf>>
  BY DEF FindAsset
<1>3. Keeps
  BY <1>1, <1>2, Zenon DEF Keeps
<1>4. ASSUME NEW j \in Items, parsed[j], AssetFor[j] # NoAsset
      PROVE  AssetFor[j] \in Assets /\ assetRun'[AssetFor[j]] # NoRun
  <2>1. assetOf[j] = AssetFor[j] /\ assetRun[AssetFor[j]] # NoRun
    BY <1>4 DEF LifecycleInv, ColumnsAgree
  <2>2. AssetFor[j] \in Assets
    BY <1>4, <2>1 DEF LifecycleInv, AssetColumn
  <2> QED BY <1>1, <1>2, <2>1, <2>2
<1>5. ASSUME NEW a \in Assets, assetRun'[a] # NoRun
      PROVE  \E j \in Items : AssetFor[j] = a /\ runOf[j] = assetRun'[a]
  BY <1>1, <1>2, <1>5 DEF LifecycleInv, ColumnsAgree
<1>6. ColumnsAgree'
  BY <1>2, <1>4, <1>5, Zenon DEF LifecycleInv, ColumnsAgree
<1> QED BY <1>1, <1>2, <1>3, <1>6 DEF LifecycleInv

\* An item takes its asset, which exists.
LEMMA NormalizeStep ==
  ASSUME LifecycleInv, NEW i \in Items, Normalize(i) PROVE LifecycleInv' /\ Keeps
<1>1. /\ runOf[i] # NoRun /\ ~parsed[i] /\ UNCHANGED <<status, runOf, assetRun>>
      /\ parsed' = [parsed EXCEPT ![i] = TRUE]
  BY DEF Normalize
<1>2. parsed' \in [Items -> BOOLEAN] /\ \A j \in Items : parsed'[j] <=> j = i \/ parsed[j]
  BY <1>1, Zenon DEF LifecycleInv
<1>3. assetOf[i] = NoAsset
  BY <1>1 DEF LifecycleInv, ColumnsAgree
<1>4. /\ \A j \in Items : assetOf'[j] = IF j = i THEN AssetFor[i] ELSE assetOf[j]
      /\ assetOf' \in AssetColumn(Items)
      /\ AssetFor[i] # NoAsset => assetRun[AssetFor[i]] # NoRun
  BY <1>3 DEF LifecycleInv, Normalize, AssetColumn
<1>5. Keeps
  BY <1>1, <1>2, <1>4, Zenon DEF Keeps
<1>6. ColumnsAgree'
  BY <1>1, <1>2, <1>4, Zenon DEF LifecycleInv, ColumnsAgree
<1> QED BY <1>1, <1>2, <1>4, <1>5, <1>6 DEF LifecycleInv

\* Every step keeps the invariant and takes nothing back.
LEMMA LifecycleStep ==
  ASSUME LifecycleInv, [Next]_columns PROVE LifecycleInv' /\ [Keeps]_columns
<1>1. ASSUME NEW r \in Runs, Repeat(r) \/ Create(r) \/ Command(r) PROVE LifecycleInv' /\ Keeps
  <2>1. PICK s \in RunStatus \ {"absent"} :
           /\ status' = [status EXCEPT ![r] = s]
           /\ status[r] \notin Fresh => s \notin Fresh
    BY <1>1 DEF Repeat, Create, Command, RunStatus, Fresh
  <2>2. UNCHANGED <<runOf, parsed, assetOf, assetRun>>
    BY <1>1 DEF Repeat, Create, Command
  <2> QED BY <2>1, <2>2, StatusStep
<1>2. ASSUME UNCHANGED columns PROVE LifecycleInv'
  BY <1>2 DEF columns, LifecycleInv, ColumnsAgree
<1> QED BY <1>1, <1>2, ArriveStep, FindStep, NormalizeStep DEF Next, Service

\* The empty tables.
LEMMA LifecycleStart == Init => LifecycleInv
<1> SUFFICES ASSUME Init PROVE LifecycleInv
  OBVIOUS
<1>1. \A i \in Items : parsed[i] = FALSE
  BY DEF Init
<1>2. ColumnsAgree
  BY <1>1, Zenon DEF Init, ColumnsAgree
<1> QED BY <1>2, SchemaAssumption DEF Init, LifecycleInv, RunColumn, AssetColumn, RunStatus, Fresh

\* For any runs, items and assets, and whoever writes the columns: they agree.
THEOREM Agree == Spec => []ColumnsAgree
<1>1. LifecycleInv /\ [Next]_columns => LifecycleInv'
  BY LifecycleStep
<1>2. LifecycleInv => ColumnsAgree
  BY DEF LifecycleInv
<1> QED BY <1>1, <1>2, LifecycleStart, PTL DEF Spec

\* And whoever writes them, nothing is taken back.
THEOREM Permanent == Spec => NothingTakenBack
<1>1. LifecycleInv /\ [Next]_columns => LifecycleInv' /\ [Keeps]_columns
  BY LifecycleStep
<1> QED BY <1>1, LifecycleStart, PTL DEF Spec, NothingTakenBack
=============================================================================
