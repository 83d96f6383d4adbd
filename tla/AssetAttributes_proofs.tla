----------------------- MODULE AssetAttributes_proofs -----------------------
(***************************************************************************)
(* Proof that no attribute is lost or invented, for any number of workers, *)
(* items and keys and whatever repeats and fails.                          *)
(***************************************************************************)
EXTENDS AssetAttributes, NormalizerWorker_proofs

\* Every step is one of the normalizer.
THEOREM AttributesRun == AttributesSpec => Spec
<1>1. AttributesInit => Init
  BY DEF AttributesInit
<1>2. [AttributesNext]_<<vars, attributes>> => [Next]_vars
  BY DEF AttributesNext
<1> QED BY <1>1, <1>2, PTL DEF AttributesSpec, Spec

\* What a step of the normalizer does to rows and items: evidence stays in its run,
\* an item reaches its write through its upsert, its audit through its write, and
\* is parsed by its write. At most one item is upserted.
Moves ==
  /\ \A i \in Items : runOf[i] # NoRun => runOf'[i] # NoRun
  /\ \A w \in Workers, i \in Items :
       /\ stage'[w][i] = "write" => stage[w][i] \in {"upsert", "write"}
       /\ stage'[w][i] = "audit" => stage[w][i] \in {"write", "audit"}
  /\ \A i \in Items : parsed'[i] => parsed[i] \/ \E w \in Workers : stage[w][i] = "write"
  /\ \A i, j \in Upserted : i = j

\* Every step moves items along.
LEMMA StepMoves == ASSUME IInv, [Next]_vars PROVE Moves
<1>1. TypeOK
  BY DEF IInv
<1>2. ASSUME Quiet PROVE Moves
  BY <1>2 DEF Quiet, evidence, results, Moves, Upserted
<1>3. CASE Ingest
  <2>1. PICK r \in Runs, S \in SUBSET Items, t \in 0..MaxStamp : EvidenceCommitted(r, S, t)
    BY <1>3 DEF Ingest
  <2>2. UNCHANGED <<stage, parsed>> /\ \A i \in Items : runOf[i] # NoRun => runOf'[i] # NoRun
    BY <2>1 DEF EvidenceCommitted, results
  <2> QED BY <2>2 DEF Moves, Upserted
<1>4. ASSUME NEW w \in Workers, NEW i \in Items, NEW s \in {"write", "audit", "none"},
             SetStage(w, i, s), UNCHANGED runOf,
             s = "write" => stage[w][i] = "upsert", s = "audit" => stage[w][i] = "write",
             \A j \in Items : parsed'[j] => parsed[j] \/ \E v \in Workers : stage[v][j] = "write"
      PROVE  Moves
  <2>1. \A v \in Workers, j \in Items :
           stage'[v][j] = IF v = w /\ j = i THEN s ELSE stage[v][j]
    BY <1>1, <1>4, StageOfOthers
  <2> QED BY <1>4, <2>1 DEF Moves, Upserted
<1>5. ASSUME NEW w \in Workers, NEW i \in Items, UpsertAsset(w, i) PROVE Moves
  <2>1. SetStage(w, i, "write") /\ stage[w][i] = "upsert" /\ UNCHANGED <<runOf, parsed>>
    BY <1>5 DEF UpsertAsset, evidence
  <2> QED BY <1>4, <2>1
<1>6. ASSUME NEW w \in Workers, NEW i \in Items, WriteParsed(w, i) PROVE Moves
  <2>1. SetStage(w, i, "audit") /\ stage[w][i] = "write" /\ UNCHANGED runOf
    BY <1>6 DEF WriteParsed, evidence
  <2>2. \A j \in Items : parsed'[j] => parsed[j] \/ j = i
    BY <1>1, <1>6, Zenon DEF WriteParsed, TypeOK
  <2> QED BY <1>4, <2>1, <2>2
<1>7. ASSUME NEW w \in Workers, NEW i \in Items, Audit(w, i) PROVE Moves
  <2>1. SetStage(w, i, "none") /\ UNCHANGED <<runOf, parsed>>
    BY <1>7 DEF Audit, evidence
  <2> QED BY <1>4, <2>1
<1>8. ASSUME NEW w \in Workers, Work(w) \/ OnTick(w) \/ Disturb(w) PROVE Moves
  BY <1>1, <1>2, <1>5, <1>6, <1>7, <1>8, ProcessQuiet DEF Work, ItemStep
<1>9. CASE UNCHANGED vars
  BY <1>9 DEF vars, evidence, results, Moves, Upserted
<1> QED BY <1>3, <1>8, <1>9 DEF Next

----------------------------------------------------------------------------
\* The keys of item i are in its asset's document.
Given(i) == \A k \in Keys : AssetFor[i] # NoAsset /\ Hint[i][k] # Absent =>
                              attributes[AssetFor[i]][k] # Absent

\* An item on its way to its write or its audit has given its keys.
AttributesInv ==
  /\ IInv
  /\ attributes \in [Assets -> [Keys -> Values \cup {Absent}]]
  /\ \A w \in Workers, i \in Items : stage[w][i] \in {"write", "audit"} => Given(i)
  /\ \A i \in Items : parsed[i] => Given(i)
  /\ AttributesOfEvidence

\* A merge keeps every key of both documents, with a value of one of them.
LEMMA MergeKeeps ==
  ASSUME NEW old \in [Keys -> Values \cup {Absent}], NEW new \in [Keys -> Values \cup {Absent}]
  PROVE  /\ Merge(old, new) \in [Keys -> Values \cup {Absent}]
         /\ \A k \in Keys : /\ old[k] # Absent \/ new[k] # Absent => Merge(old, new)[k] # Absent
                            /\ Merge(old, new)[k] \in {old[k], new[k]}
BY DEF Merge

\* Every step keeps the invariant.
LEMMA AttributesStep == ASSUME AttributesInv, [AttributesNext]_<<vars, attributes>> PROVE AttributesInv'
<1>1. [Next]_vars
  BY DEF AttributesNext
<1>2. IInv /\ IInv' /\ Moves
  BY <1>1, InvStep, StepMoves DEF AttributesInv
<1> DEFINE Keeps == \A a \in Assets, k \in Keys : attributes[a][k] # Absent => attributes'[a][k] # Absent
<1> DEFINE Sourced == \A a \in Assets, k \in Keys :
      \/ attributes'[a][k] = attributes[a][k]
      \/ \E i \in Items : AssetFor[i] = a /\ runOf[i] # NoRun /\ Hint[i][k] = attributes'[a][k]
<1>3. \A i \in Items : AssetFor[i] # NoAsset => AssetFor[i] \in Assets
  BY NormalizerAssumption DEF AssetColumn
<1>4. /\ Keeps /\ Sourced
      /\ attributes' \in [Assets -> [Keys -> Values \cup {Absent}]]
      /\ \A i \in Upserted : Given(i)'
  <2>1. ASSUME UNCHANGED attributes, Upserted = {}
        PROVE  /\ Keeps /\ Sourced
               /\ attributes' \in [Assets -> [Keys -> Values \cup {Absent}]]
               /\ \A i \in Upserted : Given(i)'
    BY <2>1 DEF AttributesInv
  <2>2. ASSUME NEW i \in Upserted, attributes' = [a \in Assets |->
                 IF a = AssetFor[i] THEN Merge(attributes[a], Hint[i]) ELSE attributes[a]]
        PROVE  /\ Keeps /\ Sourced
               /\ attributes' \in [Assets -> [Keys -> Values \cup {Absent}]]
               /\ Given(i)'
    <3>1. i \in Items /\ Hint[i] \in [Keys -> Values \cup {Absent}] /\ runOf[i] # NoRun
      BY <1>2, AttributesAssumption, SchemaAssumption DEF Upserted, IInv, DrainKnows
    <3>2. \A a \in Assets : attributes[a] \in [Keys -> Values \cup {Absent}]
      BY DEF AttributesInv
    <3>3. Keeps
      BY <2>2, <3>1, <3>2, MergeKeeps
    <3>4. Sourced
      <4> SUFFICES ASSUME NEW a \in Assets, NEW k \in Keys
                   PROVE  \/ attributes'[a][k] = attributes[a][k]
                          \/ AssetFor[i] = a /\ attributes'[a][k] = Hint[i][k]
        BY <3>1
      <4> QED BY <2>2, <3>1, <3>2, MergeKeeps
    <3>5. attributes' \in [Assets -> [Keys -> Values \cup {Absent}]]
      BY <2>2, <3>1, <3>2, MergeKeeps
    <3>6. Given(i)'
      BY <1>3, <2>2, <3>1, <3>2, MergeKeeps DEF Given
    <3> QED BY <3>3, <3>4, <3>5, <3>6
  <2>3. UNCHANGED <<vars, attributes>> => UNCHANGED attributes /\ Upserted = {}
    BY DEF vars, Upserted
  <2>4. \/ UNCHANGED attributes /\ Upserted = {}
        \/ \E i \in Upserted : attributes' = [a \in Assets |->
              IF a = AssetFor[i] THEN Merge(attributes[a], Hint[i]) ELSE attributes[a]]
    BY <2>3 DEF AttributesNext
  <2>5. \A i, j \in Upserted : i = j
    BY <1>2 DEF Moves
  <2> QED BY <2>1, <2>2, <2>4, <2>5
<1>5. \A i \in Items : Given(i) => Given(i)'
  BY <1>3, <1>4 DEF Given
<1>6. \A w \in Workers, i \in Items : stage'[w][i] \in {"write", "audit"} => Given(i)'
  <2> SUFFICES ASSUME NEW w \in Workers, NEW i \in Items, stage'[w][i] \in {"write", "audit"}
               PROVE  Given(i)'
    OBVIOUS
  <2>1. CASE stage[w][i] \in {"write", "audit"}
    BY <1>5, <2>1 DEF AttributesInv
  <2>2. CASE ~(stage[w][i] \in {"write", "audit"})
    <3>1. stage[w][i] = "upsert" /\ stage'[w][i] = "write"
      BY <1>2, <2>2 DEF Moves
    <3> QED BY <1>4, <3>1 DEF Upserted
  <2> QED BY <2>1, <2>2
<1>7. \A i \in Items : parsed'[i] => Given(i)'
  <2> SUFFICES ASSUME NEW i \in Items, parsed'[i] PROVE Given(i)
    BY <1>5
  <2> QED BY <1>2 DEF Moves, AttributesInv
<1>8. AttributesOfEvidence'
  <2>1. ASSUME NEW i \in Items, NEW k \in Keys,
               parsed'[i], AssetFor[i] # NoAsset, Hint[i][k] # Absent
        PROVE  attributes'[AssetFor[i]][k] # Absent
    BY <1>7, <2>1 DEF Given
  <2>2. ASSUME NEW a \in Assets, NEW k \in Keys, attributes'[a][k] # Absent
        PROVE  \E i \in Items :
                 AssetFor[i] = a /\ runOf'[i] # NoRun /\ Hint[i][k] = attributes'[a][k]
    <3>1. CASE attributes'[a][k] = attributes[a][k]
      BY <1>2, <2>2, <3>1 DEF AttributesInv, AttributesOfEvidence, Moves
    <3>2. CASE attributes'[a][k] # attributes[a][k]
      BY <1>2, <1>4, <3>2 DEF Moves
    <3> QED BY <3>1, <3>2
  <2> QED BY <2>1, <2>2 DEF AttributesOfEvidence
<1> QED BY <1>2, <1>4, <1>6, <1>7, <1>8 DEF AttributesInv

\* The empty documents of no evidence keep it.
LEMMA AttributesStart == AttributesInit => AttributesInv
<1> SUFFICES ASSUME AttributesInit PROVE AttributesInv
  OBVIOUS
<1>1. IInv
  BY InvInit DEF AttributesInit
<1>2. /\ \A w \in Workers, i \in Items : stage[w][i] = "none"
      /\ \A i \in Items : ~parsed[i]
      /\ \A a \in Assets, k \in Keys : attributes[a][k] = Absent
      /\ attributes \in [Assets -> [Keys -> Values \cup {Absent}]]
  BY DEF AttributesInit, Init
<1> QED BY <1>1, <1>2 DEF AttributesInv, AttributesOfEvidence

\* No attribute of a normalized item is lost, and none is without evidence.
THEOREM AttributesKept == AttributesSpec => []AttributesOfEvidence
<1>1. AttributesInv => AttributesOfEvidence
  BY DEF AttributesInv
<1> QED BY <1>1, AttributesStart, AttributesStep, PTL DEF AttributesSpec
=============================================================================
