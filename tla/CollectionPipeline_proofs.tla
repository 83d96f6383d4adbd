---------------------- MODULE CollectionPipeline_proofs ----------------------
(***************************************************************************)
(* Proofs about the pipeline for any collectors, tools, allowlist and      *)
(* workers, and whatever fails, is lost or is never answered.              *)
(***************************************************************************)
EXTENDS CollectionPipeline, NormalizerWorker_proofs

\* The items that have arrived in the run of collector c.
Arrived(c) == {i \in Items : runOf[i] = target[c]}

\* A tool is still to be run, is missing, or has an item: exactly one of them.
Accounted(c) ==
  \A t \in asked[c] : LET captured == {i \in items[c] : ToolOf[i] = t} IN
     IF t \in toRun[c] THEN t \notin missing[c] /\ captured = {}
     ELSE t \in missing[c] <=> captured = {}

\* Where a collector is in its life tells what it has and what it has sent.
Progress(c) ==
  /\ toRun[c] # {} => step[c] = "collect"
  /\ step[c] \in {"idle", "collect", "create"} => post[c] = "none" /\ target[c] = NoRun
  /\ step[c] = "idle" => items[c] = {} /\ missing[c] = {}
  /\ step[c] = "upload" => post[c] = "none" /\ target[c] # NoRun
  /\ step[c] = "waiting" => post[c] # "none"
  /\ step[c] = "ok" => post[c] = "stored"
  /\ post[c] # "none" => target[c] # NoRun

\* What has arrived is the collector's bundle if it is stored, and else nothing.
Delivered(c) ==
  target[c] # NoRun =>
     /\ status[target[c]] # "absent"
     /\ Arrived(c) = (IF post[c] = "stored" THEN items[c] ELSE {})

\* The inductive invariant. No two collectors create the same run.
PInv ==
  /\ PipelineTypeOK /\ StatusTellsArrival
  /\ \A c \in Collectors : Accounted(c) /\ Progress(c) /\ Delivered(c)
  /\ \A c, d \in Collectors : target[c] = target[d] /\ target[c] # NoRun => c = d

\* The invariant gives the properties of the run.
LEMMA PInvImplies == PInv => PostedIsComplete /\ UploadedOnce
BY DEF PInv, PostedIsComplete, UploadedOnce, Accounted, Progress, Delivered, Arrived

\* The empty system.
LEMMA PInvStart == PipelineInit => PInv
<1> SUFFICES ASSUME PipelineInit PROVE PInv
  OBVIOUS
<1>1. TypeOK
  BY TypeInit DEF PipelineInit
<1>2. PipelineTypeOK
  BY <1>1, SchemaAssumption DEF PipelineInit, PipelineTypeOK, CollectorSteps, RunStatus
<1>3. StatusTellsArrival
  BY SchemaAssumption DEF PipelineInit, Init, StatusTellsArrival
<1> QED BY <1>2, <1>3 DEF PipelineInit, PInv, Accounted, Progress, Delivered, Arrived

----------------------------------------------------------------------------
\* Collector d has kept all its fields.
Same(d) ==
  /\ step'[d] = step[d] /\ asked'[d] = asked[d] /\ toRun'[d] = toRun[d]
  /\ missing'[d] = missing[d] /\ items'[d] = items[d]
  /\ target'[d] = target[d] /\ post'[d] = post[d]

\* A collector that keeps its fields keeps its part of the invariant, if its run
\* stays created and nothing arrives in it.
LEMMA SameKeeps ==
  ASSUME NEW d \in Collectors, Accounted(d), Progress(d), Delivered(d), Same(d),
         target[d] # NoRun => status'[target[d]] # "absent" /\ Arrived(d)' = Arrived(d)
  PROVE  Accounted(d)' /\ Progress(d)' /\ Delivered(d)'
<1>1. Accounted(d)' /\ Progress(d)'
  BY DEF Same, Accounted, Progress
<1>2. Delivered(d)'
  BY DEF Same, Delivered
<1> QED BY <1>1, <1>2

\* A step that leaves the server alone keeps the invariant if it keeps that of the
\* collector whose step it is, which changes its items only before it sends them.
LEMMA ClientStep ==
  ASSUME PInv, PipelineTypeOK', NEW c \in Collectors, UNCHANGED <<runOf, server>>,
         \A d \in Collectors \ {c} : Same(d), Accounted(c)', Progress(c)',
         post[c] # "none" => items'[c] = items[c]
  PROVE  PInv'
<1> USE DEF PInv, server
<1>1. \A d \in Collectors : Arrived(d)' = Arrived(d)
  BY DEF Arrived
<1>2. ASSUME NEW d \in Collectors PROVE Accounted(d)' /\ Progress(d)' /\ Delivered(d)'
  <2>1. CASE d # c
    BY <1>1, <2>1, SameKeeps DEF Delivered
  <2>2. CASE d = c
    <3>1. Delivered(c)'
      BY <1>1 DEF Delivered
    <3> QED BY <2>2, <3>1
  <2> QED BY <2>1, <2>2
<1>3. StatusTellsArrival'
  BY DEF StatusTellsArrival
<1> QED BY <1>2, <1>3

\* A collector ends with nothing to run, and forgets what it has not sent.
LEMMA EndsKeeps ==
  ASSUME PInv, NEW c \in Collectors, NEW s \in {"ok", "written", "failed"}, Ends(c, s),
         UNCHANGED <<vars, server>>, s = "ok" => post[c] = "stored"
  PROVE  PInv'
<1> USE DEF PInv, server
<1>1. /\ step \in [Collectors -> CollectorSteps] /\ asked \in [Collectors -> SUBSET Allowlist]
      /\ toRun \in [Collectors -> SUBSET Allowlist]
      /\ missing \in [Collectors -> SUBSET Allowlist] /\ items \in [Collectors -> SUBSET Items]
  BY DEF PipelineTypeOK
<1>2. step'[c] = s /\ toRun'[c] = {} /\ \A d \in Collectors \ {c} : Same(d)
  BY <1>1 DEF Ends, Goto, Same
<1>3. \/ asked'[c] = asked[c] /\ missing'[c] = missing[c] /\ items'[c] = items[c]
      \/ post[c] = "none" /\ asked'[c] = {}
  BY <1>1 DEF Ends
<1>4. post[c] # "none" => items'[c] = items[c] /\ toRun[c] = {}
  BY <1>1 DEF Ends, Progress
<1>5. Accounted(c)'
  <2>1. CASE post[c] # "none"
    BY <1>1, <1>2, <1>4, <2>1 DEF Ends, Accounted
  <2>2. CASE post[c] = "none"
    BY <1>1, <2>2 DEF Ends, Accounted
  <2> QED BY <2>1, <2>2
<1>6. Progress(c)'
  BY <1>2 DEF Progress
<1>7. PipelineTypeOK'
  <2>1. TypeOK'
    BY TypeStep DEF PipelineTypeOK
  <2> QED BY <1>1, <2>1 DEF PipelineTypeOK, Ends, Goto, CollectorSteps
<1>8. UNCHANGED runOf
  BY DEF vars, evidence
<1> QED BY <1>2, <1>4, <1>5, <1>6, <1>7, <1>8, ClientStep

\* Every step of a collector that leaves the server alone keeps the invariant.
LEMMA CollectorKeeps ==
  ASSUME PInv, NEW c \in Collectors,
         \/ \E T \in SUBSET Tools : StartCollector(c, T)
         \/ \E t \in Tools : \/ ToolMissing(c, t) \/ ToolError(c, t)
                             \/ \E i \in Items : ToolCaptured(c, t, i)
         \/ BuildBundle(c) \/ UploadEnds(c) \/ CollectorFails(c)
  PROVE  PInv'
<1> USE DEF PInv
<1>1. /\ step \in [Collectors -> CollectorSteps] /\ asked \in [Collectors -> SUBSET Allowlist]
      /\ toRun \in [Collectors -> SUBSET Allowlist]
      /\ missing \in [Collectors -> SUBSET Allowlist] /\ items \in [Collectors -> SUBSET Items]
  BY DEF PipelineTypeOK
<1>2. Accounted(c) /\ Progress(c)
  OBVIOUS
<1>3. ASSUME UNCHANGED <<vars, server>>, step' \in [Collectors -> CollectorSteps],
             asked' \in [Collectors -> SUBSET Allowlist],
             toRun' \in [Collectors -> SUBSET Allowlist],
             missing' \in [Collectors -> SUBSET Allowlist],
             items' \in [Collectors -> SUBSET Items]
      PROVE  PipelineTypeOK' /\ UNCHANGED <<runOf, server>>
  <2>1. TypeOK'
    BY <1>3, TypeStep DEF PipelineTypeOK
  <2> QED BY <1>3, <2>1 DEF PipelineTypeOK, server, vars, evidence
<1>4. ASSUME NEW T \in SUBSET Tools, StartCollector(c, T) PROVE PInv'
  <2> DEFINE s == IF Selected(T) = {} THEN "failed" ELSE "collect"
  <2>1. s \in CollectorSteps /\ Selected(T) \in SUBSET Allowlist
    BY DEF CollectorSteps, Selected
  <2>2. /\ step[c] = "idle" /\ step' = [step EXCEPT ![c] = s]
        /\ asked' = [asked EXCEPT ![c] = Selected(T)]
        /\ toRun' = [toRun EXCEPT ![c] = Selected(T)]
        /\ UNCHANGED <<vars, missing, items, server>>
    BY <1>4 DEF StartCollector, Goto
  <2>3. s = "collect" \/ (s = "failed" /\ Selected(T) = {})
    OBVIOUS
  <2> HIDE DEF s
  <2>4. PipelineTypeOK' /\ UNCHANGED <<runOf, server>>
    BY <1>1, <1>3, <2>1, <2>2
  <2>5. \A d \in Collectors \ {c} : Same(d)
    BY <1>1, <2>2 DEF Same, server
  <2>6. Accounted(c)'
    BY <1>1, <1>2, <2>2 DEF Accounted, Progress
  <2>7. Progress(c)'
    BY <1>1, <1>2, <2>2, <2>3 DEF Progress, server
  <2> QED BY <2>2, <2>4, <2>5, <2>6, <2>7, ClientStep
<1>5. ASSUME NEW t \in Tools, NEW i \in Items, ToolCaptured(c, t, i) PROVE PInv'
  <2>1. /\ step[c] = "collect" /\ t \in toRun[c] /\ ToolOf[i] = t
        /\ items' = [items EXCEPT ![c] = @ \cup {i}]
        /\ toRun' = [toRun EXCEPT ![c] = @ \ {t}]
        /\ UNCHANGED <<vars, step, asked, missing, server>>
    BY <1>5 DEF ToolCaptured
  <2>2. PipelineTypeOK' /\ UNCHANGED <<runOf, server>>
    BY <1>1, <1>3, <2>1
  <2>3. \A d \in Collectors \ {c} : Same(d)
    BY <1>1, <2>1 DEF Same, server
  <2>4. Accounted(c)'
    BY <1>1, <1>2, <2>1 DEF Accounted
  <2>5. Progress(c)'
    BY <1>1, <1>2, <2>1 DEF Progress, server
  <2>6. post[c] = "none"
    BY <1>2, <2>1 DEF Progress
  <2> QED BY <2>2, <2>3, <2>4, <2>5, <2>6, ClientStep
<1>6. ASSUME NEW t \in Tools, ToolMissing(c, t) PROVE PInv'
  <2>1. /\ step[c] = "collect" /\ t \in toRun[c]
        /\ missing' = [missing EXCEPT ![c] = @ \cup {t}]
        /\ toRun' = [toRun EXCEPT ![c] = @ \ {t}]
        /\ UNCHANGED <<vars, step, asked, items, server>>
    BY <1>6 DEF ToolMissing
  <2>2. PipelineTypeOK' /\ UNCHANGED <<runOf, server>>
    BY <1>1, <1>3, <2>1
  <2>3. \A d \in Collectors \ {c} : Same(d)
    BY <1>1, <2>1 DEF Same, server
  <2>4. Accounted(c)'
    BY <1>1, <1>2, <2>1 DEF Accounted
  <2>5. Progress(c)'
    BY <1>1, <1>2, <2>1 DEF Progress, server
  <2> QED BY <2>1, <2>2, <2>3, <2>4, <2>5, ClientStep
<1>7. ASSUME NEW t \in Tools, ToolError(c, t) PROVE PInv'
  BY <1>7, EndsKeeps DEF ToolError
<1>8. CASE BuildBundle(c)
  <2>1. ASSUME Goto(c, "create"), step[c] = "collect", toRun[c] = {},
               UNCHANGED <<vars, server, asked, toRun, missing, items>>
        PROVE  PInv'
    <3>1. PipelineTypeOK' /\ UNCHANGED <<runOf, server>>
      BY <1>1, <1>3, <2>1 DEF Goto, CollectorSteps
    <3>2. \A d \in Collectors \ {c} : Same(d)
      BY <1>1, <2>1 DEF Same, server, Goto
    <3>3. Accounted(c)'
      BY <1>2, <2>1 DEF Accounted
    <3>4. Progress(c)'
      BY <1>1, <1>2, <2>1 DEF Progress, server, Goto
    <3> QED BY <2>1, <3>1, <3>2, <3>3, <3>4, ClientStep
  <2> QED BY <1>8, <2>1, EndsKeeps DEF BuildBundle
<1>9. CASE UploadEnds(c)
  BY <1>9, EndsKeeps DEF UploadEnds
<1>10. CASE CollectorFails(c)
  BY <1>10, EndsKeeps DEF CollectorFails
<1> QED BY <1>4, <1>5, <1>6, <1>7, <1>8, <1>9, <1>10

----------------------------------------------------------------------------
(* The calls of the upload.                                                 *)

\* A step that concerns one collector keeps the invariant if it keeps the part of
\* that collector, and leaves the runs of the others created and what has arrived
\* in them as it is.
LEMMA ServerStep ==
  ASSUME PInv, PipelineTypeOK', StatusTellsArrival', NEW c \in Collectors,
         Accounted(c)', Progress(c)', Delivered(c)',
         \A d \in Collectors \ {c} :
            /\ Same(d)
            /\ target[d] # NoRun => status'[target[d]] # "absent" /\ Arrived(d)' = Arrived(d),
         target'[c] = target[c] \/ \A d \in Collectors : target[d] # target'[c]
  PROVE  PInv'
<1>1. ASSUME NEW d \in Collectors PROVE Accounted(d)' /\ Progress(d)' /\ Delivered(d)'
  BY SameKeeps DEF PInv
<1>2. \A d, e \in Collectors : target'[d] = target'[e] /\ target'[d] # NoRun => d = e
  BY DEF PInv, Same
<1> QED BY <1>1, <1>2 DEF PInv

\* A run is created for a collector, which may not learn of it: no other has it.
LEMMA CreateKeeps == ASSUME PInv, NEW c \in Collectors, CreateRun(c) PROVE PInv'
<1>1. PICK r \in Absent : /\ status' = [status EXCEPT ![r] = "collecting"]
                          /\ \/ /\ Goto(c, "upload") /\ target' = [target EXCEPT ![c] = r]
                                /\ UNCHANGED <<asked, toRun, missing, items>>
                             \/ Ends(c, "failed") /\ UNCHANGED target
  BY DEF CreateRun
<1>2. /\ step \in [Collectors -> CollectorSteps] /\ asked \in [Collectors -> SUBSET Allowlist]
      /\ toRun \in [Collectors -> SUBSET Allowlist]
      /\ missing \in [Collectors -> SUBSET Allowlist] /\ items \in [Collectors -> SUBSET Items]
      /\ target \in [Collectors -> Runs \cup {NoRun}] /\ status \in [Runs -> RunStatus]
  BY DEF PInv, PipelineTypeOK
<1>3. r \in Runs /\ r # NoRun /\ status[r] = "absent" /\ \A i \in Items : runOf[i] # r
  BY SchemaAssumption DEF Absent, PInv, StatusTellsArrival
<1>4. step[c] = "create" /\ post[c] = "none" /\ target[c] = NoRun /\ toRun[c] = {}
  BY DEF CreateRun, PInv, Progress
<1>5. \A d \in Collectors : target[d] # r
  BY <1>3 DEF PInv, Delivered
<1>6. UNCHANGED <<runOf, post>> /\ TypeOK'
  BY TypeStep DEF CreateRun, vars, evidence, PInv, PipelineTypeOK
<1>7. PipelineTypeOK'
  BY <1>1, <1>2, <1>3, <1>6 DEF PInv, PipelineTypeOK, Goto, Ends, CollectorSteps, RunStatus
<1>8. StatusTellsArrival'
  <2> SUFFICES ASSUME NEW q \in Runs
               PROVE  status'[q] \in {"absent", "collecting"} <=> \A i \in Items : runOf[i] # q
    BY <1>6 DEF StatusTellsArrival
  <2> QED BY <1>1, <1>2, <1>3 DEF PInv, StatusTellsArrival
<1>9. \A d \in Collectors \ {c} : Same(d)
  BY <1>1, <1>2, <1>6 DEF Goto, Ends, Same
<1>10. \A d \in Collectors \ {c} :
          target[d] # NoRun => status'[target[d]] # "absent" /\ Arrived(d)' = Arrived(d)
  BY <1>1, <1>2, <1>6, <1>9 DEF PInv, Delivered, Arrived, Same
<1>11. CASE /\ Goto(c, "upload") /\ target' = [target EXCEPT ![c] = r]
            /\ UNCHANGED <<asked, toRun, missing, items>>
  <2>1. target'[c] = r /\ step'[c] = "upload" /\ status'[r] = "collecting"
    BY <1>1, <1>2, <1>3, <1>11 DEF Goto
  <2>2. Accounted(c)'
    BY <1>11 DEF Accounted, PInv
  <2>3. Progress(c)'
    BY <1>3, <1>4, <1>6, <1>11, <2>1 DEF Progress
  <2>4. Delivered(c)'
    BY <1>3, <1>4, <1>6, <2>1 DEF Delivered, Arrived
  <2> QED BY <1>5, <1>7, <1>8, <1>9, <1>10, <2>1, <2>2, <2>3, <2>4, ServerStep
<1>12. CASE Ends(c, "failed") /\ UNCHANGED target
  <2>1. target'[c] = NoRun /\ step'[c] = "failed" /\ asked'[c] = {} /\ toRun'[c] = {}
    BY <1>2, <1>4, <1>12 DEF Goto, Ends
  <2>2. Accounted(c)' /\ Progress(c)' /\ Delivered(c)'
    BY <1>4, <1>6, <2>1 DEF Accounted, Progress, Delivered
  <2> QED BY <1>4, <1>7, <1>8, <1>9, <1>10, <2>1, <2>2, ServerStep
<1> QED BY <1>1, <1>11, <1>12

\* The bundle is sent to the collector's run.
LEMMA PostKeeps == ASSUME PInv, NEW c \in Collectors, PostBundle(c) PROVE PInv'
<1>1. /\ step' = [step EXCEPT ![c] = "waiting"] /\ post' = [post EXCEPT ![c] = "posted"]
      /\ step[c] = "upload"
      /\ UNCHANGED <<vars, asked, toRun, missing, items, target, status>>
  BY DEF PostBundle, Goto
<1>2. /\ step \in [Collectors -> CollectorSteps]
      /\ post \in [Collectors -> {"none", "posted", "stored", "refused"}]
  BY DEF PInv, PipelineTypeOK
<1>3. UNCHANGED runOf /\ TypeOK'
  BY <1>1, TypeStep DEF vars, evidence, PInv, PipelineTypeOK
<1>4. PipelineTypeOK'
  BY <1>1, <1>2, <1>3 DEF PInv, PipelineTypeOK, CollectorSteps
<1>5. StatusTellsArrival'
  BY <1>1, <1>3 DEF PInv, StatusTellsArrival
<1>6. \A d \in Collectors \ {c} : Same(d)
  BY <1>1, <1>2 DEF Same
<1>7. \A d \in Collectors :
         target[d] # NoRun => status'[target[d]] # "absent" /\ Arrived(d)' = Arrived(d)
  BY <1>1, <1>3 DEF PInv, Delivered, Arrived
<1>8. post[c] = "none" /\ target[c] # NoRun /\ toRun[c] = {}
  BY <1>1 DEF PInv, Progress
<1>9. Accounted(c)'
  BY <1>1 DEF Accounted, PInv
<1>10. Progress(c)' /\ Delivered(c)'
  BY <1>1, <1>2, <1>7, <1>8 DEF Progress, Delivered, PInv
<1> QED BY <1>1, <1>4, <1>5, <1>6, <1>7, <1>9, <1>10, ServerStep

\* The bundle is refused and nothing arrives.
LEMMA RefuseKeeps == ASSUME PInv, NEW c \in Collectors, Refuse(c) PROVE PInv'
<1>1. /\ post[c] = "posted" /\ post' = [post EXCEPT ![c] = "refused"]
      /\ UNCHANGED <<vars, collector, target, status>>
  BY DEF Refuse
<1>2. post \in [Collectors -> {"none", "posted", "stored", "refused"}]
  BY DEF PInv, PipelineTypeOK
<1>3. UNCHANGED <<runOf, step, asked, toRun, missing, items>> /\ TypeOK'
  BY <1>1, TypeStep DEF vars, evidence, collector, PInv, PipelineTypeOK
<1>4. PipelineTypeOK'
  BY <1>1, <1>2, <1>3 DEF PInv, PipelineTypeOK
<1>5. StatusTellsArrival'
  BY <1>1, <1>3 DEF PInv, StatusTellsArrival
<1>6. \A d \in Collectors \ {c} : Same(d)
  BY <1>1, <1>2, <1>3 DEF Same
<1>7. \A d \in Collectors :
         target[d] # NoRun => status'[target[d]] # "absent" /\ Arrived(d)' = Arrived(d)
  BY <1>1, <1>3 DEF PInv, Delivered, Arrived
<1>8. Accounted(c)'
  BY <1>3 DEF Accounted, PInv
<1>9. Progress(c)' /\ Delivered(c)'
  BY <1>1, <1>2, <1>3, <1>7 DEF Progress, Delivered, PInv
<1> QED BY <1>1, <1>4, <1>5, <1>6, <1>7, <1>8, <1>9, ServerStep

\* A bundle is stored for the first time, in a run that only its collector has.
LEMMA StoreKeeps ==
  ASSUME PInv, NEW c \in Collectors, NEW t \in 0..MaxStamp, Store(c, t)
  PROVE  PInv' /\ Ingest
<1>1. /\ post[c] = "posted" /\ EvidenceCommitted(target[c], items[c], t)
      /\ post' = [post EXCEPT ![c] = "stored"]
      /\ status' = [status EXCEPT ![target[c]] = "normalizing"]
      /\ UNCHANGED <<collector, target>>
  BY DEF Store
<1>2. /\ post \in [Collectors -> {"none", "posted", "stored", "refused"}]
      /\ status \in [Runs -> RunStatus] /\ items[c] \in SUBSET Items
      /\ target \in [Collectors -> Runs \cup {NoRun}]
  BY DEF PInv, PipelineTypeOK
<1>3. target[c] \in Runs /\ target[c] # NoRun
  BY <1>1, <1>2 DEF PInv, Progress
<1>4. Ingest
  BY <1>1, <1>2, <1>3 DEF Ingest
<1>5. UNCHANGED <<step, asked, toRun, missing, items>> /\ TypeOK'
  BY <1>1, <1>4, TypeStep DEF collector, PInv, PipelineTypeOK, Next
<1>6. /\ items[c] # {} /\ \A i \in items[c] : runOf[i] = NoRun
      /\ \A i \in Items : runOf'[i] = IF i \in items[c] THEN target[c] ELSE runOf[i]
  BY <1>1, <1>2 DEF EvidenceCommitted
<1>7. PipelineTypeOK'
  BY <1>1, <1>2, <1>5 DEF PInv, PipelineTypeOK, RunStatus
<1>8. StatusTellsArrival'
  <2> SUFFICES ASSUME NEW q \in Runs
               PROVE  status'[q] \in {"absent", "collecting"} <=> \A i \in Items : runOf'[i] # q
    BY DEF StatusTellsArrival
  <2>1. CASE q = target[c]
    BY <1>1, <1>2, <1>6, <2>1
  <2>2. CASE q # target[c]
    <3>1. status'[q] = status[q]
      BY <1>1, <1>2, <2>2
    <3>2. (\A i \in Items : runOf'[i] # q) <=> (\A i \in Items : runOf[i] # q)
      BY <1>6, <2>2, SchemaAssumption
    <3> QED BY <3>1, <3>2 DEF PInv, StatusTellsArrival
  <2> QED BY <2>1, <2>2
<1>9. \A d \in Collectors \ {c} : Same(d)
  BY <1>1, <1>2, <1>5 DEF Same
<1>10. ASSUME NEW d \in Collectors \ {c}, target[d] # NoRun
       PROVE  status'[target[d]] # "absent" /\ Arrived(d)' = Arrived(d)
  <2>1. target[d] # target[c]
    BY <1>10 DEF PInv
  <2>2. status'[target[d]] = status[target[d]]
    BY <1>1, <1>2, <2>1
  <2>3. \A i \in Items : runOf'[i] = target[d] <=> runOf[i] = target[d]
    BY <1>6, <1>10, <2>1
  <2> QED BY <1>1, <1>10, <2>2, <2>3 DEF PInv, Delivered, Arrived
<1>11. Accounted(c)'
  BY <1>5 DEF Accounted, PInv
<1>12. Progress(c)'
  BY <1>1, <1>2, <1>3, <1>5 DEF Progress, PInv
<1>13. Delivered(c)'
  <2>1. Arrived(c) = {}
    BY <1>1, <1>3 DEF PInv, Delivered
  <2>2. Arrived(c)' = items[c]
    BY <1>1, <1>2, <1>6, <2>1 DEF Arrived
  <2> QED BY <1>1, <1>2, <1>3, <1>5, <2>2 DEF Delivered
<1> QED BY <1>1, <1>4, <1>7, <1>8, <1>9, <1>10, <1>11, <1>12, <1>13, ServerStep

\* A step of the normalizer moves no evidence.
LEMMA NormalizeMovesNone == ASSUME TypeOK, Normalize PROVE UNCHANGED runOf
<1>1. PICK w \in Workers : Work(w) \/ OnTick(w) \/ Disturb(w)
  BY DEF Normalize
<1>2. ASSUME Quiet PROVE UNCHANGED runOf
  BY <1>2 DEF Quiet, evidence
<1>3. ASSUME NEW i \in Items, ItemStep(w, i) PROVE UNCHANGED runOf
  BY <1>3 DEF ItemStep, Parse, UpsertAsset, WriteParsed, Audit, evidence
<1> QED BY <1>1, <1>2, <1>3, ProcessQuiet DEF Work

\* The whole invariant is kept, by steps that the normalizer allows.
LEMMA PStep ==
  ASSUME PInv, [PipelineNext]_pipelineVars PROVE PInv' /\ [Next]_vars
<1>1. ASSUME UNCHANGED <<runOf, collector, server>>, TypeOK' PROVE PInv'
  BY <1>1 DEF PInv, PipelineTypeOK, StatusTellsArrival, Accounted, Progress, Delivered,
              Arrived, collector, server
<1>2. CASE Normalize /\ UNCHANGED <<collector, server>>
  <2>1. TypeOK /\ Next
    BY <1>2 DEF PInv, PipelineTypeOK, Normalize, Next
  <2> QED BY <1>1, <1>2, <2>1, TypeStep, NormalizeMovesNone
<1>3. ASSUME NEW c \in Collectors, Collect(c) PROVE PInv' /\ [Next]_vars
  <2>1. ASSUME NEW t \in 0..MaxStamp, Store(c, t) PROVE PInv' /\ [Next]_vars
    BY <2>1, StoreKeeps DEF Next
  <2>2. CASE PostBundle(c)
    BY <2>2, PostKeeps DEF PostBundle
  <2>3. CASE CreateRun(c)
    BY <2>3, CreateKeeps DEF CreateRun
  <2>4. CASE Refuse(c)
    BY <2>4, RefuseKeeps DEF Refuse
  <2>5. ASSUME \/ \E T \in SUBSET Tools : StartCollector(c, T)
               \/ \E t \in Tools : \/ ToolMissing(c, t) \/ ToolError(c, t)
                                   \/ \E i \in Items : ToolCaptured(c, t, i)
               \/ BuildBundle(c) \/ UploadEnds(c) \/ CollectorFails(c)
        PROVE  PInv' /\ [Next]_vars
    <3>1. UNCHANGED vars
      BY <2>5 DEF StartCollector, ToolMissing, ToolError, ToolCaptured, BuildBundle,
                  UploadEnds, CollectorFails
    <3> QED BY <2>5, <3>1, CollectorKeeps
  <2> QED BY <1>3, <2>1, <2>2, <2>3, <2>4, <2>5 DEF Collect
<1>4. CASE UNCHANGED pipelineVars
  <2>1. UNCHANGED <<runOf, collector, server>> /\ UNCHANGED vars
    BY <1>4 DEF pipelineVars, vars, evidence
  <2> QED BY <1>1, <2>1, TypeStep DEF PInv, PipelineTypeOK
<1> QED BY <1>2, <1>3, <1>4 DEF PipelineNext

\* The inductive invariant holds in every reachable state.
THEOREM PipelineInductive == PipelineSpec => []PInv
<1>1. PInv /\ [PipelineNext]_pipelineVars => PInv'
  BY PStep
<1> QED BY <1>1, PInvStart, PTL DEF PipelineSpec

\* The pipeline runs the normalizer: it uploads as the normalizer expects of its
\* environment, so all that is proved of the normalizer holds behind collectors.
THEOREM PipelineRuns == PipelineSpec => Spec
<1>1. PInv /\ [PipelineNext]_pipelineVars => [Next]_vars
  BY PStep
<1>2. PipelineInit => Init
  BY DEF PipelineInit
<1> QED BY <1>1, <1>2, PipelineInductive, PTL DEF PipelineSpec, Spec

\* Collectors, runs and uploads keep their shapes.
THEOREM PipelineTypeCorrect == PipelineSpec => []PipelineTypeOK
<1>1. PInv => PipelineTypeOK
  BY DEF PInv
<1> QED BY <1>1, PipelineInductive, PTL

\* Every selected tool of a posted bundle has an item in it or is missing.
THEOREM Complete == PipelineSpec => []PostedIsComplete
BY PInvImplies, PipelineInductive, PTL

\* Success means stored, and a run holds one collector's bundle, whole, or nothing.
THEOREM Uploaded == PipelineSpec => []UploadedOnce
BY PInvImplies, PipelineInductive, PTL

\* A run's status tells whether its evidence has arrived.
THEOREM Status == PipelineSpec => []StatusTellsArrival
<1>1. PInv => StatusTellsArrival
  BY DEF PInv
<1> QED BY <1>1, PipelineInductive, PTL

----------------------------------------------------------------------------
(* The lifecycle of evidence, behind collectors.                            *)

\* A step of the normalizer leaves the status of every run alone, and does to the
\* rows what the lifecycle allows.
LEMMA NormalizeRefines ==
  ASSUME IInv, Normalize, UNCHANGED <<collector, server>>
  PROVE  Evidence!Service \/ UNCHANGED Evidence!columns
<1>1. UNCHANGED status
  BY DEF server
<1>2. PICK w \in Workers : Work(w) \/ OnTick(w) \/ Disturb(w)
  BY DEF Normalize
<1>3. CASE UNCHANGED <<runOf, parsed, assetOf, assetRun>>
  BY <1>1, <1>3 DEF Evidence!columns
<1>4. ASSUME NEW i \in Items, Lifecycle!FindAsset(i) PROVE Evidence!FindAsset(i)
  BY <1>1, <1>4 DEF Lifecycle!FindAsset, Evidence!FindAsset
<1>5. ASSUME NEW i \in Items, Lifecycle!Normalize(i) PROVE Evidence!Normalize(i)
  BY <1>1, <1>5 DEF Lifecycle!Normalize, Evidence!Normalize
<1> QED BY <1>2, <1>3, <1>4, <1>5, WorkRefines DEF Evidence!Service

\* An upload commits in a run that its collector has created: the rows and the
\* status arrive together.
LEMMA StoreRefines ==
  ASSUME PInv, NEW c \in Collectors, NEW t \in 0..MaxStamp, Store(c, t)
  PROVE  Evidence!Service
<1>1. target[c] \in Runs /\ items[c] \in SUBSET Items /\ status[target[c]] # "absent"
  BY DEF Store, PInv, PipelineTypeOK, Progress, Delivered
<1>2. Evidence!Arrive(target[c], items[c])
  BY <1>1 DEF Store, EvidenceCommitted, results, Evidence!Arrive
<1> QED BY <1>1, <1>2 DEF Evidence!Service

\* Behind any number of collectors, and with the status the tables really have, the
\* normalizer is the lifecycle of evidence: a run is created before anything arrives
\* in it, by this collector or by one that never learnt of it.
THEOREM PipelineRefines == PipelineSpec => PipelineImplementsLifecycle
<1>1. PipelineInit => Evidence!Init
  BY DEF PipelineInit, Init, Evidence!Init, Evidence!Fresh
<1>2. PInv /\ IInv /\ [PipelineNext]_pipelineVars => [Evidence!Next]_(Evidence!columns)
  <2> DEFINE Maps == [Evidence!Next]_(Evidence!columns)
  <2> SUFFICES ASSUME PInv, IInv, [PipelineNext]_pipelineVars PROVE Maps
    OBVIOUS
  <2>1. ASSUME UNCHANGED <<vars, status>> PROVE Maps
    BY <2>1 DEF vars, evidence, results, Evidence!columns
  <2>2. CASE Normalize /\ UNCHANGED <<collector, server>>
    BY <2>2, NormalizeRefines DEF Evidence!Next
  <2>3. ASSUME NEW c \in Collectors, NEW t \in 0..MaxStamp, Store(c, t) PROVE Maps
    BY <2>3, StoreRefines DEF Evidence!Next
  <2>4. ASSUME NEW c \in Collectors, CreateRun(c) PROVE Maps
    <3>1. PICK r \in Absent : status' = [status EXCEPT ![r] = "collecting"]
      BY <2>4 DEF CreateRun
    <3>2. r \in Runs /\ status[r] = "absent"
      BY DEF Absent
    <3>3. UNCHANGED <<runOf, parsed, assetOf, assetRun>>
      BY <2>4 DEF CreateRun, vars, evidence, results
    <3>4. Evidence!Create(r)
      BY <3>1, <3>2, <3>3 DEF Evidence!Create
    <3> QED BY <3>2, <3>4 DEF Evidence!Next
  <2>5. ASSUME NEW c \in Collectors, Collect(c) PROVE Maps
    <3>1. CASE \/ \E T \in SUBSET Tools : StartCollector(c, T)
               \/ \E u \in Tools : \/ ToolMissing(c, u) \/ ToolError(c, u)
                                   \/ \E i \in Items : ToolCaptured(c, u, i)
               \/ BuildBundle(c) \/ PostBundle(c) \/ UploadEnds(c) \/ CollectorFails(c)
               \/ Refuse(c)
      BY <2>1, <3>1 DEF StartCollector, ToolMissing, ToolError, ToolCaptured, BuildBundle,
                        PostBundle, UploadEnds, CollectorFails, Refuse, server
    <3> QED BY <2>3, <2>4, <2>5, <3>1 DEF Collect
  <2>6. CASE UNCHANGED pipelineVars
    BY <2>1, <2>6 DEF pipelineVars, server
  <2> QED BY <2>2, <2>5, <2>6 DEF PipelineNext
<1> QED BY <1>1, <1>2, PipelineInductive, PipelineRuns, Inductive, PTL
        DEF PipelineSpec, PipelineImplementsLifecycle, Evidence!Spec

\* So the laws of the lifecycle hold from the collector to the asset's row: whatever
\* is lost on the way, no table contradicts another and nothing is taken back.
THEOREM PipelineLawful ==
  PipelineSpec => []Evidence!ColumnsAgree /\ Evidence!NothingTakenBack
BY PipelineRefines, SchemaAssumption, Evidence!Agree, Evidence!Permanent, PTL
   DEF PipelineImplementsLifecycle
=============================================================================
