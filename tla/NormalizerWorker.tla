-------------------------- MODULE NormalizerWorker --------------------------
(***************************************************************************)
(* The normalizer worker (services/normalizer-worker): a process that      *)
(* drains pending evidence at startup, then LISTENs and drains whenever a  *)
(* NOTIFY or the poll timer wakes it. A drain fetches one batch, normalizes*)
(* its items concurrently and ends when all of them are done; the select   *)
(* loop does nothing else meanwhile. Each item is fetched, parsed, given   *)
(* its asset, written and audited by separate autocommitted statements, so *)
(* items, workers and failures interleave between any two of them.         *)
(*                                                                         *)
(* Failures of every kind are counted in faults and bounded by MaxFaults.  *)
(***************************************************************************)
EXTENDS AuditSchema, Naturals, FiniteSets

CONSTANTS Workers,      \* worker processes
          AssetFor,     \* the asset an item's parser names, or NoAsset
          NoParser,     \* items of a tool no parser is registered for
          Unreadable,   \* items whose parser rejects their bytes
          Limit,        \* rows one drain fetches (500 in the code)
          Concurrency,  \* items one drain works on at a time
          MaxStamp,     \* bound: distinct values of created_at
          MaxFaults     \* bound: failures, lost connections and restarts

ASSUME NormalizerAssumption ==
  /\ AssetFor \in AssetColumn(Items)
  /\ NoParser \subseteq Items /\ Unreadable \subseteq Items
  /\ Limit \in Nat \ {0} /\ Concurrency \in Nat \ {0}
  /\ MaxStamp \in Nat /\ MaxFaults \in Nat

VARIABLES
  runOf,      \* evidence_items.run_id, NoRun while there is no row
  created,    \* evidence_items.created_at
  parsed,     \* evidence_items.parsed IS NOT NULL
  assetOf,    \* evidence_items.asset_id
  assetRun,   \* assets.run_id, NoRun while there is no row
  audits,     \* audit_log: evidence.normalize rows, by worker and item
  mode,       \* what each worker process is doing
  listening,  \* the worker's connection is subscribed to the channel
  ticked,     \* the worker has drained on its timer since it subscribed
  channel,    \* notifications delivered to the worker and not yet received
  stage,      \* progress of each item in the worker's current drain
  faults      \* failures so far

evidence == <<runOf, created>>
results  == <<parsed, assetOf, assetRun, audits>>
process  == <<mode, listening, ticked, channel>>
vars     == <<evidence, results, process, stage, faults>>

Modes   == {"down", "startup", "idle", "drain", "backoff"}
Stages  == {"none", "queued", "upsert", "write", "audit"}

TypeOK ==
  /\ runOf \in RunColumn(Items)
  /\ created \in [Items -> 0..MaxStamp]
  /\ parsed \in [Items -> BOOLEAN]
  /\ assetOf \in AssetColumn(Items)
  /\ assetRun \in RunColumn(Assets)
  /\ audits \in [Workers -> [Items -> Nat]]
  /\ mode \in [Workers -> Modes]
  /\ listening \in [Workers -> BOOLEAN]
  /\ ticked \in [Workers -> BOOLEAN]
  /\ channel \in [Workers -> SUBSET Runs]
  /\ stage \in [Workers -> [Items -> Stages]]
  /\ faults \in 0..MaxFaults

Init ==
  /\ runOf = [i \in Items |-> NoRun]
  /\ created = [i \in Items |-> 0]
  /\ parsed = [i \in Items |-> FALSE]
  /\ assetOf = [i \in Items |-> NoAsset]
  /\ assetRun = [a \in Assets |-> NoRun]
  /\ audits = [w \in Workers |-> [i \in Items |-> 0]]
  /\ mode = [w \in Workers |-> "down"]
  /\ listening = [w \in Workers |-> FALSE]
  /\ ticked = [w \in Workers |-> FALSE]
  /\ channel = [w \in Workers |-> {}]
  /\ stage = [w \in Workers |-> [i \in Items |-> "none"]]
  /\ faults = 0

----------------------------------------------------------------------------
(* The database, as the ingestion API leaves it.                            *)

\* The trigger's NOTIFY, delivered at commit: one message per run, to the
\* sessions that listen at that moment only.
Notify(r) == channel' = [w \in Workers |->
                 IF listening[w] THEN channel[w] \cup {r} ELSE channel[w]]

\* An upload to run r commits the rows S. Their created_at is when its
\* transaction began, which may be before that of rows committed earlier.
EvidenceCommitted(r, S, t) ==
  /\ S # {} /\ \A i \in S : runOf[i] = NoRun
  /\ runOf' = [i \in Items |-> IF i \in S THEN r ELSE runOf[i]]
  /\ created' = [i \in Items |-> IF i \in S THEN t ELSE created[i]]
  /\ Notify(r)
  /\ UNCHANGED <<results, mode, listening, ticked, stage, faults>>

----------------------------------------------------------------------------
(* Drains.                                                                  *)

Pending(R) == {i \in Items : runOf[i] \in R /\ ~parsed[i]}

\* fetch_pending: at most Limit unparsed rows of the runs R, oldest first.
Batches(R) ==
  {B \in SUBSET Pending(R) :
     /\ Cardinality(B) <= Limit
     /\ B # Pending(R) => Cardinality(B) = Limit
     /\ \A i \in B, j \in Pending(R) \ B : created[i] <= created[j]}

Fault == faults < MaxFaults /\ faults' = faults + 1

\* drain_pending begins: a batch is queued, or the query fails and the error is
\* thrown away with the wake-up that led to it.
Fetch(w, R) ==
  \/ /\ \E B \in Batches(R) : stage' = [stage EXCEPT ![w] =
          [i \in Items |-> IF i \in B THEN "queued" ELSE "none"]]
     /\ UNCHANGED faults
  \/ Fault /\ UNCHANGED stage

Drained(w) == \A i \in Items : stage[w][i] = "none"
InFlight(w) == {i \in Items : stage[w][i] \in {"upsert", "write", "audit"}}

\* The process starts, and drains what is pending before it listens.
Start(w) ==
  /\ mode[w] = "down"
  /\ mode' = [mode EXCEPT ![w] = "startup"]
  /\ Fetch(w, Runs)
  /\ UNCHANGED <<evidence, results, listening, ticked, channel>>

\* After the startup drain the process subscribes; if it cannot, it exits.
Listen(w) ==
  /\ mode[w] = "startup" /\ Drained(w)
  /\ \/ /\ mode' = [mode EXCEPT ![w] = "idle"]
        /\ listening' = [listening EXCEPT ![w] = TRUE]
        /\ UNCHANGED faults
     \/ /\ mode' = [mode EXCEPT ![w] = "down"]
        /\ Fault
        /\ UNCHANGED listening
  /\ UNCHANGED <<evidence, results, ticked, channel, stage>>

\* A notification for run r wakes the loop: drain that run.
OnNotify(w, r) ==
  /\ mode[w] = "idle" /\ r \in channel[w]
  /\ channel' = [channel EXCEPT ![w] = @ \ {r}]
  /\ mode' = [mode EXCEPT ![w] = "drain"]
  /\ Fetch(w, {r})
  /\ UNCHANGED <<evidence, results, listening, ticked>>

\* Mutant: the timer's first tick only starts the interval.
OnTickLate(w) ==
  /\ mode[w] = "idle"
  /\ ticked' = [ticked EXCEPT ![w] = TRUE]
  /\ IF ticked[w] THEN mode' = [mode EXCEPT ![w] = "drain"] /\ Fetch(w, Runs)
     ELSE UNCHANGED <<mode, stage, faults>>
  /\ UNCHANGED <<evidence, results, listening, channel>>

\* Mutant: the loop has no timer.
NoTick(w) == FALSE

\* The poll timer fires, the first time as soon as the loop is entered: drain
\* every run.
OnTick(w) ==
  /\ mode[w] = "idle"
  /\ ticked' = [ticked EXCEPT ![w] = TRUE]
  /\ mode' = [mode EXCEPT ![w] = "drain"]
  /\ Fetch(w, Runs)
  /\ UNCHANGED <<evidence, results, listening, channel>>

DrainEnds(w) ==
  /\ mode[w] = "drain" /\ Drained(w)
  /\ mode' = [mode EXCEPT ![w] = "idle"]
  /\ UNCHANGED <<evidence, results, listening, ticked, channel, stage, faults>>

----------------------------------------------------------------------------
(* normalize_one, one item of the current drain.                            *)

SetStage(w, i, s) == stage' = [stage EXCEPT ![w][i] = s]

\* Mutant: the item's asset is upserted after the item is written.
ParseNoUpsert(w, i) ==
  /\ stage[w][i] = "queued" /\ Cardinality(InFlight(w)) < Concurrency
  /\ SetStage(w, i, IF i \in NoParser \cup Unreadable THEN "none" ELSE "write")
  /\ UNCHANGED <<evidence, results, process, faults>>

\* A slot is free: the item's bytes are fetched, parsed and redacted. Without a
\* parser, or if parsing fails, the item is done with and stays pending.
Parse(w, i) ==
  /\ stage[w][i] = "queued" /\ Cardinality(InFlight(w)) < Concurrency
  /\ SetStage(w, i, IF i \in NoParser \cup Unreadable THEN "none" ELSE "upsert")
  /\ UNCHANGED <<evidence, results, process, faults>>

\* Mutant: the upsert takes an existing asset over for this run.
UpsertAssetOver(w, i) ==
  /\ stage[w][i] = "upsert"
  /\ assetRun' = [b \in Assets |-> IF b = AssetFor[i] THEN runOf[i] ELSE assetRun[b]]
  /\ SetStage(w, i, "write")
  /\ UNCHANGED <<evidence, parsed, assetOf, audits, process, faults>>

\* Mutant: the asset is inserted for another run than the item's.
UpsertAssetAnyRun(w, i) ==
  /\ stage[w][i] = "upsert"
  /\ \E r \in Runs : assetRun' = [b \in Assets |->
       IF b = AssetFor[i] /\ assetRun[b] = NoRun THEN r ELSE assetRun[b]]
  /\ SetStage(w, i, "write")
  /\ UNCHANGED <<evidence, parsed, assetOf, audits, process, faults>>

\* The asset is inserted for this run unless it exists: an existing asset
\* keeps the run that first discovered it.
UpsertAsset(w, i) ==
  LET a == AssetFor[i] IN
  /\ stage[w][i] = "upsert"
  /\ assetRun' = [b \in Assets |->
       IF b = a /\ assetRun[b] = NoRun THEN runOf[i] ELSE assetRun[b]]
  /\ SetStage(w, i, "write")
  /\ UNCHANGED <<evidence, parsed, assetOf, audits, process, faults>>

\* Mutant: the item is audited before it is written.
WriteParsedLate(w, i) ==
  /\ stage[w][i] = "write"
  /\ SetStage(w, i, "audit")
  /\ UNCHANGED <<evidence, results, process, faults>>

\* asset_id = COALESCE(new, old).
WriteParsed(w, i) ==
  /\ stage[w][i] = "write"
  /\ parsed' = [parsed EXCEPT ![i] = TRUE]
  /\ assetOf' = IF AssetFor[i] = NoAsset THEN assetOf
                ELSE [assetOf EXCEPT ![i] = AssetFor[i]]
  /\ SetStage(w, i, "audit")
  /\ UNCHANGED <<evidence, assetRun, audits, process, faults>>

Audit(w, i) ==
  /\ stage[w][i] = "audit"
  /\ audits' = [audits EXCEPT ![w][i] = @ + 1]
  /\ SetStage(w, i, "none")
  /\ UNCHANGED <<evidence, parsed, assetOf, assetRun, process, faults>>

\* The next call of normalize_one fails: the item is given up until it is
\* fetched again.
ItemFails(w, i) ==
  /\ stage[w][i] # "none"
  /\ Fault
  /\ SetStage(w, i, "none")
  /\ UNCHANGED <<evidence, results, process>>

----------------------------------------------------------------------------
(* The process and its connection.                                          *)

\* The process dies, or ends on ctrl_c: its drain and its notifications are lost.
Crash(w) ==
  /\ mode[w] # "down"
  /\ Fault
  /\ mode' = [mode EXCEPT ![w] = "down"]
  /\ listening' = [listening EXCEPT ![w] = FALSE]
  /\ ticked' = [ticked EXCEPT ![w] = FALSE]
  /\ channel' = [channel EXCEPT ![w] = {}]
  /\ stage' = [stage EXCEPT ![w] = [i \in Items |-> "none"]]
  /\ UNCHANGED <<evidence, results>>

\* The listener's connection is lost, with what it had not delivered.
ConnectionLost(w) ==
  /\ listening[w]
  /\ Fault
  /\ listening' = [listening EXCEPT ![w] = FALSE]
  /\ channel' = [channel EXCEPT ![w] = {}]
  /\ UNCHANGED <<evidence, results, mode, ticked, stage>>

\* The loop polls the lost connection: the listener subscribes again on its own,
\* or reports the error and the loop sleeps.
Receive(w) ==
  /\ mode[w] = "idle" /\ ~listening[w]
  /\ \/ listening' = [listening EXCEPT ![w] = TRUE] /\ UNCHANGED mode
     \/ mode' = [mode EXCEPT ![w] = "backoff"] /\ UNCHANGED listening
  /\ UNCHANGED <<evidence, results, ticked, channel, stage, faults>>

\* After the sleep the loop goes on, with a new subscription or the old listener.
Reconnect(w) ==
  /\ mode[w] = "backoff"
  /\ mode' = [mode EXCEPT ![w] = "idle"]
  /\ \E ok \in BOOLEAN : listening' = [listening EXCEPT ![w] = ok]
  /\ UNCHANGED <<evidence, results, ticked, channel, stage, faults>>

----------------------------------------------------------------------------
ItemStep(w, i) ==
  Parse(w, i) \/ UpsertAsset(w, i) \/ WriteParsed(w, i) \/ Audit(w, i)

Work(w) ==
  \/ Start(w) \/ Listen(w) \/ DrainEnds(w) \/ Reconnect(w) \/ Receive(w)
  \/ \E i \in Items : ItemStep(w, i)
  \/ \E r \in Runs : OnNotify(w, r)

Disturb(w) ==
  Crash(w) \/ ConnectionLost(w) \/ \E i \in Items : ItemFails(w, i)

Ingest == \E r \in Runs, S \in SUBSET Items, t \in 0..MaxStamp :
            EvidenceCommitted(r, S, t)

Next == Ingest \/ \E w \in Workers : Work(w) \/ OnTick(w) \/ Disturb(w)

Spec == Init /\ [][Next]_vars

\* The process is restarted and the runtime polls its futures. The select loop
\* polls its branches in random order, so a timer that keeps being ready when the
\* loop is idle is served, however many notifications compete with it.
Fairness ==
  \A w \in Workers : WF_vars(Work(w)) /\ SF_vars(OnTick(w))

FairSpec == Spec /\ Fairness

----------------------------------------------------------------------------
\* Normalized evidence has the asset its parser named, and that asset's row
\* exists: the foreign key holds and discovery never sees evidence without it.
ParsedHasItsAsset ==
  \A i \in Items : parsed[i] /\ AssetFor[i] # NoAsset =>
     assetOf[i] = AssetFor[i] /\ assetRun[AssetFor[i]] # NoRun

\* An asset's run is a run some evidence of that asset belongs to, whichever
\* worker and item got there first.
AssetRunHasEvidence ==
  \A a \in Assets : assetRun[a] # NoRun =>
     \E i \in Items : AssetFor[i] = a /\ runOf[i] = assetRun[a]

\* One worker never normalizes an item twice, across all its drains, failures
\* and restarts; only a second worker can repeat it. And it audits only what it
\* has written.
OnceEachWorker ==
  \A w \in Workers, i \in Items :
     audits[w][i] <= 1 /\ (audits[w][i] > 0 => parsed[i])

\* No wake-up is missed between the startup drain and LISTEN, or during a drain:
\* without failures, a worker back in its loop that has had its first tick and
\* has no notification left has left nothing to normalize.
NoMissedWakeup ==
  (faults = 0 /\ Cardinality({i \in Items : runOf[i] # NoRun}) <= Limit) =>
     \A w \in Workers :
        (mode[w] = "idle" /\ listening[w] /\ ticked[w] /\ channel[w] = {}) =>
           Pending(Runs) \subseteq NoParser \cup Unreadable

\* Normalization is final: no later drain, of this or another worker, takes an
\* item back to pending or moves it or its asset to another run.
NormalizationFinal ==
  [][/\ \A i \in Items : parsed[i] => parsed'[i] /\ assetOf'[i] = assetOf[i]
     /\ \A a \in Assets : assetRun[a] # NoRun => assetRun'[a] = assetRun[a]]_vars

\* Every committed item that can be normalized is, in spite of lost
\* notifications, failures and restarts: the poll timer is the fallback.
PendingIsDrained ==
  \A i \in Items \ (NoParser \cup Unreadable) : runOf[i] # NoRun ~> parsed[i]

\* Any number of workers, with their races, repetitions and failures, look like one
\* that takes each item through the lifecycle once: what a second worker or a
\* restarted one does to an item again changes nothing. Of runs.status, which no
\* worker touches, this module has what an upload leaves.
UploadStatus ==
  [r \in Runs |-> IF \E i \in Items : runOf[i] = r THEN "normalizing" ELSE "collecting"]

Lifecycle == INSTANCE EvidenceLifecycle WITH
  Uploads <- SUBSET Items,
  status  <- UploadStatus

ImplementsLifecycle == Lifecycle!Spec
=============================================================================
