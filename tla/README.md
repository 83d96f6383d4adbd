# AuditCore in TLA+

AuditCore collects facts about a host, normalizes them and has AI agents describe
the system from them; everything it states must cite evidence. This directory
holds TLA+ models of its services, the TLC runs that check them on small
instances and the TLAPS proofs that hold for instances of any size. Every model
is written from the code; paths below are relative to `src/`.

## The system

    collector (Go) --POST /v1/runs, POST /v1/runs/{id}/bundle--> ingestion-api (Python)
ingestion-api --tarball and item bytes--> object store         ingestion-api --runs,
evidence_items--> Postgres --NOTIFY--> normalizer-worker (Rust)
normalizer-worker --assets, parsed, asset_id, audit_log--> Postgres     orchestrator
(Python) --reads evidence and assets; writes observations, sections-->         Postgres,
and asks the model-gateway (Python) for every agent's answer     report-generator
(Python) --reads a run and renders it

The services never call each other except for the two HTTP clients (collector,
orchestrator). They meet in Postgres: `runs.status`, `evidence_items.run_id`,
`parsed` and `asset_id`, `assets.run_id`, `observations`, `report_sections` and
`audit_log`. Nothing locks a row beyond a statement's own transaction.

| Component | State it keeps | Operations | What makes it correct | Model |
|---|---|---|---|---|
| collector | the tools still to run, the items collected, the run created | run the allowed tools, build the bundle, create a run, upload | no tool is lost silently, a report of success is true, everything reported is normalized | `CollectionPipeline` |
| ingestion-api | runs, evidence rows, tarball and item objects, audit rows; the progress of one upload per process | create run, upload bundle, read a run | rows have their objects, a bundle is stored whole and accepted once, a retry adds nothing, no deadlock | `EvidenceIngestion`, reads in `RunReaders` |
| bundle format (`bundle.py`) | none | parse | size, manifest and path checks before any write | not modelled |
| normalizer-worker, drain loop | subscription, timer, items in flight | startup drain, LISTEN, notification, tick, reconnect, the statements of an item | nothing pending is forgotten; what is parsed has its asset; attributes are merged without loss; no repeat by one worker | `NormalizerWorker`, `AssetAttributes` |
| normalizer-worker, parsers and redaction | none | parse, redact | | constants of the models |
| orchestrator | the locals of a command | `run` (discovery), `report` | observations cite evidence of their run, sections embed facts, the audit log accounts for rows | `DiscoveryOrchestrator` |
| agent registry | definitions loaded once | load | what it accepts the gateway serves | `AgentCalls` |
| model-gateway | the calls in progress | route, call a tier, validate, escalate, fail | privacy holds on every fallback, the first acceptable tier answers, cost is accounted for, calls end | `ModelGateway`, with its clients in `AgentCalls` |
| report-generator | none | load a run, load its sections, render | what the parts of a report say together | loaders in `RunReaders` |
| models-py | none | declarations | | not modelled |
| allowlist policy and drift check, hwprobe, connectors | none | | | not modelled |

The hard behaviours are the ones between services: a server dying between a put
and a commit, two servers storing the same bundle, an upload whose answer is lost,
a notification sent while nobody listens, a worker stopping between two commits of
one item, two workers on one item, parsers that write one attribute, a command that
reads evidence and writes what a model said of it minutes later, a gateway that goes
on with a call its client has given up, a reader whose queries see different
moments, a second run of a host whose assets belong to the first. They are listed
with their lines under "hazards" in `PROJECT.json`; a hazard without a property says
why.

## The modules

How they build on each other (arrows read "extends"):

    AuditSchema <- EvidenceLifecycle            the abstract specification
    AuditSchema <- EvidenceIngestion
    AuditSchema <- NormalizerWorker <- AssetAttributes
                   NormalizerWorker <- CollectionPipeline
    AuditSchema <- DiscoveryOrchestrator <- RunReaders
    ModelGateway <- AgentCalls

`EvidenceIngestion`, `NormalizerWorker`, `CollectionPipeline` and
`DiscoveryOrchestrator` each instantiate `EvidenceLifecycle` and implement it. A module
to the right adds actors and variables to the one it extends and keeps its steps.

**`AuditSchema`** declares the shared tables' keys (`Runs`, `Items`, `Assets`)
and the types of their columns. A row that has not been inserted has `NoRun` in
its run column.

**`EvidenceIngestion`** models `services/ingestion-api` (`main.py`, `storage.py`,
`db.py`, and the tables). Each server is one API process: the upload handler is
an `async` function whose body blocks after its first await, so one process
handles one upload at a time and processes interleave at every call to the store
or to Postgres.

| Code | Action |
|---|---|
| `create_run` | `CreateRun` |
| body read, bundle parsed, key computed from the clock | `Receive` |
| `put_object` of the tarball | `PutTarball` |
| transaction begins, `SELECT` of the run; 404 | `BeginTx`; `RunNotFound` |
| `put_object` of one item, `INSERT ... ON CONFLICT (id) DO NOTHING` | `PutItem`, `InsertRow` |
| `UPDATE runs`, audit row, commit, answer | `Commit` |
| exception or death of the process | `Abort` |

Rows of an open transaction are in `inserted` and become visible in `Commit`; an
`INSERT` that meets such a row of another transaction waits (`WaitsFor`). That is
how Postgres behaves and is what makes a circular wait possible in principle.
Bundles that are too large or malformed are refused before any write and are
left out.

**`NormalizerWorker`** models `services/normalizer-worker` (`worker.rs`,
`normalize.rs`, `db.rs`, `main.rs`): the startup drain before `LISTEN`, the
select loop with its notification and timer branches, a batch of at most `Limit`
oldest pending rows, up to `Concurrency` items in flight, and per item fetch and
parse (`Parse`), the asset upsert, the write of `parsed` and `asset_id`, and the
audit row, each a commit of its own. `ConnectionLost`, `Receive` and `Reconnect`
are the listener's reconnects, `Crash` a death or a shutdown at any point.
What a parser makes of an item is a constant: whether there is one
(`NoParser`), whether it accepts the bytes (`Unreadable`) and which asset it
names (`AssetFor`). A committed upload is the environment's action
`EvidenceCommitted`, whose `created_at` need not grow, since it is the time its
transaction began. `created_at` has only `MaxStamp + 1` values, so ties, which
the code's `ORDER BY` leaves open, are resolved in every way.

**`DiscoveryOrchestrator`** models `services/orchestrator` (`runner.py`,
`discovery.py`, `report.py`, `repo.py`, `domains.py`,
`gateway_client.py`, `main.py`). Each command is a process with its own locals
(`cli`). Every repository call is a step, and so is every answer of the gateway:
evidence and assets move on underneath through `EvidenceCommitted`, `EvidenceRepeated`
(an upload that brings its run nothing new), `UpsertAsset` and `WriteParsed`, the other
two services' effects on the tables it reads; a parser may name no asset. An
answer is an arbitrary set of observations or sections that may cite anything,
shown or not, existing or not; `Admissible` and `Rows` are the checks the code
makes. An answer that fails the schema, or a section whose audience is
unknown, is one that lists less. Two equal observations in one answer are one
element of the set; the code would insert two rows, and the audit count would
be two as well.

**`EvidenceLifecycle`** is what the services promise each other about a run and its
evidence, in the columns they share: a run is created (`Create`); an upload's items
`Arrive` in one run together and move it to normalizing, and so does an upload that
brings nothing new (`Repeat`); an asset is found once, in a run with evidence of it
(`FindAsset`); an item is normalized once, after its asset (`Normalize`); a command of
the orchestrator overwrites the run's status (`Command`). Nothing else happens to these
columns. Each module instantiates it with its own variables and states that it
implements it:

| Module | Maps | Steps that are not stutters |
|---|---|---|
| `EvidenceIngestion` | its rows and statuses; a parser's columns stay empty, the uploads are the bundles' item sets | `CreateRun` is `Create`; `Commit` is `Arrive`, or `Repeat` without a new row |
| `NormalizerWorker` | its columns by name, of the statuses what an upload leaves (`UploadStatus`); any set of items may be uploaded | an upload is `Arrive`, the upsert of a new asset `FindAsset`, the first write of an item `Normalize` |
| `CollectionPipeline` | its columns and statuses by name | a collector's `CreateRun` is `Create` and `Store` is `Arrive`, the worker's steps are as above |
| `DiscoveryOrchestrator` | its columns and statuses by name | its environment's four actions; a command makes `Command` only |

The lifecycle's two laws, `ColumnsAgree` and `NothingTakenBack`, are proved in that
module, of the columns alone; a module that implements it inherits them (`Lawful`,
`PipelineLawful`). And what the orchestrator's model takes the other services for is
just what the lifecycle lets them do (`AnyServices`).

**`AssetAttributes`** adds `assets.attributes` to the normalizer: the upsert merges
the document an item's parser extracted (`Hint`) into its asset's, key by key,
`||` of `jsonb` (`Merge`). Two parsers may extract one key, with the JSON `null` for
a value they did not find.

**`CollectionPipeline`** puts the collector (`collector/cmd/auditor-collect`,
`internal/runner`, `internal/policy`, `pkg/bundle`) and the ingestion API, with an
upload as one step, in front of the normalizer.

| Code | Action |
|---|---|
| `selectTools` | `StartCollector`, `Selected` |
| `Run` of a tool: output captured, whatever its exit; not installed; cannot be started | `ToolCaptured`; `ToolMissing`; `ToolError` |
| bundle built; written with `--output` | `BuildBundle` |
| `CreateRun`, its answer lost or not | `CreateRun` |
| the upload; its answer; the client's timeout, a lost connection, a kill | `PostBundle`; `UploadEnds`; `CollectorFails` |
| the server commits; refuses or fails | `Store`; `Refuse` |

`Store` conjoins the normalizer's `EvidenceCommitted`, so it notifies the workers that
listen. That an upload is one step is what `EvidenceIngestion!Refines` proves.

**`ModelGateway`** models `services/model-gateway` (`main.py`, `gateway.py`, `routing.py`,
`cost.py`, `validator.py`). Each call is a coroutine that awaits its provider.

| Code | Action |
|---|---|
| the request's types (422), `RoutingTable.resolve` (502) | `Accept`, with `WellFormed`, `Slots`, `Route` |
| the next tier: messages sent; SDK or key missing | `CallProvider`; `ProviderMissing` |
| an answer: validated, priced, returned or escalated | `ProviderAnswers` |
| an exception of the provider | `ProviderFails` |
| all tiers exhausted (502) | `Exhausted` |

The order of providers, prices, routes and denied providers are constants. What a
provider charges for a failed attempt is recorded in `billed`, which the code does not
keep, to compare it with the cost an answer reports.

**`AgentCalls`** adds the gateway's client: the registry (`packages/agents-py`) as a
predicate on agent directories (`WellDefined`, `Loads`), and a command that asks once
for each agent, uses only content that was validated, and may give a call up while the
gateway goes on with it (`PassFails`).

**`RunReaders`** adds readers to the orchestrator's model: `get_run` of the ingestion
API, and `load_run` and `load_sections` of the report generator, each the list of
queries it sends (`Queries`), one step per query, since at Postgres' default isolation
every query sees what is committed when it starts.

The `MC...` modules give the constants small values. `MCNormalizerWorker` serves
`NormalizerStarvation.cfg`. Operators marked "Mutant" are changed forms of the
definition that follows them and are used by no specification; each shows that a
property depends on the code it is about.

## The runs

| Run | Instance | Shows |
|---|---|---|
| `ingestion` | 2 servers, 2 runs, bundles of 2 items and 1 item, 3 uploads, 2 seconds | rows have their objects, bundles are whole, one upload at most accepts a bundle, the run moves with its evidence, servers never wait in a circle, every upload ends, the lifecycle is implemented |
| `ingestion_immutable` | same, 2 uploads | **violation**: two bundles of one run within one second share a key, the second replaces the first |
| `normalizer` | 2 workers, 2 runs, 2 items of one host whose parsers share an attribute, 1 failure of any kind | assets and evidence agree, attributes are neither lost nor invented, one worker never repeats an item, no wake-up is missed, normalization is final, the lifecycle is implemented |
| `pipeline` | 2 collectors, 2 tools and one that is not allowed, 3 items of one host of which one is unreadable, 1 worker, batches of 2, 1 failure | no tool is lost on the way, what a collector reports and what a run's status says is true, everything reported and everything uploaded that can be normalized is, as the lifecycle says |
| `normalizer_starvation` | 1 worker, 3 items of which one has no parser, batches of 1, 2 failures | **violation**: items that stay pending fill the batch and starve the rest |
| `gateway` | any options, any subset of 3 agent definitions, 2 calls, routes of 2 and 3 tiers, a denied provider | privacy on every fallback, the first acceptable tier answers, failure only after all tiers, cost is a lower bound, only validated content is used, calls end |
| `discovery` | 2 concurrent commands of 2, 2 runs, 2 items of one host | observations cite evidence and stay in their run, sections embed facts, complete runs have observations, evidence changes as the lifecycle says |
| `discovery_grouping` | 1 command at a time of 2, 4 items in 4 categories, 2 agents | two categories of one agent, a category with none; the audit log accounts for the rows |
| `readers` | 1 reader of any kind, 2 concurrent commands, 1 item | a run that reads complete reads observations; the facts sections point at are loaded |
| `discovery_rerun` | as `discovery` | **violation**: the second run of a host shows evidence of an asset no observation may be about |
| `discovery_idempotent` | as `discovery` | **violation**: a repeated pass repeats its observations |
| `report_markers` | as `discovery` | **violation**: a section is stored with a marker to no observation |

The violation runs check what `ARCHITECTURE.md`, the schema's comments or the
code's own comments say; `PROJECT.json` quotes each line under "findings".

**Bounds.** Every bound is a constant, or named where it appears, and stands in a guard.

- `MaxClock`, `MaxUploads`: three uploads are a bundle, its retry and one more that
  competes with both; two servers are enough for any pair of transactions to
  overlap, and a bundle of two items for a partial one.
- `MaxStamp`, `MaxFaults`: two workers, two items of one asset and two runs are the
  smallest instance in which a race over an asset's run, or over an attribute, has two
  outcomes; one failure at any step is what separates two commits of an item.
- The pipeline's collectors run one after the other, in a fixed order: they share
  nothing but the server, whose concurrency is `ingestion`'s subject. `post` outlives a
  collector, so the first one's upload may still arrive after the second began. `Limit`
  must exceed the number of items that stay pending, as `normalizer_starvation` shows.
- `MaxTokens`, and the calls of `gateway`: two calls are one given up and the one that
  follows it, or two agents of a pass. A command that is run again has the same options
  and the same definitions.
- `MaxAnswer`, `MaxCommands`: two commands are a pass and its repeat, two passes at
  once, or a report during a discovery. One element per answer suffices because each is
  checked on its own.
- `readers` has one item and one run, which is all an answer is about. Readers change
  nothing, so one says as much as many.

**Deadlock** is checked for `normalizer` and `normalizer_starvation`, whose workers
always have a next step. The bounded number of uploads, collectors, calls and commands
ends the other systems, so their configurations switch the check off.

**Fairness.**

- `EvidenceIngestion!FairSpec`: a live process goes on with its handler (`WF` of
  `Handle`); nothing of clients, clocks or failures.
- `NormalizerWorker!Fairness`: a worker's process is run and restarted (`WF` of `Work`)
  and the timer branch is taken if it is ready again and again (`SF` of `OnTick`):
  `tokio::select!` polls its branches in random order, and the interval stays ready
  until it is taken. Nothing is assumed of notifications, uploads or failures.
- `CollectionPipeline!PipelineFairSpec` has the normalizer's fairness only: a tool may
  hang, and neither clients nor servers owe an upload.
- `AgentCalls!CallsSpec`: a handler goes on (`WF` of `Handle`), because the providers'
  SDKs and the local adapter have timeouts of their own. Commands owe nothing.
- The orchestrator has no liveness property: nobody repeats a command that fails.

## The proofs

TLAPS checks the following for all values of the constants that satisfy the named
assumptions of the modules (`SchemaAssumption`, `IngestionAssumption`,
`NormalizerAssumption`, ...): any sets of workers, servers, collectors, runs, items and
assets, any batch limit and concurrency, any routing table, any bounds.

**`EvidenceIngestion_proofs`**: `TypeCorrect`, `RawObject`, `AllOrNothing`, `MovesRun`,
`FirstWins`, `AcceptedOnce`, `NoCycle` and `Refines`. The invariant `IInv` adds what a
handler has `Made` of its bundle (every item is still to come, inserted or committed,
and nothing else is inserted) and that the rows of open transactions are new and each
in one transaction only (`Exclusive`). The second is where the wait of an `INSERT`
enters the proof: a row another transaction holds is never inserted again, so a commit
cannot take a committed row over. That manifests share no item (`IngestionAssumption`,
ids are fresh UUIDs) is used for a commit not to complete another bundle in part. A
commit therefore inserts all of its bundle or nothing (`CommitWhole`), from which
`AcceptedOnce` and `Refines` follow. For `NoCycle` the invariant `OInv` adds that a
handler works through its manifest `InOrder`. So an upload waits only for one of the
same bundle that has less left to do (`WaitsForAhead`), and in any set of uploads,
finite or not, the one with the least left waits for none of the others.
`UploadsDescend` turns this into the safety half of `EveryUploadEnds`: a handler has a
number of steps `Left`, nobody's step raises it, each of its own lowers it, and while
any handler is busy one of them waits for nobody. `Tarballs` says what is left of the
immutability that `ingestion_immutable` refutes: the key an audit row names always holds
a bundle, and a key is final once its second is past and no upload is on the way to it.

**`NormalizerWorker_proofs`**: `TypeCorrect`, `ParsedAsset`, `AssetRun`, `Once`,
`Final`, `Refines`, `Lawful`, `Woken`, `BatchHasWork`, `Starvation`, `Bounded` and
`DrainsDescend`. An item is fetched in one step and written and audited in later ones,
so `IInv` adds `DrainKnows`, what a drain knows of an item it has fetched: it is
evidence that this worker has not audited; at the write its asset's row exists; at the
audit it is parsed. Most steps write no row; they are proved together as `Quiet` steps
(`QuietStep`), and what remains is an upload, the upsert, the write and the audit.
`Final` and `Refines` follow from the same invariant: a second worker that writes a
parsed item writes the asset the item already has. `Woken` rests on `WakeInv`: as long
as nothing has failed and the rows fit a batch, a worker that has drained on its timer
knows every pending item, by a notification it has not received yet or from its drain.
It assumes that the items are finitely many, since a batch is compared with `Limit` by
its size, and so do the theorems on batches and drains. `Starvation` and `BatchHasWork`
are the two sides of what `normalizer_starvation` shows on one instance: items no parser
accepts stay pending (`StuckInv`), so as soon as `Limit` of them are older than an item
of their run it is out of every batch from then on (`NeverReached`), while with fewer of
them pending a batch always holds one that can be normalized. `Bounded` keeps what a
worker has at hand within `Limit` and `Concurrency`, and `DrainsDescend` has the
statements left to each item fall until the drain is over.

**`AssetAttributes_proofs`**: `AttributesRun` (the specification is the normalizer's with
one more column) and `AttributesKept`, from the invariant that an item that has passed
its upsert has given its asset its keys, and every value has its evidence.

**`CollectionPipeline_proofs`**: `PipelineRuns` (a pipeline's steps are the
normalizer's or leave it alone, so the normalizer's theorems hold in it),
`PipelineTypeCorrect`, `Complete`, `Uploaded`, `Status`, `PipelineRefines` and
`PipelineLawful`. The invariant says of each
collector that every selected tool is still to run, missing or in the bundle
(`Accounted`), that its step and its post agree (`Progress`), that a run has one
collector's items exactly if its post is stored (`Delivered`), and that no two
collectors create the same run. `StatusTellsArrival` is about runs no command has worked
on yet: commands overwrite the status, and are not part of this module.

**`DiscoveryOrchestrator_proofs`**: `TypeCorrect`, `Cited`, `InRun`, `Embedded`,
`Complete`, `AuditAccounts`, `Refines`, `Lawful` and `AnyServices`. The invariant is
what a command `Knows` while it waits for a model: its assets are its run's, its
evidence is normalized evidence of its run and agent, its facts are observations of its
run. That what was read stays true is `StepGrows`: no service takes back what a row says
of evidence, assets or observations. An answer's rows are then right because `Rows`
admits only what the command knows (`RowsCite`). `AuditAccounts` has an invariant of its
own, `Books`: a command has a number no other one under way has, keeps in its `Ledger`
what it wrote, and has written and logged nothing for the agents it has still to run.
`AnyServices` is the converse of `Refines`: commands beside any services that only take
steps of `Lifecycle!Service` satisfy this module's `Spec`. So every theorem about the
commands holds beside the ingestion API and the workers as their own modules have them.

**`RunReaders_proofs`**: `ReadersRun` (readers disturb nothing, so the orchestrator's
invariants hold under every query), `CompleteAnswers` and `PointedFacts`. Observations
are only added, so what a query sees stays a part of what later ones see; `ReadInv`
says what each reader has found by the query it is at (`Consistent`), and that a stored
section's markers point at observations that exist or at none (`MarkersExist`).

**`AgentCalls_proofs`**, of the gateway: `TypeCorrect`, `PrivacyKept`, `FirstTier`,
`Exhaustive` and `LowerBound`. The invariant `CallInv` says of each call which tiers it
has tried (the first ones of its route), which providers it has reached (theirs only),
and what it was charged for (`Routed`, `Charged`, `Concluded`). Handlers of other calls
leave it alone (`StepOthers`). `CallsDescend` is the safety half of `EveryCallEnds`: a
call has at most seven steps left, nobody's step gives one back, and between two tiers
it can go on. Of the gateway with its clients: `CallsUseGateway` (it still implements
its own specification, so the theorems above hold, `CommandCallsDescend` among them),
`UsedIsValidated`, from the invariant that every call is a registered agent's, and
`AgentsServed`, which states what the configuration has to provide: the registry's task
kinds are the gateway's, and each has a target under every option.

**`EvidenceLifecycle`**: `Agree` and `Permanent`, the laws above, from `LifecycleInv`,
the types of the columns with `ColumnsAgree`. They are proved once, through the instance
of each module that implements the lifecycle they become `Lawful` there. For the
normalizer they say again what its own invariant says; for the other modules they are
what the tables guarantee when all services write them at once.

Only model-checked: the liveness properties `PendingIsDrained`, `ReportedIsNormalized`,
`EveryUploadEnds` and `EveryCallEnds`, which are out of the prover's reach, and the
properties that are violated. Of the liveness properties the part that is safety is
proved: a measure that no step raises and the actor's own steps lower, and an actor that
need not wait (`UploadsDescend`, `DrainsDescend`, `CallsDescend`). What is left to
fairness is that such an actor is run. Nothing is proved by induction over data or about a
recursive operator; there is none.

## Not modelled

- Parsers, redaction, the text of bundles, prompts, markers and reports, HTML and PDF:
  pure functions of strings. What the services decide by them is a constant or a
  nondeterministic choice: an item has a parser or not, is readable or not, names an
  asset and attributes; a bundle is refused or not; a section's markers point anywhere.
  A bundle that is too large or malformed is refused before any write.
- The hardware probe (single-shot reading of facts), the connectors (stubs), the
  allowlist's comparison with the policy (static), `models-py` (declarations).
- Settings that no code reads: the gateway's cost caps, allowed providers, zero
  retention, overrides by tenant, failure counts and cool-downs; the critic loop the
  documents mention. What the code does enforce is `PrivacyHonoured`.
- List endpoints and `/v1/health`, which are a single statement or a constant;
  authentication, HTTP and SQL syntax; tenants (one is modelled).
- That a tool's `--version` is asked for without a timeout, and that a signal during a
  drain is seen by no branch of the loop: both only prolong a step, and a step may take
  forever in the models.
