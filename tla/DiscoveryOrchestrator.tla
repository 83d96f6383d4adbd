----------------------- MODULE DiscoveryOrchestrator -----------------------
(***************************************************************************)
(* The orchestrator (services/orchestrator): the two commands of its CLI,  *)
(* run (discover_run) and report (assemble_run_report), over Postgres and  *)
(* the model gateway, while uploads and the normalizer keep changing the   *)
(* evidence and the assets. A command is a process of its own; every       *)
(* repository call is one transaction, so commands interleave with each    *)
(* other and with the normalizer between any two calls, and most of all    *)
(* while an agent's answer is awaited.                                     *)
(*                                                                         *)
(* What a model answers is arbitrary: it may cite evidence, assets and     *)
(* observations it was never shown, or that do not exist.                  *)
(***************************************************************************)
EXTENDS AuditSchema, Naturals, FiniteSets

CONSTANTS Categories,   \* evidence_items.category
          CategoryOf,   \* the category of each item
          Agents,       \* discovery agents
          NoAgent,      \* the binding of a category no agent handles
          AgentFor,     \* domains.py: the agent of each category
          Registry,     \* the agents the registry loaded
          AssetFor,     \* the asset the item's parser names, or NoAsset
          Clis,         \* command processes that may run at the same time
          Unknown,      \* a citation of something that does not exist
          MaxAnswer,    \* bound: observations or sections in one answer
          MaxCommands   \* bound: commands ever started

ASSUME OrchestratorAssumption ==
  /\ CategoryOf \in [Items -> Categories]
  /\ AgentFor \in [Categories -> Agents \cup {NoAgent}] /\ NoAgent \notin Agents
  /\ Registry \subseteq Agents
  /\ AssetFor \in AssetColumn(Items)
  /\ Unknown \notin Items \cup Assets
  /\ MaxAnswer \in Nat /\ MaxCommands \in Nat

VARIABLES
  status,        \* runs.status
  runOf,         \* evidence_items.run_id, NoRun while there is no row
  parsed,        \* evidence_items.parsed IS NOT NULL
  assetOf,       \* evidence_items.asset_id
  assetRun,      \* assets.run_id, NoRun while there is no row
  observations,  \* observations, with the command that inserted the row
  sections,      \* report_sections, with the command that inserted the row
  audits,        \* audit_log, the orchestrator's rows
  cli,           \* the local state of each command process
  commands       \* commands started so far

evidence == <<runOf, parsed, assetOf, assetRun>>
outputs  == <<observations, sections, audits>>
vars     == <<status, evidence, outputs, cli, commands>>

Steps == {"idle", "categories", "assets", "agents", "evidence", "agent",
          "audit_agent", "audit_run", "report", "complete", "audit_report"}

Command == 1..MaxCommands

\* A raw observation of an answer, before any check.
Answer == [asset : Assets \cup {Unknown}, cites : SUBSET (Items \cup {Unknown}),
           related : SUBSET Assets]

Observation == [command : Command, run : Runs, agent : Agents, asset : Assets,
                cites : SUBSET Items, related : SUBSET Assets]
Section     == [command : Command, run : Runs,
                embedded : SUBSET Observation, markers : SUBSET (Observation \cup {Unknown})]
AuditRow    == [action : {"agent_run", "discovered", "reported"}, command : Command,
                agent : Agents \cup {NoAgent}, count : Nat]

\* Locals of a command: the run and the assets and categories read at its
\* start, the agents still to run, the current agent, the categories it has still
\* to read and the evidence read for it, the rows written, the observations read.
Local == [step : Steps, command : Command \cup {0}, run : Runs \cup {NoRun},
          categories : SUBSET Categories, assets : SUBSET Assets,
          agents : SUBSET Agents, agent : Agents \cup {NoAgent},
          toRead : SUBSET Categories, evidence : SUBSET Items,
          written : Nat, total : Nat, facts : SUBSET Observation]

Idle == [step |-> "idle", command |-> 0, run |-> NoRun, categories |-> {},
         assets |-> {}, agents |-> {}, agent |-> NoAgent, toRead |-> {},
         evidence |-> {}, written |-> 0, total |-> 0, facts |-> {}]

TypeOK ==
  /\ status \in [Runs -> RunStatus]
  /\ runOf \in RunColumn(Items)
  /\ parsed \in [Items -> BOOLEAN]
  /\ assetOf \in AssetColumn(Items)
  /\ assetRun \in RunColumn(Assets)
  /\ observations \subseteq Observation
  /\ sections \subseteq Section
  /\ audits \subseteq AuditRow
  /\ cli \in [Clis -> Local]
  /\ commands \in 0..MaxCommands

Init ==
  /\ status = [r \in Runs |-> "collecting"]
  /\ runOf = [i \in Items |-> NoRun]
  /\ parsed = [i \in Items |-> FALSE]
  /\ assetOf = [i \in Items |-> NoAsset]
  /\ assetRun = [a \in Assets |-> NoRun]
  /\ observations = {} /\ sections = {} /\ audits = {}
  /\ cli = [c \in Clis |-> Idle]
  /\ commands = 0

----------------------------------------------------------------------------
(* The other services, as the orchestrator's tables see them.               *)

\* An upload commits the rows S of run r, whatever the run's status.
EvidenceCommitted(r, S) ==
  /\ S # {} /\ \A i \in S : runOf[i] = NoRun
  /\ runOf' = [i \in Items |-> IF i \in S THEN r ELSE runOf[i]]
  /\ status' = [status EXCEPT ![r] = "normalizing"]
  /\ UNCHANGED <<parsed, assetOf, assetRun, outputs, cli, commands>>

\* An upload commits that brings run r nothing new: its bundle was there before.
EvidenceRepeated(r) ==
  /\ status' = [status EXCEPT ![r] = "normalizing"]
  /\ UNCHANGED <<evidence, outputs, cli, commands>>

\* The normalizer upserts the asset of an item: an existing one keeps its run.
UpsertAsset(i) ==
  /\ runOf[i] # NoRun
  /\ AssetFor[i] \in Assets /\ assetRun[AssetFor[i]] = NoRun
  /\ assetRun' = [assetRun EXCEPT ![AssetFor[i]] = runOf[i]]
  /\ UNCHANGED <<status, runOf, parsed, assetOf, outputs, cli, commands>>

\* Mutant: ... in whichever order.
WriteParsedFirst(i) ==
  /\ runOf[i] # NoRun /\ ~parsed[i]
  /\ parsed' = [parsed EXCEPT ![i] = TRUE]
  /\ assetOf' = [assetOf EXCEPT ![i] = AssetFor[i]]
  /\ UNCHANGED <<status, runOf, assetRun, outputs, cli, commands>>

\* ... and then writes the item's parsed content and its asset, if it has one.
WriteParsed(i) ==
  /\ runOf[i] # NoRun /\ ~parsed[i]
  /\ AssetFor[i] # NoAsset => assetRun[AssetFor[i]] # NoRun
  /\ parsed' = [parsed EXCEPT ![i] = TRUE]
  /\ assetOf' = IF AssetFor[i] = NoAsset THEN assetOf
                ELSE [assetOf EXCEPT ![i] = AssetFor[i]]
  /\ UNCHANGED <<status, runOf, assetRun, outputs, cli, commands>>

----------------------------------------------------------------------------
(* auditcore-orchestrator run: one discovery pass.                          *)

\* The step a command is at, and its locals after this step.
At(c, step) == cli[c].step = step
Set(c, l) == cli' = [cli EXCEPT ![c] = l]

\* Evidence of run r that has been normalized.
Normalized(r) == {i \in Items : runOf[i] = r /\ parsed[i]}

\* The run's status is overwritten whatever it was.
StartDiscovery(c, r) ==
  /\ At(c, "idle") /\ commands < MaxCommands
  /\ commands' = commands + 1
  /\ status' = [status EXCEPT ![r] = "discovering"]
  /\ Set(c, [Idle EXCEPT !.step = "categories", !.command = commands + 1, !.run = r])
  /\ UNCHANGED <<evidence, outputs>>

ReadCategories(c) ==
  /\ At(c, "categories")
  /\ Set(c, [cli[c] EXCEPT !.step = "assets",
               !.categories = {CategoryOf[i] : i \in Normalized(cli[c].run)}])
  /\ UNCHANGED <<status, evidence, outputs, commands>>

\* Mutant: every asset of the tenant is read.
ReadAllAssets(c) ==
  LET l == cli[c] IN
  /\ At(c, "assets")
  /\ Set(c, [l EXCEPT !.step = "agents",
               !.assets = {a \in Assets : assetRun[a] # NoRun},
               !.agents = {AgentFor[k] : k \in l.categories} \cap Registry])
  /\ UNCHANGED <<status, evidence, outputs, commands>>

\* Mutant: a category without an agent is not dropped.
ReadAssetsUnbound(c) ==
  LET l == cli[c] IN
  /\ At(c, "assets")
  /\ Set(c, [l EXCEPT !.step = "agents",
               !.assets = {a \in Assets : assetRun[a] = l.run},
               !.agents = {AgentFor[k] : k \in l.categories}])
  /\ UNCHANGED <<status, evidence, outputs, commands>>

\* The assets are read once for all agents, and only those this run discovered
\* first. Categories are grouped by agent; one without an agent, and an agent that
\* is not in the registry, are dropped.
ReadAssets(c) ==
  LET l == cli[c] IN
  /\ At(c, "assets")
  /\ Set(c, [l EXCEPT !.step = "agents",
               !.assets = {a \in Assets : assetRun[a] = l.run},
               !.agents = {AgentFor[k] : k \in l.categories} \cap Registry])
  /\ UNCHANGED <<status, evidence, outputs, commands>>

NextAgent(c, g) ==
  LET l == cli[c] IN
  /\ At(c, "agents") /\ g \in l.agents
  /\ Set(c, [l EXCEPT !.step = "evidence", !.agent = g, !.agents = @ \ {g},
               !.toRead = {k \in l.categories : AgentFor[k] = g}, !.evidence = {}])
  /\ UNCHANGED <<status, evidence, outputs, commands>>

\* One query per category of the agent.
ReadEvidence(c, k) ==
  LET l == cli[c] IN
  /\ At(c, "evidence") /\ k \in l.toRead
  /\ Set(c, [l EXCEPT !.toRead = @ \ {k},
               !.step = IF l.toRead = {k} THEN "agent" ELSE "evidence",
               !.evidence = @ \cup {i \in Normalized(l.run) : CategoryOf[i] = k}])
  /\ UNCHANGED <<status, evidence, outputs, commands>>

\* Mutant: cited evidence need only exist.
AdmissibleIfExists(a, shown, assets) ==
  /\ a.cites # {} /\ a.cites \subseteq Items
  /\ a.asset \in assets

\* _validate_evidence and _resolve_asset: an observation must cite evidence, only
\* evidence it was shown, and be about an asset it was shown.
Admissible(a, shown, assets) ==
  /\ a.cites # {} /\ a.cites \subseteq shown
  /\ a.asset \in assets

\* The rows command l writes for the raw observations A of its agent.
Rows(l, A) ==
  {[command |-> l.command, run |-> l.run, agent |-> l.agent, asset |-> a.asset,
    cites |-> a.cites, related |-> a.related \cap l.assets] :
      a \in {b \in A : Admissible(b, l.evidence, l.assets)}}

\* Mutant: raw observations are counted as written.
RunAgentCountsRaw(c, A) ==
  LET l == cli[c] IN
  /\ At(c, "agent")
  /\ observations' = observations \cup Rows(l, A)
  /\ Set(c, [l EXCEPT !.step = "audit_agent", !.written = Cardinality(A),
               !.total = @ + Cardinality(A)])
  /\ UNCHANGED <<status, evidence, sections, audits, commands>>

\* The agent has answered with the raw observations A, none if its output failed
\* the schema: what is admissible is written in one transaction.
RunAgent(c, A) ==
  LET l == cli[c]  new == Rows(l, A) IN
  /\ At(c, "agent")
  /\ observations' = observations \cup new
  /\ Set(c, [l EXCEPT !.step = "audit_agent", !.written = Cardinality(new),
               !.total = @ + Cardinality(new)])
  /\ UNCHANGED <<status, evidence, sections, audits, commands>>

LogRow(l, action, agent, count) ==
  audits' = audits \cup {[action |-> action, command |-> l.command,
                          agent |-> agent, count |-> count]}

AuditAgent(c) ==
  LET l == cli[c] IN
  /\ At(c, "audit_agent")
  /\ LogRow(l, "agent_run", l.agent, l.written)
  /\ Set(c, [l EXCEPT !.step = "agents"])
  /\ UNCHANGED <<status, evidence, observations, sections, commands>>

FinishDiscovery(c) ==
  LET l == cli[c] IN
  /\ At(c, "agents") /\ l.agents = {}
  /\ status' = [status EXCEPT ![l.run] = "reporting"]
  /\ Set(c, [l EXCEPT !.step = "audit_run"])
  /\ UNCHANGED <<evidence, outputs, commands>>

AuditDiscovery(c) ==
  /\ At(c, "audit_run")
  /\ LogRow(cli[c], "discovered", NoAgent, cli[c].total)
  /\ Set(c, Idle)
  /\ UNCHANGED <<status, evidence, observations, sections, commands>>

----------------------------------------------------------------------------
(* auditcore-orchestrator report: one report pass.                          *)

FactsOf(r) == {o \in observations : o.run = r}

\* Mutant: a run without observations is reported all the same.
StartReportAlways(c, r) ==
  /\ At(c, "idle") /\ commands < MaxCommands
  /\ commands' = commands + 1
  /\ Set(c, [Idle EXCEPT !.step = "report", !.command = commands + 1,
                         !.run = r, !.facts = FactsOf(r)])
  /\ UNCHANGED <<status, evidence, outputs>>

\* A run without observations ends the command with nothing written.
StartReport(c, r) ==
  /\ At(c, "idle") /\ commands < MaxCommands
  /\ commands' = commands + 1
  /\ Set(c, IF FactsOf(r) = {} THEN Idle
            ELSE [Idle EXCEPT !.step = "report", !.command = commands + 1,
                              !.run = r, !.facts = FactsOf(r)])
  /\ UNCHANGED <<status, evidence, outputs>>

\* A raw section cites observations in its list and in the markers of its body.
\* Citations of the list that do not exist are stripped; markers are only reported.
RawSections == [embedded : SUBSET (observations \cup {Unknown}),
                markers : SUBSET (observations \cup {Unknown})]

\* Mutant: the list of observations is stored as the model gave it.
WriteReportUnchecked(c, A) ==
  LET l == cli[c] IN
  /\ At(c, "report")
  /\ sections' = sections \cup
       {[command |-> l.command, run |-> l.run,
         embedded |-> a.embedded, markers |-> a.markers] : a \in A}
  /\ Set(c, [l EXCEPT !.step = "complete", !.written = Cardinality(A)])
  /\ UNCHANGED <<status, evidence, observations, audits, commands>>

\* The report agent has answered with the sections A, none if its output failed
\* the schema.
WriteReport(c, A) ==
  LET l == cli[c] IN
  /\ At(c, "report")
  /\ sections' = sections \cup
       {[command |-> l.command, run |-> l.run,
         embedded |-> a.embedded \cap l.facts, markers |-> a.markers] : a \in A}
  /\ Set(c, [l EXCEPT !.step = "complete", !.written = Cardinality(A)])
  /\ UNCHANGED <<status, evidence, observations, audits, commands>>

CompleteRun(c) ==
  LET l == cli[c] IN
  /\ At(c, "complete")
  /\ status' = [status EXCEPT ![l.run] = "complete"]
  /\ Set(c, [l EXCEPT !.step = "audit_report"])
  /\ UNCHANGED <<evidence, outputs, commands>>

AuditReport(c) ==
  /\ At(c, "audit_report")
  /\ LogRow(cli[c], "reported", NoAgent, cli[c].written)
  /\ Set(c, Idle)
  /\ UNCHANGED <<status, evidence, observations, sections, commands>>

\* The gateway answers an error, a query fails or the process is killed: the
\* command ends where it is and nothing takes the run's status back.
Abort(c) ==
  /\ ~At(c, "idle")
  /\ Set(c, Idle)
  /\ UNCHANGED <<status, evidence, outputs, commands>>

----------------------------------------------------------------------------
\* What an answer lists: at most MaxAnswer elements of S.
Answers(S) == {{}} \cup {{f[n] : n \in 1..MaxAnswer} : f \in [1..MaxAnswer -> S]}

Discover(c) ==
  \/ ReadCategories(c) \/ ReadAssets(c)
  \/ \E g \in Agents : NextAgent(c, g)
  \/ \E k \in Categories : ReadEvidence(c, k)
  \/ At(c, "agent") /\ \E A \in Answers(Answer) : RunAgent(c, A)
  \/ AuditAgent(c) \/ FinishDiscovery(c) \/ AuditDiscovery(c)

Describe(c) ==
  \/ At(c, "report") /\ \E A \in Answers(RawSections) : WriteReport(c, A)
  \/ CompleteRun(c) \/ AuditReport(c)

Environment ==
  \/ \E r \in Runs : EvidenceRepeated(r) \/ \E S \in SUBSET Items : EvidenceCommitted(r, S)
  \/ \E i \in Items : UpsertAsset(i) \/ WriteParsed(i)

Next ==
  \/ Environment
  \/ \E c \in Clis, r \in Runs : StartDiscovery(c, r) \/ StartReport(c, r)
  \/ \E c \in Clis : Discover(c) \/ Describe(c) \/ Abort(c)

Spec == Init /\ [][Next]_vars

----------------------------------------------------------------------------
\* The integrity guarantee: every observation cites evidence, and only normalized
\* evidence of its own run in a category of its own agent, whatever the model
\* answered and whatever changed while it did.
ObservationsCiteEvidence ==
  \A o \in observations :
     /\ o.cites # {}
     /\ \A i \in o.cites : /\ runOf[i] = o.run /\ parsed[i]
                           /\ AgentFor[CategoryOf[i]] = o.agent

\* An observation is about an asset its run discovered, and so are its related
\* assets: no other run's assets enter.
ObservationsStayInRun ==
  \A o \in observations : \A a \in {o.asset} \cup o.related : assetRun[a] = o.run

\* The list of observations a section embeds holds only persisted observations of
\* the section's own run.
SectionsEmbedFacts ==
  \A s \in sections : s.embedded \subseteq FactsOf(s.run)

\* A run is complete only once it has observations, whichever commands, aborted or
\* concurrent, have worked on it.
CompleteHasObservations ==
  \A r \in Runs : status[r] = "complete" => FactsOf(r) # {}

\* The audit log accounts for the observations table: each agent_run row counts the
\* rows that command wrote for that agent, and the final row of a pass counts all
\* the pass wrote.
AuditAccountsForRows ==
  \A e \in audits :
     /\ e.action = "agent_run" => e.count =
          Cardinality({o \in observations : o.command = e.command /\ o.agent = e.agent})
     /\ e.action = "discovered" => e.count =
          Cardinality({o \in observations : o.command = e.command})

\* The runs and the evidence the commands work on change as the ingestion API and
\* the normalizer make them change; all a command does to them is to move a run on.
Lifecycle == INSTANCE EvidenceLifecycle WITH Uploads <- SUBSET Items

ImplementsLifecycle == Lifecycle!Spec

\* discovery.py shows an agent every item with its asset_id and tells it to "Cite
\* only the evidence_ids and asset_ids shown above": the assets of the evidence an
\* agent is shown are among the assets it may cite.
ShownAssetsCitable ==
  \A c \in Clis : At(c, "agent") =>
     \A i \in cli[c].evidence : assetOf[i] \in cli[c].assets \cup {NoAsset}

\* ARCHITECTURE.md: "each agent is an idempotent, retried activity": repeating a
\* pass does not repeat its observations.
DiscoveryIdempotent ==
  \A o, p \in observations :
     (o.run = p.run /\ o.agent = p.agent /\ o.asset = p.asset /\ o.cites = p.cites
        /\ o.related = p.related) => o = p

\* The schema's comment: the orchestrator validates "every referenced id", so that
\* "a section may only cite facts that exist".
SectionsCiteFacts ==
  \A s \in sections : s.markers \subseteq FactsOf(s.run)
============================================================================
